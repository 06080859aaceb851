---------------------------- MODULE Stream_proofs ----------------------------
(***************************************************************************)
(* Proofs about the buffering in front of the block functions, for every   *)
(* size of blocks and of the length, and every cutting of the message into *)
(* chunks: blocks and buffer are the message so far, cut in order (Holds). *)
(* UpdateIs says that a chunk is appended to it; the padding of SHA-256 is *)
(* a fold of such steps (PaddedIs), that of Poly1305 a last block          *)
(* (ClosedIs).                                                             *)
(***************************************************************************)
EXTENDS Algorithms_proofs


(* A stream has taken in w: its blocks, and the block in progress, are w    *)
(* cut up in order.                                                         *)
Cut(blocks, w) ==
  /\ blocks \in Seq(Seq(Int)) /\ w \in Seq(Int)
  /\ \A i \in 1 .. Len(blocks) : Len(blocks[i]) = BlockBytes
  /\ Len(blocks) * BlockBytes <= Len(w)
  /\ \A i \in 1 .. Len(blocks), j \in 1 .. BlockBytes : blocks[i][j] = w[(i - 1) * BlockBytes + j]

Holds(s, w) ==
  /\ Cut(s.absorbed, w)
  /\ s.pending \in Seq(Int) /\ Len(s.pending) < BlockBytes
  /\ Len(w) = Len(s.absorbed) * BlockBytes + Len(s.pending)
  /\ \A j \in 1 .. Len(s.pending) : s.pending[j] = w[Len(s.absorbed) * BlockBytes + j]

(* Two sequences in a row. *)
LEMMA Joined ==
  ASSUME NEW S, NEW s \in Seq(S), NEW t \in Seq(S)
  PROVE  /\ s \o t \in Seq(S) /\ Len(s \o t) = Len(s) + Len(t)
         /\ Len(s) \in Nat /\ Len(t) \in Nat
         /\ \A i \in 1 .. Len(s) : (s \o t)[i] = s[i]
         /\ \A i \in 1 .. Len(t) : (s \o t)[Len(s) + i] = t[i]
<1> DEFINE u == s \o t
<1>1. /\ u \in Seq(S) /\ Len(u) = Len(s) + Len(t)
      /\ \A i \in 1 .. Len(s) + Len(t) : u[i] = IF i <= Len(s) THEN s[i] ELSE t[i - Len(s)]
  BY ConcatProperties, Zenon
<1>2. Len(s) \in Nat /\ Len(t) \in Nat
  OBVIOUS
<1> HIDE DEF u
<1>3. \A i \in 1 .. Len(s) : u[i] = s[i]
  BY <1>1, <1>2
<1>4. \A i \in 1 .. Len(t) : u[Len(s) + i] = t[i]
  <2> SUFFICES ASSUME NEW i \in 1 .. Len(t) PROVE u[Len(s) + i] = t[i]
    OBVIOUS
  <2>1. Len(s) + i \in 1 .. Len(s) + Len(t) /\ ~(Len(s) + i <= Len(s)) /\ (Len(s) + i) - Len(s) = i
    BY <1>2
  <2> QED
    BY <1>1, <2>1
<1> QED
  BY <1>1, <1>2, <1>3, <1>4 DEF u

LEMMA JoinedAt ==
  ASSUME NEW S, NEW s \in Seq(S), NEW t \in Seq(S), NEW m \in Nat, Len(s) = m, NEW i \in 1 .. Len(t)
  PROVE  (s \o t)[m + i] = t[i]
<1> DEFINE u == s \o t
<1>1. Len(s) \in Nat /\ Len(t) \in Nat
  OBVIOUS
<1>2. \A k \in 1 .. Len(s) + Len(t) : u[k] = IF k <= Len(s) THEN s[k] ELSE t[k - Len(s)]
  BY ConcatProperties, Zenon
<1> HIDE DEF u
<1>3. m + i \in 1 .. Len(s) + Len(t) /\ ~(m + i <= Len(s)) /\ (m + i) - Len(s) = i
  BY <1>1
<1>4. u[m + i] = t[i]
  BY <1>2, <1>3
<1> QED
  BY <1>4 DEF u

(* A place in one of k blocks is a place in all of them together.           *)
LEMMA PlaceInBlocks ==
  ASSUME NEW k \in Nat, NEW i \in 1 .. k, NEW j \in 1 .. BlockBytes
  PROVE  /\ (i - 1) * BlockBytes \in Nat /\ k * BlockBytes \in Nat
         /\ (i - 1) * BlockBytes + j \in 1 .. k * BlockBytes
<1>1. (i - 1) * BlockBytes >= 0 /\ (i - 1) * BlockBytes <= (k - 1) * BlockBytes
  BY StreamAssumption
<1>2. (k - 1) * BlockBytes = k * BlockBytes - BlockBytes /\ (i - 1) * BlockBytes \in Int /\ k * BlockBytes \in Int
  BY StreamAssumption
<1> QED
  BY <1>1, <1>2, StreamAssumption

(* More bytes do not move those that were there. *)
LEMMA CutLonger ==
  ASSUME NEW blocks, NEW w, Cut(blocks, w), NEW v \in Seq(Int)
  PROVE  Cut(blocks, w \o v)
<1> DEFINE u == w \o v
<1>0. w \in Seq(Int)
  BY DEF Cut
<1>1. u \in Seq(Int) /\ Len(u) = Len(w) + Len(v) /\ (\A k \in 1 .. Len(w) : u[k] = w[k]) /\ Len(w) \in Nat /\ Len(v) \in Nat
  BY <1>0, Joined
<1> HIDE DEF u
<1>2. Len(blocks) \in Nat /\ Len(blocks) * BlockBytes \in Int
  BY StreamAssumption DEF Cut
<1>3. ASSUME NEW i \in 1 .. Len(blocks), NEW j \in 1 .. BlockBytes
      PROVE  blocks[i][j] = u[(i - 1) * BlockBytes + j]
  <2>1. (i - 1) * BlockBytes + j \in 1 .. Len(blocks) * BlockBytes
    BY <1>2, PlaceInBlocks
  <2>2. (i - 1) * BlockBytes + j \in 1 .. Len(w)
    BY <1>2, <2>1 DEF Cut
  <2> QED
    BY <1>1, <2>2 DEF Cut
<1>4. Len(blocks) * BlockBytes <= Len(u)
  BY <1>1, <1>2 DEF Cut
<1>5. Cut(blocks, u)
  BY <1>1, <1>3, <1>4 DEF Cut
<1> QED
  BY <1>5 DEF u

(* A full block is one more. *)
LEMMA CutOneMore ==
  ASSUME NEW blocks, NEW w, Cut(blocks, w), NEW b \in Seq(Int), Len(b) = BlockBytes,
         NEW c \in Nat, c = Len(blocks) * BlockBytes, Len(w) = c + BlockBytes,
         \A j \in 1 .. BlockBytes : b[j] = w[c + j]
  PROVE  Cut(blocks \o <<b>>, w)
<1> DEFINE n == Len(blocks)
           all == blocks \o <<b>>
<1>1. n \in Nat /\ blocks \in Seq(Seq(Int)) /\ w \in Seq(Int)
  BY DEF Cut
<1>2. all \in Seq(Seq(Int)) /\ Len(all) = n + 1 /\ all[n + 1] = b /\ \A i \in 1 .. n : all[i] = blocks[i]
  BY <1>1
<1> HIDE DEF all
<1>7. \A i \in 1 .. n : Len(blocks[i]) = BlockBytes
  BY DEF Cut
<1>8. \A i \in 1 .. n, j \in 1 .. BlockBytes : blocks[i][j] = w[(i - 1) * BlockBytes + j]
  BY DEF Cut
<1>9. c = n * BlockBytes
  OBVIOUS
<1> HIDE DEF n
<1>3. \A i \in 1 .. n + 1 : Len(all[i]) = BlockBytes
  <2>1. \A i \in 1 .. n + 1 : i \in 1 .. n \/ i = n + 1
    BY <1>1
  <2> QED
    BY <1>2, <1>7, <2>1
<1>4. ASSUME NEW i \in 1 .. n + 1, NEW j \in 1 .. BlockBytes
      PROVE  all[i][j] = w[(i - 1) * BlockBytes + j]
  <2>1. CASE i \in 1 .. n
    BY <1>2, <1>8, <2>1
  <2>2. CASE i = n + 1
    <3>1. (i - 1) * BlockBytes = c
      BY <1>1, <1>9, <2>2
    <3> QED
      BY <1>2, <2>2, <3>1
  <2> QED
    BY <1>1, <2>1, <2>2
<1>5. (n + 1) * BlockBytes <= Len(w)
  BY <1>1, <1>9, StreamAssumption
<1>6. Cut(all, w)
  BY <1>1, <1>2, <1>3, <1>4, <1>5 DEF Cut
<1> QED
  BY <1>6 DEF all

(* Whole blocks of what follows a whole number of blocks, and what is left. *)
LEMMA WholeBlocks ==
  ASSUME NEW blocks, NEW w, Cut(blocks, w), Len(w) = Len(blocks) * BlockBytes, NEW d \in Seq(Int)
  PROVE  LET whole == Len(d) \div BlockBytes
             s == [pending |-> SubSeq(d, whole * BlockBytes + 1, Len(d)),
                   absorbed |-> blocks \o [i \in 1 .. whole |->
                                             SubSeq(d, (i - 1) * BlockBytes + 1, i * BlockBytes)]]
         IN  Holds(s, w \o d)
<1> DEFINE n == Len(blocks)
           q == Len(d) \div BlockBytes
           chunks == [i \in 1 .. q |-> SubSeq(d, (i - 1) * BlockBytes + 1, i * BlockBytes)]
           last == SubSeq(d, q * BlockBytes + 1, Len(d))
           all == blocks \o chunks
           v == w \o d
<1>1. n \in Nat /\ blocks \in Seq(Seq(Int)) /\ w \in Seq(Int) /\ BlockBytes \in Nat \ {0}
  BY StreamAssumption DEF Cut
<1>2. q \in Nat /\ q * BlockBytes \in Nat /\ q * BlockBytes <= Len(d) /\ Len(d) < q * BlockBytes + BlockBytes
  <2> DEFINE l == Len(d)
             m == l % BlockBytes
  <2>1. l \in Nat
    OBVIOUS
  <2> HIDE DEF l
  <2>2. m \in 0 .. BlockBytes - 1 /\ q \in Int /\ l = BlockBytes * q + m
    BY <1>1, <2>1, ModRange DEF l
  <2> HIDE DEF q, m
  <2>3. q >= 0
    <3>1. SUFFICES ASSUME q <= -1 PROVE FALSE
      BY <2>2
    <3>2. BlockBytes * q <= -BlockBytes
      BY <1>1, <2>2, <3>1
    <3> QED
      BY <1>1, <2>1, <2>2, <3>2
  <2>4. q * BlockBytes = BlockBytes * q /\ q * BlockBytes \in Nat
    BY <1>1, <2>2, <2>3
  <2> QED
    BY <1>1, <2>2, <2>3, <2>4 DEF l
<1> HIDE DEF q
<1>3. ASSUME NEW i \in 1 .. q
      PROVE  /\ chunks[i] \in Seq(Int) /\ Len(chunks[i]) = BlockBytes
             /\ \A j \in 1 .. BlockBytes : chunks[i][j] = d[(i - 1) * BlockBytes + j]
  <2> DEFINE from == (i - 1) * BlockBytes
  <2>1. from \in Nat /\ i * BlockBytes = from + BlockBytes
    BY <1>1, <1>2
  <2>2. from + BlockBytes <= Len(d)
    <3>1. BlockBytes \in 1 .. BlockBytes
      BY <1>1
    <3>2. from + BlockBytes \in 1 .. q * BlockBytes
      BY <1>2, <3>1, PlaceInBlocks
    <3> QED
      BY <1>2, <2>1, <3>2
  <2>3. chunks[i] = SubSeq(d, from + 1, from + BlockBytes)
    BY <2>1
  <2> HIDE DEF from, chunks
  <2>4. SubSeq(d, from + 1, from + BlockBytes) = [k \in 1 .. BlockBytes |-> d[from + k]]
    <3>1. (from + BlockBytes) - (from + 1) + 1 = BlockBytes
      BY <1>1, <2>1
    <3>2. \A k \in 1 .. BlockBytes : (from + 1) + k - 1 = from + k
      BY <1>1, <2>1
    <3>3. SubSeq(d, from + 1, from + BlockBytes)
            = [k \in 1 .. (from + BlockBytes) - (from + 1) + 1 |-> d[(from + 1) + k - 1]]
      BY <1>1, <2>1, <2>2
    <3> QED
      BY <3>1, <3>2, <3>3
  <2>5. \A k \in 1 .. BlockBytes : d[from + k] \in Int
    BY <1>1, <2>1, <2>2
  <2> DEFINE c == [k \in 1 .. BlockBytes |-> d[from + k]]
  <2>6. c \in [1 .. BlockBytes -> Int] /\ \A j \in 1 .. BlockBytes : c[j] = d[from + j]
    BY <2>5
  <2>7. chunks[i] = c
    BY <2>3, <2>4
  <2> HIDE DEF c
  <2>8. c \in Seq(Int) /\ Len(c) = BlockBytes
    BY <1>1, <2>6
  <2> QED
    BY <2>6, <2>7, <2>8 DEF from
<1>4. chunks \in Seq(Seq(Int)) /\ Len(chunks) = q
  <2>1. DOMAIN chunks = 1 .. q
    OBVIOUS
  <2>2. \A i \in 1 .. q : chunks[i] \in Seq(Int)
    BY <1>3
  <2>3. chunks \in [1 .. q -> Seq(Int)]
    <3>1. chunks = [i \in 1 .. q |-> chunks[i]]
      OBVIOUS
    <3> HIDE DEF chunks
    <3> QED
      BY <2>2, <3>1
  <2> HIDE DEF chunks
  <2> QED
    BY <1>2, <2>3
<1>5. /\ last \in Seq(Int) /\ Len(last) = Len(d) - q * BlockBytes
      /\ \A j \in 1 .. Len(last) : last[j] = d[q * BlockBytes + j]
  <2> DEFINE from == q * BlockBytes
  <2>1. from \in Nat /\ from <= Len(d)
    BY <1>2
  <2> HIDE DEF from
  <2>2. /\ SubSeq(d, from + 1, Len(d)) \in Seq(Int) /\ Len(SubSeq(d, from + 1, Len(d))) = Len(d) - from
        /\ \A j \in 1 .. Len(d) - from : SubSeq(d, from + 1, Len(d))[j] = d[from + j]
    BY <2>1
  <2> QED
    BY <2>2 DEF from
<1> HIDE DEF chunks, last
<1>6. v \in Seq(Int) /\ Len(v) = n * BlockBytes + Len(d)
      /\ \A k \in 1 .. Len(d) : v[n * BlockBytes + k] = d[k]
  <2> DEFINE m == n * BlockBytes
  <2>1. Len(w) = m /\ w \in Seq(Int) /\ d \in Seq(Int)
    BY <1>1
  <2> HIDE DEF m
  <2>2. w \o d \in Seq(Int) /\ Len(w \o d) = m + Len(d) /\ m \in Nat
    BY <2>1, Joined
  <2>3. \A k \in 1 .. Len(d) : (w \o d)[m + k] = d[k]
    BY <2>1, <2>2, JoinedAt
  <2> QED
    BY <2>2, <2>3 DEF m
<1>7. Cut(blocks, v)
  BY CutLonger
<1> HIDE DEF v
<1>8. /\ all \in Seq(Seq(Int)) /\ Len(all) = n + q
      /\ \A i \in 1 .. n : all[i] = blocks[i]
      /\ \A i \in 1 .. q : all[n + i] = chunks[i]
  <2>1. /\ all \in Seq(Seq(Int)) /\ Len(all) = Len(blocks) + Len(chunks)
        /\ \A i \in 1 .. Len(blocks) : all[i] = blocks[i]
        /\ \A i \in 1 .. Len(chunks) : all[Len(blocks) + i] = chunks[i]
    <3>1. blocks \in Seq(Seq(Int)) /\ chunks \in Seq(Seq(Int))
      BY <1>1, <1>4
    <3> QED
      BY <3>1, Joined
  <2> HIDE DEF all
  <2> QED
    BY <1>4, <2>1
<1> HIDE DEF all
<1>9. (n + q) * BlockBytes = n * BlockBytes + q * BlockBytes /\ n * BlockBytes \in Nat
  BY <1>1, <1>2
<1>10. ASSUME NEW i \in 1 .. n + q
       PROVE  /\ Len(all[i]) = BlockBytes
              /\ \A j \in 1 .. BlockBytes : all[i][j] = v[(i - 1) * BlockBytes + j]
  <2>1. CASE i \in 1 .. n
    BY <1>7, <1>8, <2>1 DEF Cut
  <2>2. CASE i \notin 1 .. n
    <3> DEFINE k == i - n
    <3>1. k \in 1 .. q /\ i = n + k
      BY <1>1, <1>2, <2>2
    <3> HIDE DEF k
    <3>2. all[i] = chunks[k]
      BY <1>8, <3>1
    <3>3. ASSUME NEW j \in 1 .. BlockBytes
          PROVE  all[i][j] = v[(i - 1) * BlockBytes + j]
      <4>1. (k - 1) * BlockBytes + j \in 1 .. q * BlockBytes
        BY <1>2, <3>1, PlaceInBlocks
      <4>2. (k - 1) * BlockBytes + j \in 1 .. Len(d)
        BY <1>2, <4>1
      <4>3. (i - 1) * BlockBytes + j = n * BlockBytes + ((k - 1) * BlockBytes + j)
        BY <1>1, <1>2, <3>1
      <4> QED
        BY <1>3, <1>6, <3>1, <3>2, <4>2, <4>3
    <3> QED
      BY <1>3, <3>1, <3>2, <3>3
  <2> QED
    BY <2>1, <2>2
<1> DEFINE nb == n * BlockBytes
           qb == q * BlockBytes
           nqb == (n + q) * BlockBytes
<1>15. nqb = nb + qb /\ nb \in Nat /\ qb \in Nat /\ qb <= Len(d) /\ Len(v) = nb + Len(d) /\ Len(d) < qb + BlockBytes
       /\ Len(last) = Len(d) - qb /\ Len(d) \in Nat /\ n \in Nat /\ q \in Nat
  BY <1>1, <1>2, <1>5, <1>6, <1>9
<1>11. Cut(all, v)
  <2>1. (n + q) * BlockBytes <= Len(v)
    <3> HIDE DEF nb, qb
    <3>1. nqb <= Len(v)
      <4> HIDE DEF nqb
      <4> QED BY <1>15
    <3> QED
      BY <3>1
  <2> QED
    BY <1>6, <1>8, <1>10, <2>1 DEF Cut
<1>12. \A j \in 1 .. Len(last) : last[j] = v[(n + q) * BlockBytes + j]
  <2> SUFFICES ASSUME NEW j \in 1 .. Len(last) PROVE last[j] = v[(n + q) * BlockBytes + j]
    OBVIOUS
  <2>1. qb + j \in 1 .. Len(d) /\ nqb + j = nb + (qb + j)
    <3> HIDE DEF nb, qb, nqb
    <3> QED BY <1>15
  <2> QED
    BY <1>5, <1>6, <2>1
<1> DEFINE s == [pending |-> last, absorbed |-> all]
<1>13. s.pending = last /\ s.absorbed = all
  OBVIOUS
<1> HIDE DEF s
<1>14. Holds(s, v)
  <2>1. Len(last) < BlockBytes /\ Len(v) = nqb + Len(last)
    <3> HIDE DEF nb, qb, nqb
    <3> QED BY <1>1, <1>15
  <2> QED
    BY <1>5, <1>8, <1>11, <1>12, <1>13, <2>1 DEF Holds
<1> QED
  BY <1>14, Zenon DEF s, v, all, chunks, last, q

(* Streams there can be. *)
Streams == [pending : Seq(Int), absorbed : Seq(Seq(Int))]

(* Nothing makes no block. *)
LEMMA NoBlocks == 0 \div BlockBytes = 0
<1> DEFINE l == 0
           q == l \div BlockBytes
           e == l % BlockBytes
<1>1. BlockBytes \in Nat \ {0} /\ l \in Nat /\ l = 0
  BY StreamAssumption
<1> HIDE DEF l
<1>2. q \in Int /\ e \in 0 .. BlockBytes - 1 /\ l = BlockBytes * q + e
  BY <1>1, ModRange
<1> HIDE DEF q, e
<1>3. q = 0
  <2>1. CASE q >= 1
    <3>1. BlockBytes * q >= BlockBytes
      BY <1>1, <1>2, <2>1
    <3> QED
      BY <1>1, <1>2, <3>1
  <2>2. CASE q <= -1
    <3>1. BlockBytes * q <= -BlockBytes
      BY <1>1, <1>2, <2>2
    <3> QED
      BY <1>1, <1>2, <3>1
  <2> QED
    BY <1>2, <2>1, <2>2
<1> QED
  BY <1>3 DEF q, l

LEMMA MinOfTwo ==
  ASSUME NEW a \in Int, NEW b \in Int
  PROVE  Stream!Min({a, b}) = IF a <= b THEN a ELSE b
<1>1. CASE a <= b
  BY <1>1 DEF Stream!Min
<1>2. CASE b < a
  BY <1>2 DEF Stream!Min
<1> QED
  BY <1>1, <1>2

(* The second part of what is in two parts. *)
LEMMA Beyond ==
  ASSUME NEW m \in Nat, NEW n \in Nat, NEW u, NEW s, NEW t,
         \A i \in 1 .. m + n : u[i] = IF i <= m THEN s[i] ELSE t[i - m]
  PROVE  \A k \in 1 .. n : u[m + k] = t[k]
<1> SUFFICES ASSUME NEW k \in 1 .. n PROVE u[m + k] = t[k]
  OBVIOUS
<1>1. m + k \in 1 .. m + n /\ ~(m + k <= m) /\ (m + k) - m = k
  OBVIOUS
<1> QED
  BY <1>1

(* A chunk is taken in whole, and nothing else with it. *)
LEMMA UpdateIs ==
  ASSUME NEW s, NEW w, Holds(s, w), NEW d \in Seq(Int)
  PROVE  Holds(Stream!Update(s, d), w \o d) /\ Stream!Update(s, d) \in Streams
<1> DEFINE took == Stream!Taken(s, d)
           topped == s.pending \o SubSeq(d, 1, took)
           done == IF Len(topped) = BlockBytes THEN <<topped>> ELSE <<>>
           rest == SubSeq(d, took + 1, Len(d))
           whole == Len(rest) \div BlockBytes
           last == SubSeq(rest, whole * BlockBytes + 1, Len(rest))
           chunks == [i \in 1 .. whole |-> SubSeq(rest, (i - 1) * BlockBytes + 1, i * BlockBytes)]
           u == Stream!Update(s, d)
           p == Len(s.pending)
           n == Len(s.absorbed)
           nb == n * BlockBytes
           l == Len(d)
           lw == Len(w)
<1>1. u = [pending |-> IF last # <<>> THEN last ELSE IF done # <<>> THEN <<>> ELSE topped,
           absorbed |-> s.absorbed \o done \o chunks]
  BY Zenon DEF Stream!Update
<1>2. /\ s.absorbed \in Seq(Seq(Int)) /\ s.pending \in Seq(Int) /\ w \in Seq(Int)
      /\ Len(s.pending) = p /\ Len(s.absorbed) = n /\ Len(d) = l /\ Len(w) = lw
  BY DEF Holds, Cut
<1>3. /\ BlockBytes \in Nat \ {0} /\ p \in Nat /\ n \in Nat /\ p < BlockBytes /\ l \in Nat
      /\ nb \in Nat /\ lw = nb + p
  BY StreamAssumption DEF Holds, Cut
<1>4. \A j \in 1 .. p : s.pending[j] = w[nb + j]
  BY DEF Holds
<1>5. Cut(s.absorbed, w) /\ Cut(s.absorbed, w \o d)
  BY CutLonger DEF Holds
<1>6. took = IF s.pending = <<>> THEN 0 ELSE IF BlockBytes - p <= l THEN BlockBytes - p ELSE l
  <2>1. took = IF s.pending = <<>> THEN 0 ELSE Stream!Min({BlockBytes - p, l})
    BY DEF Stream!Taken
  <2> HIDE DEF took, p, l
  <2>2. BlockBytes - p \in Int /\ l \in Int
    BY <1>3
  <2> QED
    BY <2>1, <2>2, MinOfTwo
<1>7. s.absorbed \o <<>> = s.absorbed
  BY <1>2
<1> HIDE DEF took, topped, done, rest, whole, last, chunks, u, p, n, nb, l, lw
<1>8. u.pending = (IF last # <<>> THEN last ELSE IF done # <<>> THEN <<>> ELSE topped)
      /\ u.absorbed = s.absorbed \o done \o chunks
      /\ u = [pending |-> u.pending, absorbed |-> u.absorbed]
  BY <1>1
<1>9. SUFFICES Holds(u, w \o d)
  <2>1. Holds(u, w \o d) => u.pending \in Seq(Int) /\ u.absorbed \in Seq(Seq(Int))
    BY DEF Holds, Cut
  <2> QED
    BY <1>8, <2>1 DEF Streams, u
<1>10. CASE s.pending = <<>>
  <2>1. took = 0 /\ p = 0
    BY <1>2, <1>6, <1>10
  <2>2. topped = <<>>
    <3>1. SubSeq(d, 1, 0) = <<>>
      BY SubSeqEmpty
    <3> QED
      BY <1>10, <2>1, <3>1 DEF topped
  <2>3. rest = d
    <3>1. SubSeq(d, 1, Len(d)) = d
      OBVIOUS
    <3> QED
      BY <2>1, <3>1 DEF rest
  <2>4. done = <<>>
    BY <1>3, <2>2 DEF done
  <2>5. u.pending = last /\ u.absorbed = s.absorbed \o chunks
    BY <1>7, <1>8, <2>2, <2>4
  <2>6. Len(w) = Len(s.absorbed) * BlockBytes
    BY <1>2, <1>3, <2>1 DEF nb
  <2>7. Holds([pending |-> last, absorbed |-> s.absorbed \o chunks], w \o d)
    BY <1>5, <2>3, <2>6, WholeBlocks, Zenon DEF last, chunks, whole
  <2> QED
    BY <2>5, <2>7 DEF Holds
<1>11. CASE s.pending # <<>> /\ l < BlockBytes - p
  <2>1. took = l
    BY <1>3, <1>6, <1>11
  <2>2. topped = s.pending \o d
    <3>1. SubSeq(d, 1, Len(d)) = d
      OBVIOUS
    <3> QED
      BY <1>2, <2>1, <3>1 DEF topped
  <2>3. rest = <<>>
    <3>1. SubSeq(d, l + 1, l) = <<>>
      BY <1>3, SubSeqEmpty
    <3> QED
      BY <1>2, <2>1, <3>1 DEF rest
  <2>4. topped \in Seq(Int) /\ Len(topped) = p + l /\ \A j \in 1 .. p : topped[j] = s.pending[j]
    <3>1. /\ s.pending \o d \in Seq(Int) /\ Len(s.pending \o d) = Len(s.pending) + Len(d)
          /\ \A j \in 1 .. Len(s.pending) : (s.pending \o d)[j] = s.pending[j]
      BY <1>2, Joined, Zenon
    <3> QED
      BY <1>2, <2>2, <3>1
  <2>5. \A k \in 1 .. l : topped[p + k] = d[k]
    <3>1. \A i \in 1 .. Len(s.pending) + Len(d) :
            (s.pending \o d)[i] = IF i <= Len(s.pending) THEN s.pending[i] ELSE d[i - Len(s.pending)]
      BY <1>2, ConcatProperties, Zenon
    <3>2. \A i \in 1 .. p + l : topped[i] = IF i <= p THEN s.pending[i] ELSE d[i - p]
      BY <1>2, <2>2, <3>1
    <3>3. p \in Nat /\ l \in Nat
      BY <1>3
    <3> HIDE DEF topped
    <3> QED
      BY ONLY <3>2, <3>3, Beyond
  <2>6. done = <<>>
    BY <1>3, <1>11, <2>4 DEF done
  <2>7. whole = 0
    <3>1. Len(rest) = 0
      BY <2>3
    <3> QED
      BY <3>1, NoBlocks DEF whole
  <2>8. last = <<>>
    <3>1. Len(rest) = 0 /\ whole * BlockBytes + 1 = 1
      BY <1>3, <2>3, <2>7
    <3> QED
      BY <3>1, SubSeqEmpty DEF last
  <2>9. chunks = <<>>
    BY <2>7 DEF chunks
  <2>10. u.pending = topped /\ u.absorbed = s.absorbed
    BY <1>7, <1>8, <2>6, <2>8, <2>9
  <2> DEFINE v == w \o d
  <2>11. v \in Seq(Int) /\ Len(v) = lw + l /\ \A k \in 1 .. l : v[lw + k] = d[k]
    <3>1. lw \in Nat
      BY <1>3
    <3>2. \A i \in 1 .. Len(w) + Len(d) : v[i] = IF i <= Len(w) THEN w[i] ELSE d[i - Len(w)]
      BY <1>2, ConcatProperties, Zenon
    <3> HIDE DEF v
    <3>4. \A i \in 1 .. lw + l : v[i] = IF i <= lw THEN w[i] ELSE d[i - lw]
      BY <1>2, <3>2
    <3>6. l \in Nat
      BY <1>3
    <3>5. \A k \in 1 .. l : v[lw + k] = d[k]
      BY ONLY <3>1, <3>4, <3>6, Beyond
    <3>3. v \in Seq(Int) /\ Len(v) = Len(w) + Len(d)
      BY <1>2, Joined DEF v
    <3> QED
      BY <1>2, <3>3, <3>5
  <2>12. \A k \in 1 .. lw : v[k] = w[k]
    BY <1>2, Joined
  <2> HIDE DEF v
  <2>13. \A j \in 1 .. Len(topped) : topped[j] = v[nb + j]
    <3> SUFFICES ASSUME NEW j \in 1 .. p + l PROVE topped[j] = v[nb + j]
      BY <2>4
    <3>1. CASE j \in 1 .. p
      <4>1. nb + j \in 1 .. lw
        BY <1>3, <3>1
      <4> QED
        BY <1>4, <2>4, <2>12, <3>1, <4>1
    <3>2. CASE j \notin 1 .. p
      <4> DEFINE k == j - p
      <4>1. k \in 1 .. l /\ j = p + k /\ nb + j = lw + k
        BY <1>3, <3>2
      <4> HIDE DEF k
      <4> QED
        BY <2>5, <2>11, <4>1
    <3> QED
      BY <3>1, <3>2
  <2>14. Len(topped) < BlockBytes /\ Len(v) = nb + Len(topped)
    BY <1>3, <1>11, <2>4, <2>11
  <2> QED
    BY <1>2, <1>5, <2>4, <2>10, <2>13, <2>14 DEF Holds, v, nb
<1>12. CASE s.pending # <<>> /\ ~(l < BlockBytes - p)
  <2> DEFINE t == BlockBytes - p
             first == SubSeq(d, 1, t)
             w1 == w \o first
  <2>1. took = t /\ t \in 1 .. l /\ t \in Nat /\ p + t = BlockBytes /\ lw + t = nb + BlockBytes
    BY <1>3, <1>6, <1>12
  <2> HIDE DEF t
  <2>2. first \in Seq(Int) /\ Len(first) = t /\ \A k \in 1 .. t : first[k] = d[k]
    <3>1. t \in 1 .. Len(d)
      BY <1>2, <2>1
    <3> QED
      BY <3>1
  <2>3. topped = s.pending \o first
    BY <2>1 DEF topped
  <2>4. rest \in Seq(Int) /\ Len(rest) = l - t /\ \A k \in 1 .. Len(rest) : rest[k] = d[t + k]
    <3>1. t \in 1 .. Len(d) /\ rest = SubSeq(d, t + 1, Len(d))
      BY <1>2, <2>1 DEF rest
    <3>2. rest \in Seq(Int) /\ Len(rest) = Len(d) - t /\ \A k \in 1 .. Len(rest) : rest[k] = d[t + k]
      BY <3>1
    <3> QED
      BY <1>2, <3>2
  <2> HIDE DEF first
  <2>5. topped \in Seq(Int) /\ Len(topped) = BlockBytes /\ \A j \in 1 .. p : topped[j] = s.pending[j]
    <3>1. /\ s.pending \o first \in Seq(Int) /\ Len(s.pending \o first) = Len(s.pending) + Len(first)
          /\ \A j \in 1 .. Len(s.pending) : (s.pending \o first)[j] = s.pending[j]
      BY <1>2, <2>2, Joined, Zenon
    <3> QED
      BY <1>2, <2>1, <2>2, <2>3, <3>1
  <2>6. \A k \in 1 .. t : topped[p + k] = first[k]
    <3>1. \A i \in 1 .. Len(s.pending) + Len(first) :
            (s.pending \o first)[i] = IF i <= Len(s.pending) THEN s.pending[i] ELSE first[i - Len(s.pending)]
      BY <1>2, <2>2, ConcatProperties, Zenon
    <3>2. \A i \in 1 .. p + t : topped[i] = IF i <= p THEN s.pending[i] ELSE first[i - p]
      BY <1>2, <2>2, <2>3, <3>1
    <3>3. p \in Nat /\ t \in Nat
      BY <1>3, <2>1
    <3> QED
      BY ONLY <3>2, <3>3, Beyond
  <2>7. w1 \in Seq(Int) /\ Len(w1) = nb + BlockBytes /\ \A k \in 1 .. lw : w1[k] = w[k]
    <3>1. w1 \in Seq(Int) /\ Len(w1) = Len(w) + Len(first) /\ \A k \in 1 .. Len(w) : w1[k] = w[k]
      BY <1>2, <2>2, Joined, Zenon
    <3> HIDE DEF w1
    <3> QED
      BY <1>2, <2>1, <2>2, <3>1
  <2>8. \A k \in 1 .. t : w1[lw + k] = first[k]
    <3>1. \A i \in 1 .. Len(w) + Len(first) : w1[i] = IF i <= Len(w) THEN w[i] ELSE first[i - Len(w)]
      BY <1>2, <2>2, ConcatProperties, Zenon
    <3> HIDE DEF w1
    <3>2. \A i \in 1 .. lw + t : w1[i] = IF i <= lw THEN w[i] ELSE first[i - lw]
      BY <1>2, <2>2, <3>1
    <3>3. lw \in Nat
      BY <1>3
    <3> QED
      BY ONLY <2>1, <3>2, <3>3, Beyond
  <2>9. done = <<topped>>
    BY <2>5 DEF done
  <2>10. Cut(s.absorbed, w1)
    BY <1>5, <2>2, CutLonger
  <2> HIDE DEF w1
  <2>11. nb + BlockBytes = (n + 1) * BlockBytes
    BY <1>3 DEF nb
  <2>12. \A j \in 1 .. BlockBytes : topped[j] = w1[nb + j]
    <3> SUFFICES ASSUME NEW j \in 1 .. BlockBytes PROVE topped[j] = w1[nb + j]
      OBVIOUS
    <3>1. CASE j \in 1 .. p
      <4>1. nb + j \in 1 .. lw
        BY <1>3, <3>1
      <4> QED
        BY <1>4, <2>5, <2>7, <3>1, <4>1
    <3>2. CASE j \notin 1 .. p
      <4> DEFINE k == j - p
      <4>1. k \in 1 .. t /\ j = p + k /\ nb + j = lw + k
        BY <1>3, <2>1, <3>2
      <4> HIDE DEF k
      <4> QED
        BY <2>6, <2>8, <4>1
    <3> QED
      BY <3>1, <3>2
  <2> DEFINE blocks == s.absorbed \o <<topped>>
  <2>13. Cut(blocks, w1)
    <3>1. nb = Len(s.absorbed) * BlockBytes /\ nb \in Nat /\ Len(w1) = nb + BlockBytes
      BY <1>2, <1>3, <2>7 DEF nb
    <3>2. topped \in Seq(Int) /\ Len(topped) = BlockBytes
      BY <2>5
    <3> QED
      BY <2>10, <2>12, <3>1, <3>2, CutOneMore
  <2>14. Len(blocks) = n + 1
    BY <1>2, <2>5
  <2>15. u.pending = last /\ u.absorbed = blocks \o chunks
    BY <1>8, <2>9
  <2> HIDE DEF blocks
  <2>16. Holds([pending |-> last, absorbed |-> blocks \o chunks], w1 \o rest)
    <3>1. Len(w1) = Len(blocks) * BlockBytes
      BY <2>7, <2>11, <2>14
    <3> QED
      BY <2>4, <2>13, <3>1, WholeBlocks, Zenon DEF last, chunks, whole
  <2>17. w1 \o rest = w \o d
    <3>1. first \o rest = d
      <4> DEFINE g == first \o rest
      <4>0. first \in Seq(Int) /\ rest \in Seq(Int)
        BY <2>2, <2>4
      <4>1. /\ g \in Seq(Int) /\ Len(g) = Len(first) + Len(rest)
            /\ \A i \in 1 .. Len(first) + Len(rest) : g[i] = IF i <= Len(first) THEN first[i] ELSE rest[i - Len(first)]
        BY <4>0, ConcatProperties, Zenon
      <4> HIDE DEF g
      <4>3. Len(g) = Len(d)
        BY <1>2, <1>3, <2>1, <2>2, <2>4, <4>1
      <4>4. ASSUME NEW k \in 1 .. Len(d) PROVE g[k] = d[k]
        <5>0. k \in 1 .. Len(first) + Len(rest)
          BY <4>1, <4>3
        <5>1. CASE k <= t
          <6>1. k \in 1 .. t
            BY <1>2, <1>3, <5>1
          <6> QED
            BY <2>2, <4>1, <5>0, <5>1, <6>1
        <5>2. CASE ~(k <= t)
          <6> DEFINE m == k - t
          <6>1. m \in 1 .. Len(rest) /\ k = t + m
            BY <1>2, <1>3, <2>1, <2>4, <5>2
          <6>2. g[k] = rest[m]
            BY <2>2, <4>1, <5>0, <5>2
          <6> HIDE DEF m
          <6> QED
            BY <2>4, <6>1, <6>2
        <5> QED
          BY <5>1, <5>2
      <4>5. g = d
        BY <4>1, <4>3, <4>4, SeqEqual
      <4> QED
        BY <4>5 DEF g
    <3>2. w \in Seq(Int) /\ first \in Seq(Int) /\ rest \in Seq(Int)
      BY <1>2, <2>2, <2>4
    <3>3. (w \o first) \o rest = w \o (first \o rest)
      BY <3>2, ConcatAssociative, SMTT(60)
    <3> QED
      BY <3>1, <3>3 DEF w1
  <2> QED
    BY <2>15, <2>16, <2>17 DEF Holds
<1> QED
  BY <1>3, <1>10, <1>11, <1>12

(* A sequence that is one and then another. *)
LEMMA TwoParts ==
  ASSUME NEW a \in Seq(Int), NEW b \in Seq(Int), NEW e \in Seq(Int), Len(e) = Len(a) + Len(b),
         \A k \in 1 .. Len(a) : e[k] = a[k], \A j \in 1 .. Len(b) : e[Len(a) + j] = b[j]
  PROVE  e = a \o b
<1> DEFINE m == Len(a)
           n == Len(b)
<1>0. /\ m \in Nat /\ n \in Nat /\ Len(e) = m + n /\ Len(a) = m /\ Len(b) = n
      /\ \A k \in 1 .. m : e[k] = a[k]
      /\ \A j \in 1 .. n : e[m + j] = b[j]
  OBVIOUS
<1> HIDE DEF m, n
<1> DEFINE g == a \o b
<1>1. /\ g \in Seq(Int) /\ Len(g) = Len(a) + Len(b)
      /\ \A k \in 1 .. Len(a) + Len(b) : g[k] = IF k <= Len(a) THEN a[k] ELSE b[k - Len(a)]
  BY ConcatProperties, Zenon
<1> HIDE DEF g
<1>2. Len(g) = m + n /\ \A k \in 1 .. m + n : g[k] = IF k <= m THEN a[k] ELSE b[k - m]
  BY <1>0, <1>1
<1>3. ASSUME NEW k \in 1 .. m + n PROVE e[k] = g[k]
  <2>1. CASE k <= m
    BY <1>0, <1>2, <2>1
  <2>2. CASE ~(k <= m)
    <3> DEFINE j == k - m
    <3>1. j \in 1 .. n /\ k = m + j
      BY <1>0, <2>2
    <3>2. g[k] = b[j]
      BY <1>0, <1>2, <2>2
    <3> HIDE DEF j
    <3> QED
      BY <1>0, <3>1, <3>2
  <2> QED
    BY <2>1, <2>2
<1>4. e = g
  BY <1>0, <1>1, <1>2, <1>3, SeqEqual
<1> QED
  BY <1>4 DEF g

(* The first m elements. *)
Front(w, m) == [k \in 1 .. m |-> w[k]]

LEMMA FrontIs ==
  ASSUME NEW w \in Seq(Int), NEW m \in Nat, m <= Len(w)
  PROVE  Front(w, m) \in Seq(Int) /\ Len(Front(w, m)) = m /\ \A k \in 1 .. m : Front(w, m)[k] = w[k]
<1> DEFINE f == Front(w, m)
<1>1. ASSUME NEW k \in 1 .. m PROVE w[k] \in Int
  <2>1. k \in 1 .. Len(w)
    OBVIOUS
  <2> QED
    BY <2>1
<1>2. f \in [1 .. m -> Int] /\ \A k \in 1 .. m : f[k] = w[k]
  BY <1>1 DEF Front
<1> HIDE DEF f
<1>3. f \in Seq(Int)
  BY <1>2
<1>4. Len(f) = m
  BY <1>2, <1>3
<1> QED
  BY <1>2, <1>3, <1>4 DEF f

LEMMA FrontGrows ==
  ASSUME NEW w \in Seq(Int), NEW m \in Nat, NEW n \in Nat, NEW b \in Seq(Int), Len(b) = n,
         m + n <= Len(w), \A j \in 1 .. n : b[j] = w[m + j]
  PROVE  Front(w, m + n) = Front(w, m) \o b
<1> DEFINE a == Front(w, m)
           e == Front(w, m + n)
<1>1. a \in Seq(Int) /\ Len(a) = m /\ \A k \in 1 .. m : a[k] = w[k]
  BY FrontIs
<1>2. e \in Seq(Int) /\ Len(e) = m + n /\ \A k \in 1 .. m + n : e[k] = w[k]
  <2> DEFINE o == m + n
  <2>1. o \in Nat /\ o <= Len(w)
    OBVIOUS
  <2> HIDE DEF o
  <2>2. Front(w, o) \in Seq(Int) /\ Len(Front(w, o)) = o /\ \A k \in 1 .. o : Front(w, o)[k] = w[k]
    BY <2>1, FrontIs
  <2> QED
    BY <2>2 DEF o
<1> HIDE DEF a, e
<1>3. ASSUME NEW k \in 1 .. m PROVE e[k] = a[k]
  <2>1. k \in 1 .. m + n
    OBVIOUS
  <2> QED
    BY <1>1, <1>2, <2>1
<1>4. ASSUME NEW j \in 1 .. n PROVE e[m + j] = b[j]
  <2>1. m + j \in 1 .. m + n
    OBVIOUS
  <2> QED
    BY <1>2, <2>1
<1>5. e = a \o b
  <2>1. \A k \in 1 .. Len(a) : e[k] = a[k]
    BY <1>1, <1>3
  <2>2. \A j \in 1 .. Len(b) : e[Len(a) + j] = b[j]
    BY <1>1, <1>4
  <2>3. a \in Seq(Int) /\ e \in Seq(Int) /\ Len(e) = Len(a) + Len(b)
    BY <1>1, <1>2
  <2> QED
    BY <2>1, <2>2, <2>3, TwoParts, Zenon
<1> QED
  BY <1>5 DEF a, e

(* Sequences in a row, each at its offset, flatten to the whole. *)
LEMMA FlattenIs ==
  ASSUME NEW seqs \in Seq(Seq(Int)), NEW w \in Seq(Int), NEW off \in [0 .. Len(seqs) -> Nat],
         off[0] = 0, off[Len(seqs)] = Len(w),
         \A i \in 1 .. Len(seqs) : off[i] = off[i - 1] + Len(seqs[i]) /\ off[i] <= Len(w),
         \A i \in 1 .. Len(seqs) : \A j \in 1 .. Len(seqs[i]) : seqs[i][j] = w[off[i - 1] + j]
  PROVE  Stream!FlattenSeq(seqs) = w
<1> DEFINE K == Len(seqs)
           IsFlat(f) == f = [i \in 1 .. Len(seqs) |-> IF i = 1 THEN seqs[i] ELSE f[i - 1] \o seqs[i]]
           Pre(i) == Front(w, off[i])
           flat == CHOOSE f : IsFlat(f)
<1>1. K \in Nat
  OBVIOUS
<1>b. Front(w, Len(w)) = w
  BY DEF Front
<1>c. Front(w, 0) = <<>>
  BY DEF Front
<1>2. ASSUME NEW i \in 0 .. K
      PROVE  Pre(i) \in Seq(Int) /\ Len(Pre(i)) = off[i] /\ off[i] \in Nat /\ off[i] <= Len(w)
  <2>1. off[i] \in Nat
    OBVIOUS
  <2>2. off[i] <= Len(w)
    <3>1. CASE i = 0
      BY <3>1
    <3>2. CASE i # 0
      <4>1. i \in 1 .. Len(seqs)
        BY <3>2
      <4> QED
        BY <4>1
    <3> QED
      BY <3>1, <3>2
  <2> QED
    BY <2>1, <2>2, FrontIs
<1>3. ASSUME NEW i \in 1 .. K PROVE Pre(i) = Pre(i - 1) \o seqs[i]
  <2> DEFINE b == seqs[i]
             m == off[i - 1]
             n == Len(b)
             o == off[i]
  <2>0. i - 1 \in 0 .. K /\ i \in 0 .. K
    OBVIOUS
  <2>1. m \in Nat
    BY <2>0
  <2>2. b \in Seq(Int) /\ n \in Nat /\ o = m + n /\ o <= Len(w)
    OBVIOUS
  <2>3. \A j \in 1 .. n : b[j] = w[m + j]
    OBVIOUS
  <2>4. Len(b) = n
    OBVIOUS
  <2> HIDE DEF b, m, n, o
  <2>5. m + n <= Len(w)
    BY <2>2
  <2>6. Front(w, m + n) = Front(w, m) \o b
    BY <2>1, <2>2, <2>3, <2>4, <2>5, FrontGrows, Zenon
  <2>7. Front(w, o) = Front(w, m) \o b
    BY <2>2, <2>6
  <2> QED
    BY <2>7 DEF o, m, b
<1>4. K >= 1 => Pre(1) = seqs[1]
  <2> SUFFICES ASSUME K >= 1 PROVE Pre(1) = seqs[1]
    OBVIOUS
  <2>1. Pre(1) = Pre(0) \o seqs[1]
    <3>1. 1 \in 1 .. K /\ 1 - 1 = 0
      OBVIOUS
    <3> HIDE DEF Pre
    <3> QED
      BY <1>3, <3>1
  <2>2. Pre(0) = <<>>
    BY <1>c
  <2> DEFINE b == seqs[1]
  <2>3. b \in Seq(Int)
    OBVIOUS
  <2> HIDE DEF Pre, b
  <2>4. <<>> \o b = b
    BY <2>3, ConcatEmptySeq
  <2> QED
    BY <2>1, <2>2, <2>4, Zenon DEF b
<1>5. \E f : IsFlat(f)
  <2> DEFINE g == [i \in 1 .. Len(seqs) |-> Pre(i)]
  <2> HIDE DEF Pre
  <2>1. \A i \in 1 .. Len(seqs) : g[i] = IF i = 1 THEN seqs[i] ELSE g[i - 1] \o seqs[i]
    <3> SUFFICES ASSUME NEW i \in 1 .. Len(seqs) PROVE g[i] = IF i = 1 THEN seqs[i] ELSE g[i - 1] \o seqs[i]
      OBVIOUS
    <3>1. CASE i = 1
      <4>1. g[i] = Pre(i)
        OBVIOUS
      <4>2. Pre(i) = seqs[i]
        BY <1>4, <3>1
      <4> QED
        BY <3>1, <4>1, <4>2, Zenon
    <3>2. CASE i # 1
      <4>1. i - 1 \in 1 .. Len(seqs)
        BY <3>2
      <4> QED
        BY <1>3, <3>2, <4>1
    <3> QED
      BY <3>1, <3>2
  <2>2. g = [i \in 1 .. Len(seqs) |-> g[i]]
    OBVIOUS
  <2> HIDE DEF g
  <2>3. g = [i \in 1 .. Len(seqs) |-> IF i = 1 THEN seqs[i] ELSE g[i - 1] \o seqs[i]]
    BY <2>1, <2>2, Zenon
  <2> QED
    BY <2>3
<1>6. IsFlat(flat)
  BY <1>5
<1>7. Stream!FlattenSeq(seqs) = IF Len(seqs) = 0 THEN seqs ELSE flat[Len(seqs)]
  BY Zenon DEF Stream!FlattenSeq
<1> HIDE DEF flat
<1>8. \A i \in 1 .. K : flat[i] = IF i = 1 THEN seqs[i] ELSE flat[i - 1] \o seqs[i]
  BY <1>6
<1> HIDE DEF IsFlat
<1> DEFINE Q == {i \in Nat : i + 1 <= K => flat[i + 1] = Pre(i + 1)}
<1> HIDE DEF Pre
<1>9. 0 \in Q
  BY <1>4, <1>8
<1>10. ASSUME NEW i \in Q PROVE i + 1 \in Q
  <2> SUFFICES ASSUME (i + 1) + 1 <= K PROVE flat[(i + 1) + 1] = Pre((i + 1) + 1)
    OBVIOUS
  <2> DEFINE j == (i + 1) + 1
  <2>1. j \in 1 .. K /\ j # 1 /\ j - 1 = i + 1 /\ i + 1 <= K
    OBVIOUS
  <2>2. flat[i + 1] = Pre(i + 1)
    BY <2>1
  <2> HIDE DEF j
  <2>3. flat[j] = flat[j - 1] \o seqs[j] /\ Pre(j) = Pre(j - 1) \o seqs[j]
    BY <1>3, <1>8, <2>1
  <2>4. flat[j] = Pre(j)
    BY <2>1, <2>2, <2>3
  <2> QED
    BY <2>4 DEF j
<1>11. Q = Nat
  <2> HIDE DEF Q
  <2>1. Q \in SUBSET Nat
    BY DEF Q
  <2> QED
    BY <1>9, <1>10, <2>1, NatSetInduction
<1>12. CASE K = 0
  <2>1. Len(w) = 0 /\ seqs = <<>>
    BY <1>12
  <2>2. w = <<>>
    BY <2>1
  <2> QED
    BY <1>7, <1>12, <2>1, <2>2
<1>13. CASE K # 0
  <2> DEFINE j == K - 1
  <2>1. j \in Nat /\ j + 1 = K
    BY <1>1, <1>13
  <2>2. flat[K] = Pre(K)
    <3> HIDE DEF Q, K, j
    <3>1. j \in Q
      BY <1>11, <2>1
    <3>2. flat[j + 1] = Pre(j + 1)
      <4>1. j + 1 <= K
        BY <2>1, <1>1
      <4> QED
        BY <3>1, <4>1 DEF Q
    <3> QED
      BY <2>1, <3>2
  <2>3. Pre(K) = w
    BY <1>b DEF Pre
  <2> QED
    BY <1>7, <1>13, <2>2, <2>3
<1> QED
  BY <1>12, <1>13

(* Blocks cut from w flatten to the part of w they were cut from. *)
LEMMA CutFlattens ==
  ASSUME NEW blocks, NEW w, Cut(blocks, w)
  PROVE  Stream!FlattenSeq(blocks) = Front(w, Len(blocks) * BlockBytes)
<1> DEFINE K == Len(blocks)
           c == K * BlockBytes
           v == Front(w, c)
           off == [i \in 0 .. Len(blocks) |-> i * BlockBytes]
<1>1. blocks \in Seq(Seq(Int)) /\ w \in Seq(Int) /\ K \in Nat /\ BlockBytes \in Nat \ {0} /\ c <= Len(w)
  BY StreamAssumption DEF Cut
<1>2. c \in Nat
  <2> HIDE DEF K
  <2> QED
    BY <1>1
<1>3. \A i \in 1 .. K : Len(blocks[i]) = BlockBytes
  BY DEF Cut
<1>4. \A i \in 1 .. K, j \in 1 .. BlockBytes : blocks[i][j] = w[(i - 1) * BlockBytes + j]
  BY DEF Cut
<1>5. v \in Seq(Int) /\ Len(v) = c /\ \A k \in 1 .. c : v[k] = w[k]
  <2> HIDE DEF c
  <2> QED
    BY <1>1, <1>2, FrontIs
<1>6. off \in [0 .. K -> Nat] /\ off[0] = 0 /\ off[K] = c /\ \A i \in 0 .. K : off[i] = i * BlockBytes
  <2> HIDE DEF K
  <2>1. \A i \in 0 .. K : i * BlockBytes \in Nat
    BY <1>1
  <2>2. 0 * BlockBytes = 0
    BY <1>1
  <2> QED
    BY <1>1, <2>1, <2>2 DEF K
<1>7. ASSUME NEW i \in 1 .. K
      PROVE  off[i] = off[i - 1] + BlockBytes /\ off[i] <= c /\ off[i - 1] = (i - 1) * BlockBytes
  <2> HIDE DEF K, off
  <2>1. i \in 0 .. K /\ i - 1 \in 0 .. K
    BY <1>1
  <2>2. off[i] = i * BlockBytes /\ off[i - 1] = (i - 1) * BlockBytes
    BY <1>6, <2>1
  <2>3. i * BlockBytes = (i - 1) * BlockBytes + BlockBytes
    BY <1>1
  <2>4. i * BlockBytes <= K * BlockBytes
    BY <1>1
  <2> QED
    BY <2>2, <2>3, <2>4
<1>8. ASSUME NEW i \in 1 .. K, NEW j \in 1 .. BlockBytes
      PROVE  blocks[i][j] = v[off[i - 1] + j]
  <2>1. (i - 1) * BlockBytes + j \in 1 .. c
    BY <1>1, PlaceInBlocks
  <2> DEFINE k == (i - 1) * BlockBytes + j
  <2>2. blocks[i][j] = w[k]
    BY <1>4
  <2>3. off[i - 1] + j = k
    BY <1>7
  <2> HIDE DEF k, v, c, off, K
  <2> QED
    BY <1>5, <2>1, <2>2, <2>3 DEF k
<1> HIDE DEF v, off, c
<1>9. \A i \in 1 .. Len(blocks) : off[i] = off[i - 1] + Len(blocks[i]) /\ off[i] <= Len(v)
  BY <1>3, <1>5, <1>7
<1>10. \A i \in 1 .. Len(blocks) : \A j \in 1 .. Len(blocks[i]) : blocks[i][j] = v[off[i - 1] + j]
  BY <1>3, <1>8
<1>11. off \in [0 .. Len(blocks) -> Nat] /\ off[0] = 0 /\ off[Len(blocks)] = Len(v)
  BY <1>5, <1>6
<1>12. Stream!FlattenSeq(blocks) = v
  BY <1>1, <1>5, <1>9, <1>10, <1>11, FlattenIs, Zenon
<1> QED
  BY <1>12 DEF v, c

(* What a stream has taken in is its blocks and then the block in progress. *)
LEMMA HeldIs ==
  ASSUME NEW s, NEW w, Holds(s, w)
  PROVE  /\ Stream!FlattenSeq(s.absorbed) \o s.pending = w
         /\ s.pending = <<>> => Stream!FlattenSeq(s.absorbed) = w
<1> DEFINE c == Len(s.absorbed) * BlockBytes
           p == s.pending
           n == Len(p)
<1>1. Cut(s.absorbed, w)
  BY DEF Holds
<1>2. w \in Seq(Int) /\ s.absorbed \in Seq(Seq(Int)) /\ p \in Seq(Int) /\ n \in Nat /\ Len(w) = c + n
      /\ \A j \in 1 .. n : p[j] = w[c + j]
  BY <1>1 DEF Holds, Cut
<1>3. c \in Nat
  <2> DEFINE K == Len(s.absorbed)
  <2>1. K \in Nat
    BY <1>2
  <2> HIDE DEF K
  <2>2. K * BlockBytes \in Nat
    BY <2>1, StreamAssumption
  <2> QED
    BY <2>2 DEF K
<1>4. Stream!FlattenSeq(s.absorbed) = Front(w, c)
  BY <1>1, CutFlattens
<1>5. Front(w, Len(w)) = w
  BY <1>2 DEF Front
<1>6. Len(p) = n
  OBVIOUS
<1>7. p = <<>> => n = 0
  OBVIOUS
<1> HIDE DEF c, n
<1>8. c + n <= Len(w)
  BY <1>2, <1>3
<1>9. Front(w, c + n) = Front(w, c) \o p
  <2> HIDE DEF p
  <2> QED
    BY <1>2, <1>3, <1>6, <1>8, FrontGrows, Zenon
<1>10. p = <<>> => Front(w, c) = w
  BY <1>2, <1>3, <1>5, <1>7
<1>11. Front(w, c) \o p = w
  BY <1>2, <1>5, <1>9
<1> QED
  BY <1>4, <1>10, <1>11

(* A block that is not full may come last. *)
LEMMA LastBlock ==
  ASSUME NEW blocks, NEW w, Cut(blocks, w), NEW b \in Seq(Int),
         NEW c \in Nat, c = Len(blocks) * BlockBytes, Len(w) = c + Len(b),
         \A j \in 1 .. Len(b) : b[j] = w[c + j]
  PROVE  Stream!FlattenSeq(blocks \o <<b>>) = w
<1> DEFINE K == Len(blocks)
           n == Len(b)
           all == blocks \o <<b>>
           off == [i \in 0 .. K + 1 |-> IF i <= K THEN i * BlockBytes ELSE Len(w)]
<1>1. blocks \in Seq(Seq(Int)) /\ w \in Seq(Int) /\ K \in Nat /\ BlockBytes \in Nat \ {0} /\ c <= Len(w)
  BY StreamAssumption DEF Cut
<1>2. all \in Seq(Seq(Int)) /\ Len(all) = K + 1 /\ all[K + 1] = b /\ \A i \in 1 .. K : all[i] = blocks[i]
  BY <1>1
<1>3. \A i \in 1 .. K : Len(blocks[i]) = BlockBytes
  BY DEF Cut
<1>4. \A i \in 1 .. K, j \in 1 .. BlockBytes : blocks[i][j] = w[(i - 1) * BlockBytes + j]
  BY DEF Cut
<1>5. n \in Nat /\ Len(b) = n /\ K * BlockBytes = c /\ Len(w) = c + n /\ \A j \in 1 .. n : b[j] = w[c + j]
  <2>1. n \in Nat
    BY SMTT(30)
  <2> QED
    BY <2>1, Zenon
<1> HIDE DEF K, n, all
<1>6. /\ off \in [0 .. K + 1 -> Nat] /\ off[0] = 0 /\ off[K + 1] = Len(w)
      /\ \A i \in 0 .. K : off[i] = i * BlockBytes
  <2>1. \A i \in 0 .. K : i * BlockBytes \in Nat
    BY <1>1
  <2>2. 0 * BlockBytes = 0
    BY <1>1
  <2>3. Len(w) \in Nat
    BY <1>5
  <2>4. \A i \in 0 .. K + 1 : (IF i <= K THEN i * BlockBytes ELSE Len(w)) \in Nat
    BY <2>1, <2>3, <1>1
  <2> QED
    BY <1>1, <2>1, <2>2, <2>4
<1> HIDE DEF off
<1>7. off[K] = c
  BY <1>1, <1>5, <1>6
<1>8. ASSUME NEW i \in 1 .. K + 1
      PROVE  /\ off[i] = off[i - 1] + Len(all[i]) /\ off[i] <= Len(w)
             /\ \A j \in 1 .. Len(all[i]) : all[i][j] = w[off[i - 1] + j]
  <2>1. CASE i = K + 1
    <3>1. i - 1 = K
      BY <1>1, <2>1
    <3>2. all[i] = b /\ off[i - 1] = c /\ off[i] = Len(w)
      BY <1>2, <1>6, <1>7, <2>1, <3>1
    <3> QED
      BY <1>5, <3>2
  <2>2. CASE i # K + 1
    <3>1. i \in 1 .. K /\ i \in 0 .. K /\ i - 1 \in 0 .. K
      BY <1>1, <2>2
    <3>2. off[i] = i * BlockBytes /\ off[i - 1] = (i - 1) * BlockBytes
      BY <1>6, <3>1
    <3>3. i * BlockBytes = (i - 1) * BlockBytes + BlockBytes
      BY <1>1
    <3>4. i * BlockBytes <= K * BlockBytes
      BY <1>1, <3>1
    <3>5. all[i] = blocks[i] /\ Len(blocks[i]) = BlockBytes
      BY <1>2, <1>3, <3>1
    <3>6. off[i] = off[i - 1] + BlockBytes
      BY <3>2, <3>3
    <3>7. off[i] <= Len(w)
      <4> DEFINE x == i * BlockBytes
      <4>1. x \in Int
        BY <1>1
      <4>3. x <= c
        BY <1>5, <3>4, Zenon
      <4> HIDE DEF x
      <4>2. x <= Len(w)
        BY <1>5, <4>1, <4>3
      <4> QED
        BY <3>2, <4>2 DEF x
    <3>8. \A j \in 1 .. BlockBytes : blocks[i][j] = w[off[i - 1] + j]
      BY <1>4, <3>1, <3>2
    <3> QED
      BY <3>5, <3>6, <3>7, <3>8
  <2> QED
    BY <2>1, <2>2
<1>9. Stream!FlattenSeq(all) = w
  <2>1. off \in [0 .. Len(all) -> Nat] /\ off[Len(all)] = Len(w)
    BY <1>2, <1>6
  <2>2. \A i \in 1 .. Len(all) : off[i] = off[i - 1] + Len(all[i]) /\ off[i] <= Len(w)
    BY <1>2, <1>8
  <2>3. \A i \in 1 .. Len(all) : \A j \in 1 .. Len(all[i]) : all[i][j] = w[off[i - 1] + j]
    BY <1>2, <1>8
  <2> QED
    BY <1>1, <1>2, <1>6, <2>1, <2>2, <2>3, FlattenIs, Zenon
<1> QED
  BY <1>9 DEF all

(* What Poly1305 closes is what it was given. *)
LEMMA ClosedIs ==
  ASSUME NEW s, NEW w, Holds(s, w)
  PROVE  LET digested == Stream!PolyBlocks(s)
         IN  Stream!FlattenSeq([i \in DOMAIN digested |-> digested[i].bytes]) = w
<1> DEFINE d == Stream!PolyBlocks(s)
           bytes == [i \in DOMAIN d |-> d[i].bytes]
           closed == [i \in DOMAIN s.absorbed |-> Stream!Closed(s.absorbed[i])]
           K == Len(s.absorbed)
           c == K * BlockBytes
           p == s.pending
<1>1. Cut(s.absorbed, w)
  BY DEF Holds
<1>2. w \in Seq(Int) /\ s.absorbed \in Seq(Seq(Int)) /\ p \in Seq(Int) /\ K \in Nat /\ Len(w) = c + Len(p)
      /\ \A j \in 1 .. Len(p) : p[j] = w[c + j]
  BY <1>1 DEF Holds, Cut
<1>3. c \in Nat
  <2> HIDE DEF K
  <2> QED
    BY <1>2, StreamAssumption
<1>4. closed = [i \in 1 .. K |-> Stream!Closed(s.absorbed[i])]
  BY <1>2
<1> DEFINE T == {Stream!Closed(b) : b \in Seq(Int)}
<1>7. closed \in Seq(T)
  <2>1. \A i \in 1 .. K : s.absorbed[i] \in Seq(Int)
    BY <1>2
  <2>2. \A i \in 1 .. K : Stream!Closed(s.absorbed[i]) \in T
    BY <2>1
  <2> HIDE DEF T
  <2>3. closed \in [1 .. K -> T]
    BY <1>4, <2>2
  <2>4. K \in Nat
    BY <1>2
  <2> HIDE DEF closed, K
  <2> QED
    BY <2>3, <2>4, SeqDef
<1>8. \A b : Stream!Closed(b).bytes = b
  BY DEF Stream!Closed
<1> HIDE DEF T
<1>5. CASE p = <<>>
  <2>1. d = closed
    <3>1. d = closed \o <<>>
      BY <1>5 DEF Stream!PolyBlocks
    <3> HIDE DEF d, closed
    <3>3. closed \o <<>> = closed
      BY <1>7, ConcatEmptySeq
    <3> QED
      BY <3>1, <3>3
  <2>2. bytes = s.absorbed
    <3>1. DOMAIN d = 1 .. K /\ \A i \in 1 .. K : d[i] = Stream!Closed(s.absorbed[i])
      BY <1>4, <2>1
    <3>2. \A i \in 1 .. K : d[i].bytes = s.absorbed[i]
      <4> HIDE DEF d, K
      <4> QED
        BY <1>8, <3>1
    <3>3. s.absorbed = [i \in 1 .. K |-> s.absorbed[i]]
      BY <1>2
    <3> HIDE DEF d, K
    <3> QED
      BY <3>1, <3>2, <3>3
  <2>3. Stream!FlattenSeq(s.absorbed) = w
    BY <1>5, HeldIs
  <2> QED
    BY <2>2, <2>3
<1>6. CASE p # <<>>
  <2> DEFINE last == Stream!Closed(p)
             all == s.absorbed \o <<p>>
  <2>1. d = closed \o <<last>>
    BY <1>6 DEF Stream!PolyBlocks
  <2>2. Len(closed) = K /\ \A i \in 1 .. K : closed[i] = Stream!Closed(s.absorbed[i])
    BY <1>2, <1>4
  <2>3. closed \in Seq(T) /\ last \in T
    <3>1. last \in T
      BY <1>2 DEF T
    <3> QED
      BY <1>7, <3>1
  <2>4. /\ DOMAIN d = 1 .. K + 1 /\ d[K + 1] = last
        /\ \A i \in 1 .. K : d[i] = Stream!Closed(s.absorbed[i])
    <3> HIDE DEF closed, d, last, T
    <3>1. d \in Seq(T) /\ Len(d) = K + 1
      BY <1>2, <2>1, <2>2, <2>3
    <3>2. \A i \in 1 .. K : d[i] = closed[i]
      <4> DEFINE one == <<last>>
      <4>1. one \in Seq(T) /\ d = closed \o one
        BY <2>1, <2>3
      <4> HIDE DEF one
      <4>2. \A i \in 1 .. Len(closed) : (closed \o one)[i] = closed[i]
        BY <2>3, <4>1, Joined
      <4> QED
        BY <2>2, <4>1, <4>2, Zenon
    <3>3. d[K + 1] = last
      <4> DEFINE one == <<last>>
                 i == 1
      <4>1. one \in Seq(T) /\ d = closed \o one /\ i \in 1 .. Len(one) /\ one[i] = last /\ i = 1
        BY <2>1, <2>3
      <4> HIDE DEF one, i
      <4>2. (closed \o one)[K + i] = one[i]
        <5> HIDE DEF K
        <5> QED
          BY <1>2, <2>2, <2>3, <4>1, JoinedAt
      <4> QED
        BY <4>1, <4>2
    <3> HIDE DEF K
    <3>4. DOMAIN d = 1 .. K + 1
      BY <3>1
    <3>5. \A i \in 1 .. K : d[i] = Stream!Closed(s.absorbed[i])
      BY <2>2, <3>2
    <3> QED
      BY <3>3, <3>4, <3>5
  <2>5. all = [i \in 1 .. K + 1 |-> all[i]] /\ all[K + 1] = p /\ \A i \in 1 .. K : all[i] = s.absorbed[i]
    BY <1>2
  <2>6. last.bytes = p /\ \A b : Stream!Closed(b).bytes = b
    BY <1>8
  <2>7. bytes = all
    <3> HIDE DEF d, last, all, K
    <3>1. \A i \in 1 .. K + 1 : d[i].bytes = all[i]
      <4> SUFFICES ASSUME NEW i \in 1 .. K + 1 PROVE d[i].bytes = all[i]
        OBVIOUS
      <4>1. CASE i = K + 1
        BY <2>4, <2>5, <2>6, <4>1
      <4>2. CASE i # K + 1
        <5>1. i \in 1 .. K
          BY <1>2, <4>2
        <5>2. d[i] = Stream!Closed(s.absorbed[i]) /\ all[i] = s.absorbed[i]
          BY <2>4, <2>5, <5>1
        <5> QED
          BY <2>6, <5>2
      <4> QED
        BY <4>1, <4>2
    <3>2. bytes = [i \in 1 .. K + 1 |-> d[i].bytes]
      BY <2>4
    <3>3. bytes = [i \in 1 .. K + 1 |-> all[i]]
      BY <3>1, <3>2
    <3> QED
      BY <2>5, <3>3, Zenon
  <2>8. Stream!FlattenSeq(all) = w
    <3>1. c = Len(s.absorbed) * BlockBytes
      OBVIOUS
    <3> HIDE DEF c, p
    <3> QED
      BY <1>1, <1>2, <1>3, <3>1, LastBlock
  <2> QED
    BY <2>7, <2>8
<1> QED
  BY <1>5, <1>6

(* One more zero. *)
LEMMA OneMoreZero ==
  ASSUME NEW w \in Seq(Int), NEW k \in Nat
  PROVE  /\ Stream!Zeros(k) \in Seq(Int) /\ Len(Stream!Zeros(k)) = k
         /\ (w \o Stream!Zeros(k)) \o <<Stream!Zero>> = w \o Stream!Zeros(k + 1)
<1> DEFINE a == Stream!Zeros(k)
           b == <<Stream!Zero>>
           e == Stream!Zeros(k + 1)
<1>1. a \in Seq(Int) /\ Len(a) = k /\ \A i \in 1 .. k : a[i] = 0
  BY DEF Stream!Zeros, Stream!Zero
<1>2. b \in Seq(Int) /\ Len(b) = 1 /\ b[1] = 0
  BY DEF Stream!Zero
<1>3. e \in Seq(Int) /\ Len(e) = k + 1 /\ \A i \in 1 .. k + 1 : e[i] = 0
  BY DEF Stream!Zeros, Stream!Zero
<1> HIDE DEF a, b, e
<1>4. \A i \in 1 .. Len(a) : e[i] = a[i]
  BY <1>1, <1>3
<1>5. \A j \in 1 .. Len(b) : e[Len(a) + j] = b[j]
  <2> SUFFICES ASSUME NEW j \in 1 .. Len(b) PROVE e[Len(a) + j] = b[j]
    OBVIOUS
  <2>1. j = 1 /\ Len(a) + j \in 1 .. k + 1
    BY <1>1, <1>2
  <2> QED
    BY <1>2, <1>3, <2>1
<1>6. Len(e) = Len(a) + Len(b)
  BY <1>1, <1>2, <1>3
<1>7. e = a \o b
  BY <1>1, <1>2, <1>3, <1>4, <1>5, <1>6, TwoParts, Zenon
<1>8. (w \o a) \o b = w \o (a \o b)
  BY <1>1, <1>2, ConcatAssociative
<1> QED
  BY <1>1, <1>7, <1>8, Zenon DEF a, b, e

(* The padding, one zero at a time; the community modules fold from the     *)
(* last.                                                                    *)
IsPadding(zeros, base, g) ==
  g = [s \in SUBSET DOMAIN zeros |->
        IF s = {} THEN base ELSE Stream!Update(g[s \ {MaxOf(s)}], <<Stream!Zero>>)]

LEMMA PaddingExists ==
  ASSUME NEW k \in Nat, NEW base \in Streams, NEW w, Holds(base, w)
  PROVE  \E g : IsPadding(Stream!Zeros(k), base, g)
<1> DEFINE S == {s \in Streams : \E v : Holds(s, v)}
           one == <<Stream!Zero>>
           F == [q \in (1 .. k) \X S |-> Stream!Update(q[2], one)]
<1>1. DOMAIN Stream!Zeros(k) = 1 .. k
  BY DEF Stream!Zeros
<1>2. base \in S
  OBVIOUS
<1>3. one \in Seq(Int)
  BY DEF Stream!Zero
<1> HIDE DEF one
<1>4. \A s \in S : Stream!Update(s, one) \in S
  <2> SUFFICES ASSUME NEW s \in S PROVE Stream!Update(s, one) \in S
    OBVIOUS
  <2>1. PICK v : Holds(s, v)
    OBVIOUS
  <2>2. Holds(Stream!Update(s, one), v \o one) /\ Stream!Update(s, one) \in Streams
    BY <1>3, <2>1, UpdateIs, Zenon
  <2> QED
    BY <2>2
<1> HIDE DEF S
<1>5. F \in [(1 .. k) \X S -> S]
  BY <1>4
<1>6. \A i \in 1 .. k, s \in S : F[<<i, s>>] = Stream!Update(s, one)
  OBVIOUS
<1> HIDE DEF F
<1>7. PICK g \in [SUBSET (1 .. k) -> S] : IsFold(k, base, F, g)
  BY <1>2, <1>5, FoldExists
<1>8. ASSUME NEW s \in SUBSET (1 .. k)
      PROVE  FoldStep(base, F, g, s) = IF s = {} THEN base ELSE Stream!Update(g[s \ {MaxOf(s)}], one)
  <2>1. CASE s = {}
    BY <2>1 DEF FoldStep
  <2>2. CASE s # {}
    <3>1. MaxOf(s) \in 1 .. k
      <4>1. IsFiniteSet(1 .. k)
        BY FS_Interval
      <4>2. s \in SUBSET Int
        OBVIOUS
      <4>3. IsFiniteSet(s)
        BY <4>1, FS_Subset
      <4> QED
        BY <2>2, <4>2, <4>3, MaxIs
    <3>2. g[s \ {MaxOf(s)}] \in S
      BY <1>7
    <3> QED
      BY <1>6, <2>2, <3>1, <3>2 DEF FoldStep
  <2> QED
    BY <2>1, <2>2
<1>9. g = [s \in SUBSET (1 .. k) |-> IF s = {} THEN base ELSE Stream!Update(g[s \ {MaxOf(s)}], one)]
  BY <1>7, <1>8, Zenon DEF IsFold
<1> QED
  BY <1>1, <1>9, Zenon DEF IsPadding, one

LEMMA PaddingIs ==
  ASSUME NEW k \in Nat, NEW base \in Streams, NEW w, Holds(base, w), NEW g, IsPadding(Stream!Zeros(k), base, g)
  PROVE  /\ g[DOMAIN Stream!Zeros(k)] \in Streams
         /\ Holds(g[DOMAIN Stream!Zeros(k)], w \o Stream!Zeros(k))
<1> DEFINE one == <<Stream!Zero>>
           Q == {j \in Nat : j <= k => g[1 .. j] \in Streams /\ Holds(g[1 .. j], w \o Stream!Zeros(j))}
<1>1. DOMAIN Stream!Zeros(k) = 1 .. k
  BY DEF Stream!Zeros
<1>2. \A s \in SUBSET (1 .. k) : g[s] = IF s = {} THEN base ELSE Stream!Update(g[s \ {MaxOf(s)}], one)
  <2>1. g = [s \in SUBSET (1 .. k) |-> IF s = {} THEN base ELSE Stream!Update(g[s \ {MaxOf(s)}], one)]
    BY <1>1, Zenon DEF IsPadding
  <2> HIDE DEF one
  <2> QED
    BY <2>1
<1>3. w \in Seq(Int) /\ one \in Seq(Int)
  BY DEF Holds, Cut, Stream!Zero
<1>4. 0 \in Q
  <2>1. 1 .. 0 = {} /\ {} \in SUBSET (1 .. k)
    OBVIOUS
  <2>2. g[1 .. 0] = base
    BY <1>2, <2>1
  <2>3. w \o Stream!Zeros(0) = w
    <3>1. Stream!Zeros(0) = <<>>
      BY DEF Stream!Zeros
    <3> QED
      BY <1>3, <3>1, ConcatEmptySeq
  <2> QED
    BY <2>2, <2>3
<1>5. ASSUME NEW j \in Q PROVE j + 1 \in Q
  <2> SUFFICES ASSUME j + 1 <= k
               PROVE  g[1 .. j + 1] \in Streams /\ Holds(g[1 .. j + 1], w \o Stream!Zeros(j + 1))
    OBVIOUS
  <2>0. j \in Nat /\ g[1 .. j] \in Streams /\ Holds(g[1 .. j], w \o Stream!Zeros(j))
    OBVIOUS
  <2> DEFINE i == j + 1
  <2>1. i \in 1 .. k /\ i - 1 = j
    BY <2>0
  <2> HIDE DEF i
  <2>2. /\ 1 .. i \in SUBSET (1 .. k) /\ 1 .. i # {}
        /\ MaxOf(1 .. i) = i /\ (1 .. i) \ {i} = 1 .. j
    BY <2>1, UpTo
  <2> HIDE DEF one, Q
  <2>3. g[1 .. i] = Stream!Update(g[1 .. j], one)
    BY <1>2, <2>2, Zenon
  <2>4. Holds(g[1 .. i], (w \o Stream!Zeros(j)) \o one) /\ g[1 .. i] \in Streams
    BY <1>3, <2>0, <2>3, UpdateIs, Zenon
  <2>5. (w \o Stream!Zeros(j)) \o one = w \o Stream!Zeros(i)
    BY <1>3, <2>0, OneMoreZero, Zenon DEF one, i
  <2>6. Holds(g[1 .. i], w \o Stream!Zeros(i)) /\ g[1 .. i] \in Streams
    BY <2>4, <2>5, Zenon
  <2> QED
    BY <2>6 DEF i
<1>6. Q = Nat
  <2> HIDE DEF Q
  <2>1. Q \in SUBSET Nat
    BY DEF Q
  <2> QED
    BY <1>4, <1>5, <2>1, NatSetInduction
<1>7. k \in Q
  BY <1>6
<1> QED
  BY <1>1, <1>7

(* The zeros that bring the length to the end of a block. *)
LEMMA ZerosThereAre ==
  ASSUME NEW p \in 0 .. BlockBytes - 1
  PROVE  \E k \in 0 .. BlockBytes - 1 : (p + k) % BlockBytes = BlockBytes - LengthBytes
<1> DEFINE B == BlockBytes
           t == BlockBytes - LengthBytes
<1>1. B \in Nat \ {0} /\ t \in 0 .. B - 1 /\ p \in 0 .. B - 1
  BY StreamAssumption
<1> HIDE DEF B, t
<1>2. CASE p <= t
  <2> DEFINE k == t - p
  <2>1. k \in 0 .. B - 1 /\ k \in 0 .. B /\ p + k = t /\ p + k < B
    BY <1>1, <1>2
  <2> HIDE DEF k
  <2>2. (p + k) % B = t
    BY <1>1, <2>1, WrapOnce
  <2> QED
    BY <2>1, <2>2 DEF B, t
<1>3. CASE ~(p <= t)
  <2> DEFINE k == t + B - p
  <2>1. k \in 0 .. B - 1 /\ k \in 0 .. B /\ p + k - B = t /\ ~(p + k < B)
    BY <1>1, <1>3
  <2> HIDE DEF k
  <2>2. (p + k) % B = t
    BY <1>1, <2>1, WrapOnce
  <2> QED
    BY <2>1, <2>2 DEF B, t
<1> QED
  BY <1>2, <1>3

(* What SHA-256 hashes: the message, the marker, the zeros and the length,  *)
(* in whole blocks.                                                         *)
LEMMA PaddedIs ==
  ASSUME NEW s \in Streams, NEW w, Holds(s, w), NEW n \in Nat
  PROVE  LET d == Stream!ShaBlocks(s, n)
         IN  /\ d.pending = <<>> /\ d.absorbed \in Seq(Seq(Int))
             /\ \A i \in 1 .. Len(d.absorbed) : Len(d.absorbed[i]) = BlockBytes
             /\ \E z \in 0 .. BlockBytes - 1 :
                  Stream!FlattenSeq(d.absorbed)
                    = w \o <<Stream!Marker>> \o Stream!Zeros(z) \o Stream!Length(n)
<1> DEFINE mark == <<Stream!Marker>>
           marked == Stream!Update(s, mark)
           fits(k) == (Len(marked.pending) + k) % BlockBytes = BlockBytes - LengthBytes
           zeros == CHOOSE k \in 0 .. BlockBytes - 1 : fits(k)
           iter == CHOOSE g : IsPadding(Stream!Zeros(zeros), marked, g)
           padded == iter[DOMAIN Stream!Zeros(zeros)]
           len == Stream!Length(n)
           d == Stream!Update(padded, len)
           wm == w \o mark
           wz == wm \o Stream!Zeros(zeros)
           wl == wz \o len
<1>1. Stream!ShaBlocks(s, n) = d
  BY Zenon DEF Stream!ShaBlocks, Stream!FoldLeft, Stream!MapThenFoldSet, Stream!Max, MaxOf, IsPadding
<1>2. /\ w \in Seq(Int) /\ mark \in Seq(Int) /\ Len(mark) = 1
      /\ len \in Seq(Int) /\ Len(len) = LengthBytes
  BY StreamAssumption DEF Holds, Cut, Stream!Marker, Stream!Length
<1> HIDE DEF mark, len
<1>3. Holds(marked, wm) /\ marked \in Streams
  BY <1>2, UpdateIs, Zenon
<1> HIDE DEF marked
<1>4. Len(marked.pending) \in 0 .. BlockBytes - 1
  BY <1>3, StreamAssumption DEF Holds
<1>5. zeros \in 0 .. BlockBytes - 1 /\ fits(zeros) /\ zeros \in Nat
  <2>1. \E k \in 0 .. BlockBytes - 1 : fits(k)
    BY <1>4, ZerosThereAre, Zenon
  <2> HIDE DEF fits
  <2>2. zeros \in 0 .. BlockBytes - 1 /\ fits(zeros)
    BY <2>1, Zenon
  <2> HIDE DEF zeros
  <2> QED
    BY <2>2, StreamAssumption
<1> HIDE DEF zeros
<1>6. IsPadding(Stream!Zeros(zeros), marked, iter)
  <2>1. \E g : IsPadding(Stream!Zeros(zeros), marked, g)
    BY <1>3, <1>5, PaddingExists
  <2> QED
    BY <2>1, Zenon
<1> HIDE DEF iter
<1>7. padded \in Streams /\ Holds(padded, wz)
  BY <1>3, <1>5, <1>6, PaddingIs
<1> HIDE DEF padded
<1>8. Holds(d, wl) /\ d \in Streams
  BY <1>2, <1>7, UpdateIs, Zenon
<1>9. wm \in Seq(Int) /\ wz \in Seq(Int) /\ wl \in Seq(Int)
  BY <1>3, <1>7, <1>8 DEF Holds, Cut
<1>10. Stream!Zeros(zeros) \in Seq(Int) /\ Len(Stream!Zeros(zeros)) = zeros
  BY <1>2, <1>5, OneMoreZero
<1>11. Len(wz) = Len(wm) + zeros /\ Len(wl) = Len(wz) + LengthBytes
  <2> HIDE DEF wm
  <2>1. Len(wz) = Len(wm) + Len(Stream!Zeros(zeros))
    BY <1>9, <1>10, Joined
  <2> HIDE DEF wz
  <2>2. Len(wl) = Len(wz) + Len(len)
    BY <1>2, <1>9, Joined
  <2> QED
    BY <1>2, <1>10, <2>1, <2>2
<1> DEFINE B == BlockBytes
           nm == Len(marked.absorbed)
           p == Len(marked.pending)
           nd == Len(d.absorbed)
           pd == Len(d.pending)
           q == (p + zeros) \div B
<1>12. /\ nm \in Nat /\ nd \in Nat /\ p \in Nat /\ pd \in Nat /\ pd < B /\ B \in Nat \ {0}
       /\ Len(wm) = nm * B + p /\ Len(wl) = nd * B + pd /\ LengthBytes \in 1 .. B
  <2> HIDE DEF d, wm, wl
  <2>1. marked.absorbed \in Seq(Seq(Int)) /\ marked.pending \in Seq(Int) /\ Len(wm) = nm * B + p
    BY <1>3, Zenon DEF Holds, Cut
  <2>2. /\ d.absorbed \in Seq(Seq(Int)) /\ d.pending \in Seq(Int) /\ Len(wl) = nd * B + pd
        /\ pd < B
    BY <1>8, Zenon DEF Holds, Cut
  <2>3. B \in Nat \ {0} /\ LengthBytes \in 1 .. B
    BY StreamAssumption
  <2>4. nm \in Nat /\ p \in Nat
    BY <2>1
  <2>5. nd \in Nat /\ pd \in Nat
    BY <2>2
  <2> HIDE DEF nm, p, nd, pd
  <2> QED
    BY <2>1, <2>2, <2>3, <2>4, <2>5
<1>13. q \in Int /\ p + zeros = B * q + (B - LengthBytes)
  <2>1. /\ (p + zeros) \div B \in Int
        /\ p + zeros = B * ((p + zeros) \div B) + ((p + zeros) % B)
    <3> DEFINE x == p + zeros
    <3>1. x \in Nat
      BY <1>5, <1>12
    <3> HIDE DEF x, p, B
    <3>2. x \div B \in Int /\ x = B * (x \div B) + (x % B)
      BY <1>12, <3>1, ModRange
    <3> QED
      BY <3>2 DEF x
  <2>2. (p + zeros) % B = B - LengthBytes
    BY <1>5
  <2> QED
    BY <2>1, <2>2
<1>14. pd = 0
  <2> DEFINE lm == Len(wm)
             ll == Len(wl)
             zero == 0
             all == nm + q + 1
  <2>0. lm = nm * B + p /\ ll = nd * B + pd /\ ll = lm + zeros + LengthBytes
    BY <1>11, <1>12
  <2> HIDE DEF B, nm, p, nd, pd, q, lm, ll
  <2>1. ll = nm * B + (p + zeros) + LengthBytes
    BY <1>5, <1>12, <2>0
  <2>2. ll = nm * B + (B * q + (B - LengthBytes)) + LengthBytes
    BY <1>13, <2>1
  <2>3. ll = nm * B + B * q + B
    BY <1>12, <1>13, <2>2
  <2>4. B * (nm + q + 1) = nm * B + B * q + B
    BY <1>12, <1>13
  <2>5. all \in Int /\ zero \in 0 .. B - 1 /\ pd \in 0 .. B - 1 /\ zero = 0
    BY <1>12, <1>13
  <2>6. B * all + zero = B * nd + pd
    BY <1>12, <1>13, <2>0, <2>3, <2>4, <2>5
  <2> HIDE DEF all, zero
  <2>7. zero = pd
    <3>1. nd \in Int
      BY <1>12
    <3> QED
      BY <1>12, <2>5, <2>6, <3>1, DivUnique, Zenon
  <2> QED
    BY <2>5, <2>7
<1>15. /\ d.pending = <<>> /\ d.absorbed \in Seq(Seq(Int))
       /\ \A i \in 1 .. Len(d.absorbed) : Len(d.absorbed[i]) = BlockBytes
  <2>1. d.pending \in Seq(Int) /\ Len(d.pending) = 0
    BY <1>8, <1>14 DEF Holds
  <2>2. Cut(d.absorbed, wl)
    BY <1>8 DEF Holds
  <2> HIDE DEF d, wl
  <2>3. d.pending = <<>>
    BY <2>1
  <2> QED
    BY <2>2, <2>3 DEF Cut
<1>16. Stream!FlattenSeq(d.absorbed) = wl
  <2> HIDE DEF d, wl
  <2> QED
    BY <1>8, <1>15, HeldIs
<1>17. \E z \in 0 .. BlockBytes - 1 :
         Stream!FlattenSeq(d.absorbed) = w \o mark \o Stream!Zeros(z) \o len
  BY <1>5, <1>16, Zenon
<1> HIDE DEF d
<1> QED
  BY <1>1, <1>15, <1>17, Zenon DEF mark, len

(* What was fed is the message; a digest is of all of it. *)
Digested(d, n) ==
  /\ d.sha.pending = <<>> /\ \A i \in DOMAIN d.sha.absorbed : Len(d.sha.absorbed[i]) = BlockBytes
  /\ \E z \in 0 .. BlockBytes - 1 :
       Stream!FlattenSeq(d.sha.absorbed)
         = Stream!Message(n) \o <<Stream!Marker>> \o Stream!Zeros(z) \o Stream!Length(n)
  /\ Stream!FlattenSeq([i \in DOMAIN d.poly |-> d.poly[i].bytes]) = Stream!Message(n)

StreamInv ==
  /\ fed \in Nat
  /\ Holds(Stream!State, Stream!Message(fed)) /\ Stream!State \in Streams
  /\ \A d \in digest : Digested(d, fed)

LEMMA StreamStarts ==
  ASSUME Stream!StreamInit
  PROVE  StreamInv
<1>1. pending = <<>> /\ absorbed = <<>> /\ fed = 0 /\ digest = {}
  BY DEF Stream!StreamInit, Stream!NoDigest
<1>2. Stream!Message(0) = <<>>
  BY DEF Stream!Message
<1>3. BlockBytes \in Nat \ {0}
  BY StreamAssumption
<1>4. Stream!State.pending = <<>> /\ Stream!State.absorbed = <<>> /\ Stream!State \in Streams
  BY <1>1 DEF Stream!State, Streams
<1>5. Cut(<<>>, <<>>)
  BY <1>3 DEF Cut
<1>6. Holds(Stream!State, <<>>)
  BY <1>3, <1>4, <1>5 DEF Holds
<1> QED
  BY <1>1, <1>2, <1>4, <1>6 DEF StreamInv

(* The next chunk goes on where the message so far ends. *)
LEMMA MessageGrows ==
  ASSUME NEW m \in Nat, NEW n \in Nat
  PROVE  /\ Stream!Message(m) \o [i \in 1 .. n |-> m + i] = Stream!Message(m + n)
         /\ [i \in 1 .. n |-> m + i] \in Seq(Int)
<1> DEFINE a == Stream!Message(m)
           b == [i \in 1 .. n |-> m + i]
           e == Stream!Message(m + n)
<1>1. a \in Seq(Int) /\ Len(a) = m /\ \A i \in 1 .. m : a[i] = i
  BY DEF Stream!Message
<1>2. b \in Seq(Int) /\ Len(b) = n /\ \A i \in 1 .. n : b[i] = m + i
  OBVIOUS
<1>3. e \in Seq(Int) /\ Len(e) = m + n /\ \A i \in 1 .. m + n : e[i] = i
  BY DEF Stream!Message
<1> HIDE DEF a, b, e
<1>4. \A k \in 1 .. Len(a) : e[k] = a[k]
  BY <1>1, <1>3
<1>5. \A j \in 1 .. Len(b) : e[Len(a) + j] = b[j]
  <2> SUFFICES ASSUME NEW j \in 1 .. Len(b) PROVE e[Len(a) + j] = b[j]
    OBVIOUS
  <2>1. j \in 1 .. n /\ Len(a) + j = m + j /\ m + j \in 1 .. m + n
    BY <1>1, <1>2
  <2> QED
    BY <1>2, <1>3, <2>1
<1>6. Len(e) = Len(a) + Len(b)
  BY <1>1, <1>2, <1>3
<1>7. e = a \o b
  BY <1>1, <1>2, <1>3, <1>4, <1>5, <1>6, TwoParts, Zenon
<1> QED
  BY <1>2, <1>7, Zenon DEF a, b, e

LEMMA StreamInvHolds ==
  ASSUME StreamInv, [Stream!StreamNext]_(Stream!streamVars)
  PROVE  StreamInv'
<1>0. fed \in Nat /\ Holds(Stream!State, Stream!Message(fed)) /\ Stream!State \in Streams
  BY DEF StreamInv
<1>1. ASSUME NEW n \in 0 .. BlockBytes + 1, Stream!Feed(n) PROVE StreamInv'
  <2> DEFINE chunk == [i \in 1 .. n |-> fed + i]
             s == Stream!Update(Stream!State, chunk)
  <2>1. n \in Nat
    BY StreamAssumption
  <2>2. chunk \in Seq(Int) /\ Stream!Message(fed) \o chunk = Stream!Message(fed + n)
    BY <1>0, <2>1, MessageGrows
  <2>3. /\ pending' = s.pending /\ absorbed' = s.absorbed
        /\ fed' = fed + n /\ digest' = digest /\ digest = {}
    BY <1>1 DEF Stream!Feed, Stream!NoDigest
  <2> HIDE DEF chunk
  <2>4. Holds(s, Stream!Message(fed) \o chunk) /\ s \in Streams
    BY <1>0, <2>2, UpdateIs
  <2> HIDE DEF s
  <2>5. Stream!State' = s
    <3>1. s = [pending |-> s.pending, absorbed |-> s.absorbed]
      BY <2>4 DEF Streams
    <3> QED
      BY <2>3, <3>1 DEF Stream!State
  <2>6. Stream!Message(fed)' = Stream!Message(fed + n)
    BY <2>3
  <2>7. Holds(s, Stream!Message(fed + n))
    BY <2>2, <2>4
  <2>8. Holds(Stream!State, Stream!Message(fed))'
    BY <2>5, <2>6, <2>7 DEF Holds, Cut
  <2>9. fed' \in Nat /\ (Stream!State \in Streams)' /\ digest' = {}
    BY <1>0, <2>1, <2>3, <2>4, <2>5 DEF Streams
  <2> QED
    BY <2>8, <2>9 DEF StreamInv
<1>2. ASSUME Stream!Finalize PROVE StreamInv'
  <2> DEFINE w == Stream!Message(fed)
             sha == Stream!ShaBlocks(Stream!State, fed)
             poly == Stream!PolyBlocks(Stream!State)
             d == [sha |-> sha, poly |-> poly]
  <2>1. digest' = {d} /\ pending' = pending /\ absorbed' = absorbed /\ fed' = fed
    BY <1>2 DEF Stream!Finalize
  <2>2. /\ sha.pending = <<>> /\ sha.absorbed \in Seq(Seq(Int))
        /\ \A i \in 1 .. Len(sha.absorbed) : Len(sha.absorbed[i]) = BlockBytes
        /\ \E z \in 0 .. BlockBytes - 1 :
             Stream!FlattenSeq(sha.absorbed) = w \o <<Stream!Marker>> \o Stream!Zeros(z) \o Stream!Length(fed)
    BY <1>0, PaddedIs
  <2>3. Stream!FlattenSeq([i \in DOMAIN poly |-> poly[i].bytes]) = w
    BY <1>0, ClosedIs
  <2> HIDE DEF sha, poly
  <2>4. d.sha = sha /\ d.poly = poly
    OBVIOUS
  <2>5. DOMAIN sha.absorbed = 1 .. Len(sha.absorbed)
    BY <2>2
  <2> HIDE DEF d
  <2>6. Digested(d, fed)
    BY <2>2, <2>3, <2>4, <2>5, Zenon DEF Digested
  <2>7. \A e \in digest' : Digested(e, fed')
    BY <2>1, <2>6
  <2>8. Holds(Stream!State, Stream!Message(fed))' /\ (Stream!State \in Streams)'
    BY <1>0, <2>1 DEF Stream!State, Holds, Cut, Streams
  <2> QED
    BY <1>0, <2>1, <2>7, <2>8 DEF StreamInv, Digested
<1>3. ASSUME UNCHANGED Stream!streamVars PROVE StreamInv'
  <2>1. pending' = pending /\ absorbed' = absorbed /\ fed' = fed /\ digest' = digest
    BY <1>3 DEF Stream!streamVars
  <2>2. Holds(Stream!State, Stream!Message(fed))' /\ (Stream!State \in Streams)'
    BY <1>0, <2>1 DEF Stream!State, Holds, Cut, Streams
  <2> QED
    BY <2>1, <2>2 DEF StreamInv, Digested
<1> QED
  BY <1>1, <1>2, <1>3 DEF Stream!StreamNext

LEMMA ChunkingStaysInvisible ==
  ASSUME StreamInv
  PROVE  Stream!ChunkingIsInvisible
<1> DEFINE s == Stream!State
           w == Stream!Message(fed)
<1>0. Holds(s, w) /\ s.pending = pending /\ s.absorbed = absorbed
  BY DEF StreamInv, Stream!State
<1>1. Stream!FlattenSeq(absorbed) \o pending = w
  <2> HIDE DEF s, w
  <2>1. Stream!FlattenSeq(s.absorbed) \o s.pending = w
    BY <1>0, HeldIs
  <2> QED
    BY <1>0, <2>1
<1>2. Len(pending) < BlockBytes /\ \A i \in DOMAIN absorbed : Len(absorbed[i]) = BlockBytes
  <2> HIDE DEF s, w
  <2> QED
    BY <1>0 DEF Holds, Cut
<1>3. \A d \in digest : Digested(d, fed)
  BY DEF StreamInv
<1> QED
  BY <1>1, <1>2, <1>3, Zenon DEF Stream!ChunkingIsInvisible, Digested

(* A digest does not depend on how the message was cut into chunks, and the *)
(* limb arithmetic is exact, for every message and every key.               *)
THEOREM MacsAreExact == UnitsSpec => []MacIsExact
<1> DEFINE CryptoInv == StreamInv /\ PolyInv
<1>1. UnitsInit => CryptoInv
  BY StreamStarts, PolyStarts DEF UnitsInit
<1>2. CryptoInv /\ [UnitsNext]_unitVars => CryptoInv'
  BY UnitsSteps, StreamInvHolds, PolyInvHolds
<1>3. CryptoInv => MacIsExact
  BY ChunkingStaysInvisible, LimbsStayExact DEF MacIsExact
<1> QED
  BY <1>1, <1>2, <1>3, PTL DEF UnitsSpec
=============================================================================
