-------------------------- MODULE AlignedReaderProofs --------------------------
(***************************************************************************)
(* The aligned reader hands out the bytes of the disk, for any sector      *)
(* size, position, buffer and result of the device.                        *)
(***************************************************************************)
EXTENDS AlignedReader, SequenceTheorems, TLAPS

(* The position lies in the sector the transfer starts with. *)
LEMMA PrefixInSector ==
  ASSUME NEW position \in Nat, NEW sector \in Nat \ {0}
  PROVE  /\ position % sector \in 0 .. sector - 1
         /\ position % sector <= position
  OBVIOUS

(* The elements of a part of a sequence. *)
LEMMA Part ==
  ASSUME NEW S, NEW s, NEW m \in Nat, NEW k \in Nat, \A i \in m + 1 .. m + k : s[i] \in S
  PROVE  /\ SubSeq(s, m + 1, m + k) \in Seq(S) /\ Len(SubSeq(s, m + 1, m + k)) = k
         /\ \A i \in 1 .. k : SubSeq(s, m + 1, m + k)[i] = s[m + i]
  <1> DEFINE part == SubSeq(s, m + 1, m + k)
  <1>1. m + 1 \in Int /\ m + k \in Int
    OBVIOUS
  <1>2. /\ part \in Seq(S)
        /\ Len(part) = IF m + 1 <= m + k THEN m + k - (m + 1) + 1 ELSE 0
        /\ \A i \in 1 .. m + k - (m + 1) + 1 : part[i] = s[m + 1 + i - 1]
    BY <1>1, SubSeqProperties
  <1> HIDE DEF part
  <1>3. \A i \in 1 .. k : part[i] = s[m + i]
    <2> TAKE i \in 1 .. k
    <2>1. i \in 1 .. m + k - (m + 1) + 1 /\ m + 1 + i - 1 = m + i
      OBVIOUS
    <2> QED
      BY <1>2, <2>1
  <1>4. Len(part) = k
    BY <1>2
  <1> QED
    BY <1>2, <1>3, <1>4 DEF part

LEMMA PrefixIsSeq ==
  ASSUME NEW S, NEW s \in Seq(S), NEW k \in Nat, k <= Len(s)
  PROVE  SubSeq(s, 1, k) \in Seq(S)
  <1>1. \A i \in 0 + 1 .. 0 + k : s[i] \in S
    OBVIOUS
  <1>2. SubSeq(s, 0 + 1, 0 + k) \in Seq(S)
    BY <1>1, Part
  <1> QED
    BY <1>2

(* What Slice returns is the part of the disk that begins at the position, *)
(* and never more of it than there is.                                     *)
THEOREM SliceIsExact ==
  ASSUME NEW Data, NEW disk \in Seq(Data), NEW position \in Nat, NEW sector \in Nat \ {0},
         NEW output \in Nat, NEW count \in Nat, position <= Len(disk),
         Slice(disk, position, sector, output, count) # <<>>
  PROVE  \E copied \in Nat :
           /\ position + copied <= Len(disk)
           /\ Slice(disk, position, sector, output, count)
                = SubSeq(disk, position + 1, position + copied)
  <1> DEFINE start  == AlignedStart(position, sector)
             prefix == position - start
             buffer == SubSeq(disk, start + 1, start + count)
             copied == Least(Available(position, Len(disk), output), count - prefix)
  <1>1. start \in Nat /\ prefix \in Nat /\ start + prefix = position
    BY PrefixInSector DEF AlignedStart
  <1>2. ~(count % sector # 0 \/ count <= prefix)
    BY Zenon DEF Slice
  <1>3. Slice(disk, position, sector, output, count) = SubSeq(buffer, prefix + 1, prefix + copied)
    BY <1>2, Zenon DEF Slice
  <1>4. copied \in Nat /\ position + copied <= Len(disk) /\ prefix + copied <= count
    <2>1. Len(disk) \in Nat /\ count > prefix
      BY <1>1, <1>2
    <2> HIDE DEF start, prefix
    <2> QED
      BY <1>1, <2>1 DEF Least, Available
  <1>5. SubSeq(buffer, prefix + 1, prefix + copied)
          = SubSeq(disk, position + 1, position + copied)
    <2> DEFINE S == {disk[i] : i \in Int}
               left  == SubSeq(buffer, prefix + 1, prefix + copied)
               right == SubSeq(disk, position + 1, position + copied)
    <2> HIDE DEF start, prefix, copied
    <2>1. /\ buffer \in Seq(S) /\ \A i \in 1 .. count : buffer[i] = disk[start + i]
      BY <1>1, Part
    <2> HIDE DEF S, buffer
    <2>2. /\ left \in Seq(S) /\ Len(left) = copied
          /\ \A i \in 1 .. copied : left[i] = buffer[prefix + i]
      <3>1. \A i \in prefix + 1 .. prefix + copied : buffer[i] \in S
        <4> TAKE i \in prefix + 1 .. prefix + copied
        <4>1. i \in 1 .. count /\ start + i \in Int
          BY <1>1, <1>4
        <4> QED
          BY <2>1, <4>1 DEF S
      <3> QED
        BY <1>1, <1>4, <3>1, Part
    <2>3. /\ right \in Seq(S) /\ Len(right) = copied
          /\ \A i \in 1 .. copied : right[i] = disk[position + i]
      BY <1>4, Part DEF S
    <2> HIDE DEF left, right
    <2>4. \A i \in 1 .. copied : left[i] = right[i]
      <3> TAKE i \in 1 .. copied
      <3>1. prefix + i \in 1 .. count /\ start + (prefix + i) = position + i
        BY <1>1, <1>4
      <3> QED
        BY <2>1, <2>2, <2>3, <3>1
    <2>5. left = right
      BY <1>4, <2>2, <2>3, <2>4, SeqEqual
    <2> QED
      BY <2>5 DEF left, right
  <1> QED
    BY <1>3, <1>4, <1>5

(* The arguments of a read that returned something, and what the verifier  *)
(* that appends it may rely on: it gets on, not past the end, and still    *)
(* hands out a prefix of the disk.                                         *)
Returned(disk, position, sector, output, count) ==
  /\ disk \in Seq(Nat) /\ position \in Nat /\ position <= Len(disk)
  /\ sector \in Nat \ {0} /\ output \in Nat /\ count \in Nat
  /\ Slice(disk, position, sector, output, count) # <<>>

Continues(disk, position, bytes) ==
  /\ Len(bytes) \in Nat \ {0} /\ position + Len(bytes) <= Len(disk)
  /\ SubSeq(disk, 1, position) \o bytes = SubSeq(disk, 1, position + Len(bytes))

(* A verifier that appends what Slice returns hands out a prefix of the    *)
(* disk.                                                                   *)
THEOREM ReadsOn ==
  ASSUME NEW disk, NEW position, NEW sector, NEW output, NEW count,
         Returned(disk, position, sector, output, count)
  PROVE  Continues(disk, position, Slice(disk, position, sector, output, count))
  <1> USE DEF Returned
  <1> DEFINE bytes == Slice(disk, position, sector, output, count)
  <1>1. PICK copied \in Nat : /\ position + copied <= Len(disk)
                              /\ bytes = SubSeq(disk, position + 1, position + copied)
    BY SliceIsExact
  <1> HIDE DEF bytes
  <1>2. Len(bytes) = copied /\ bytes \in Seq(Nat)
    <2>1. \A i \in position + 1 .. position + copied : disk[i] \in Nat
      BY <1>1
    <2> QED
      BY <1>1, <2>1, Part
  <1>3. SubSeq(disk, 1, position) \o SubSeq(disk, position + 1, position + copied)
          = SubSeq(disk, 1, position + copied)
    <2>1. /\ 1 \in 1 .. Len(disk) + 1 /\ position \in 1 - 1 .. Len(disk)
          /\ position + copied \in position .. Len(disk)
      BY <1>1
    <2> QED
      BY <2>1, ConcatAdjacentSubSeq
  <1>4. /\ Len(bytes) \in Nat /\ position + Len(bytes) <= Len(disk)
        /\ position + Len(bytes) = position + copied /\ Len(bytes) # 0
    <2>1. bytes # <<>>
      BY DEF bytes
    <2> QED
      BY <1>1, <1>2, <2>1, EmptySeq
  <1>5. Continues(disk, position, bytes)
    <2>1. Len(bytes) \in Nat \ {0}
      BY <1>4
    <2> QED
      BY <1>1, <1>3, <1>4, <2>1, Zenon DEF Continues
  <1> QED
    BY <1>5 DEF bytes
=============================================================================
