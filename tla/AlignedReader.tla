----------------------------- MODULE AlignedReader -----------------------------
(***************************************************************************)
(* The read of DirectVerifier (Linux) and UnbufferedVerifier (Windows):    *)
(* whole sectors are transferred into an aligned buffer and a slice of     *)
(* them is handed out.                                                     *)
(***************************************************************************)
EXTENDS Integers, Sequences

Least(a, b) == IF a < b THEN a ELSE b

Available(position, capacity, output) == Least(capacity - position, output)

AlignedStart(position, sector) == position - (position % sector)

(* How many bytes are asked of the device. *)
AlignedLength(position, capacity, sector, output) ==
  LET needed == (position % sector) + Available(position, capacity, output)
  IN  ((needed + sector - 1) \div sector) * sector

Slice_NoPrefix(disk, position, sector, output, count) ==
  LET start  == AlignedStart(position, sector)
      copied == Least(Available(position, Len(disk), output), count)
  IN  IF count % sector # 0 THEN <<>> ELSE SubSeq(disk, start + 1, start + copied)

(* What is handed out when the device returned count bytes; nothing when   *)
(* they are no whole sectors, or end before the position.                  *)
Slice(disk, position, sector, output, count) ==
  LET start  == AlignedStart(position, sector)
      prefix == position - start
      buffer == SubSeq(disk, start + 1, start + count)
      copied == Least(Available(position, Len(disk), output), count - prefix)
  IN  IF count % sector # 0 \/ count <= prefix
        THEN <<>>
        ELSE SubSeq(buffer, prefix + 1, prefix + copied)
=============================================================================
