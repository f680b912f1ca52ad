--------------------------- MODULE ReceiverBitmaps ---------------------------
(***************************************************************************)
(* The bitmaps of the receiver-blocks index: which heights of a day touch  *)
(* an account.  The core Indexer writes them, run-length and Elias gamma   *)
(* coded, one index at a time; the Block Streamer decodes and merges them. *)
(* A compressed bitmap is a sequence of bits that fills its bytes; what it *)
(* decodes to is the set of the indices, from 0, of its ones.              *)
(***************************************************************************)
EXTENDS Integers, SequencesExt

CONSTANT MaxIndex  \* of the days CodesExactly looks at

ASSUME ReceiverBitmapsAssumption == MaxIndex \in Nat

Byte == 8

Zeros(n) == [k \in 1 .. n |-> 0]
RoundUp(n) == ((n + Byte - 1) \div Byte) * Byte
Padded(bits) == bits \o Zeros(RoundUp(Len(bits)) - Len(bits))

(* Bits are counted from 0; one outside of the bytes cannot be asked for.  *)
GetBit(bits, k) == bits[k + 1] = 1
Ones(bits) == {k \in 0 .. Len(bits) - 1 : GetBit(bits, k)}

(* Bytes of zeros are pushed until there is a bit `last`. *)
Reaching(bits, last) == Max({Len(bits), RoundUp(last + 1)})
SetBits(bits, last, ones) ==
  [k \in 1 .. Reaching(bits, last) |->
     IF k - 1 \in ones THEN 1 ELSE IF k <= Len(bits) THEN bits[k] ELSE 0]

Power[n \in Nat] == IF n = 0 THEN 1 ELSE 2 * Power[n - 1]

(* writeEliasGammaBits: N zeros, a one, the N bits of the remainder. *)
Log2(x) == CHOOSE n \in 0 .. x : Power[n] <= x /\ x < Power[n + 1]
EliasGamma(x) ==
  LET N == Log2(x)
  IN IF x = 0 THEN <<>>
     ELSE Append(Zeros(N), 1) \o [k \in 1 .. N |-> (x \div Power[N - k]) % 2]

-----------------------------------------------------------------------------
(***************************************************************************)
(* Decoding.                                                               *)
(***************************************************************************)
ReadIntegerFromBinary(bits, first, last) ==
  LET number[k \in Nat] ==
        IF k = 0 THEN 0
        ELSE 2 * number[k - 1]
               + (IF GetBit(bits, first + k - 1) THEN 1 ELSE 0)
  IN number[last - first + 1]

SetBitsFrom(bits, start) == {k \in Ones(bits) : k >= start}

(* No entry is left when only padding is: the default is returned. *)
NoEntry == [value |-> 0, last |-> 0]
DecodeEliasGammaEntry(bits, start) ==
  LET first == Min(SetBitsFrom(bits, start))
      N == first - start
  IN IF SetBitsFrom(bits, start) = {} THEN NoEntry
     ELSE [value |-> Power[N]
                       + ReadIntegerFromBinary(bits, first + 1, first + N),
           last |-> first + N]

(* One turn of the loop: the run of `bit` that is coded at `at`, with its  *)
(* first index, is added to `done`.                                        *)
DecodeRun(bits, s) ==
  LET entry == DecodeEliasGammaEntry(bits, s.at)
      next == s.index + entry.value
  IN IF s.at >= Len(bits) \/ entry.value = 0 THEN s
     ELSE [at |-> entry.last + 1, bit |-> 1 - s.bit, index |-> next,
           done |-> IF s.bit = 1
                    THEN SetBits(s.done, next - 1, s.index .. next - 1)
                    ELSE s.done]

(* The loop; an entry has a bit at least. *)
Decoding(bits) ==
  LET runs[n \in Nat] ==
        IF n = 0 THEN [at |-> 1, bit |-> bits[1], index |-> 0, done |-> <<>>]
        ELSE DecodeRun(bits, runs[n - 1])
  IN runs

Decompressed(bits) == Decoding(bits)[Len(bits)].done

(* decompressToBitmapArray, and what decompress yields. *)
Decompress(bits) == IF bits = <<>> THEN {} ELSE Ones(Decompressed(bits))

(* A bitmap and the height of its first bit; the later one is aligned with *)
(* the earlier one and its ones are copied.                                *)
First(one, other) == IF other.start < one.start THEN other ELSE one
Second(one, other) == IF other.start < one.start THEN one ELSE other

(* Slip: the zeros are copied as well. *)
MergeWritingZeros(one, other) ==
  LET first == First(one, other)
      second == Second(one, other)
      shift == second.start - first.start
  IN [first EXCEPT !.bits =
        [k \in 1 .. Reaching(@, shift + Len(second.bits) - 1) |->
           IF k - shift \in DOMAIN second.bits THEN second.bits[k - shift]
           ELSE IF k <= Len(@) THEN @[k] ELSE 0]]

(* Slip: the later one is not aligned. *)
MergeUnaligned(one, other) ==
  LET second == Second(one, other)
  IN [First(one, other) EXCEPT !.bits =
        SetBits(@, Len(second.bits) - 1, Ones(second.bits))]

Merge(one, other) ==
  LET first == First(one, other)
      second == Second(one, other)
      shift == second.start - first.start
  IN [first EXCEPT !.bits =
        SetBits(@, shift + Len(second.bits) - 1,
                {shift + k : k \in Ones(second.bits)})]

MergeAll(bitmap, others) ==
  LET merged[n \in 0 .. Len(others)] ==
        IF n = 0 THEN bitmap ELSE Merge(merged[n - 1], others[n])
  IN merged[Len(others)]

HeightsOf(bitmap) == {bitmap.start + k : k \in Ones(bitmap.bits)}

-----------------------------------------------------------------------------
(***************************************************************************)
(* Encoding: the bits, where the last run of ones is coded, the last one.  *)
(***************************************************************************)
NoRow == [bits |-> <<>>, lastStart |-> -1, maxIndex |-> -1]

(* The run that ends before the bit `at` is written. *)
Flushed(s, at) ==
  [s EXCEPT !.bits = @ \o EliasGamma(s.stretch),
            !.lastStart = IF s.bit = 1 THEN Len(s.bits) ELSE @,
            !.maxIndex = IF s.bit = 1 THEN at - 1 ELSE @]

ReadBit(s, at, bit) ==
  IF bit = s.bit THEN [s EXCEPT !.stretch = @ + 1]
  ELSE [Flushed(s, at) EXCEPT !.bit = bit, !.stretch = 1]

Bit(ones, k) == IF k \in ones THEN 1 ELSE 0

Encoding(ones) ==
  LET read[n \in Nat] ==
        IF n = 0 THEN [bits |-> <<Bit(ones, 0)>>, bit |-> Bit(ones, 0),
                       stretch |-> 0, lastStart |-> 1, maxIndex |-> 0]
        ELSE ReadBit(read[n - 1], n - 1, Bit(ones, n - 1))
  IN read

(* compressBitmapArray *)
Compress(ones) ==
  LET length == RoundUp(Max(ones) + 1)
      read == Encoding(ones)[length]
      end == IF read.bit = 1 THEN Flushed(read, length) ELSE read
  IN [bits |-> Padded(end.bits), lastStart |-> end.lastStart,
      maxIndex |-> end.maxIndex]

(* A negative index sets a bit outside of the array: nothing. *)
AddIndexCompressedFull(row, index) ==
  Compress(Decompress(row.bits) \cup ({index} \cap Nat))

(* Slip: after a gap the old start of the last run is kept. *)
AddIndexKeepingStart(row, index) ==
  LET entry == DecodeEliasGammaEntry(row.bits, row.lastStart)
      gap == index - row.maxIndex - 1
      zeros == EliasGamma(gap)
  IN IF gap = 0
     THEN [bits |-> Padded(SubSeq(row.bits, 1, row.lastStart)
                             \o EliasGamma(entry.value + 1)),
           lastStart |-> row.lastStart, maxIndex |-> index]
     ELSE [bits |-> Padded(SubSeq(row.bits, 1, entry.last + 1) \o zeros \o <<1>>),
           lastStart |-> row.lastStart, maxIndex |-> index]

(* The last run of ones is made longer, or zeros and a new run follow it. *)
AddIndexCompressedLast(row, index) ==
  LET entry == DecodeEliasGammaEntry(row.bits, row.lastStart)
      gap == index - row.maxIndex - 1
      zeros == EliasGamma(gap)
  IN IF gap = 0
     THEN [bits |-> Padded(SubSeq(row.bits, 1, row.lastStart)
                             \o EliasGamma(entry.value + 1)),
           lastStart |-> row.lastStart, maxIndex |-> index]
     ELSE [bits |-> Padded(SubSeq(row.bits, 1, entry.last + 1)
                             \o zeros \o EliasGamma(1)),
           lastStart |-> entry.last + 1 + Len(zeros), maxIndex |-> index]

AddIndexCompressed(row, index) ==
  IF row.maxIndex < 0 \/ index <= row.maxIndex
  THEN AddIndexCompressedFull(row, index)
  ELSE AddIndexCompressedLast(row, index)

-----------------------------------------------------------------------------
(* Over every day: rows that are extended in place, from their last run,   *)
(* decode to the indices added, and are bit by bit what coding the whole   *)
(* bitmap gives.  Adding the blocks from any of them on again, as after a  *)
(* restart, changes nothing.                                               *)
CodesExactly ==
  LET Extended(row, ones) ==
        FoldLeft(AddIndexCompressed, row,
                 SelectSeq([k \in 1 .. MaxIndex + 1 |-> k - 1],
                           LAMBDA index : index \in ones))
  IN \A later \in SUBSET (1 .. MaxIndex) :
       LET ones == later \cup {0}
           row == Extended(NoRow, ones)
       IN /\ Decompress(row.bits) = ones
          /\ row = Compress(ones)
          /\ \A k \in ones : Extended(row, {i \in ones : i >= k}) = row
=============================================================================
