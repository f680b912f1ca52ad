--------------------------- MODULE ReceiverBlocks ---------------------------
(***************************************************************************)
(* The receiver-blocks index over its life: the core Indexer keeps one     *)
(* bitmap per account and day, and the block stream decodes and merges the *)
(* bitmaps of a day.  Everything else is Backfill's.                       *)
(***************************************************************************)
EXTENDS Backfill, ReceiverBitmaps

VARIABLE rows  \* the bitmaps table

rowsVars == <<backfillVars, rows>>

Days == 0 .. Day[Tip]

-----------------------------------------------------------------------------
(* A bitmap whose bits are counted from the height `first`. *)
Row(first, code) ==
  [first |-> first, bits |-> code.bits, lastStart |-> code.lastStart,
   maxIndex |-> code.maxIndex]

(* Slip: indices are counted from 1 after the first. *)
UpdatedOneOff(row, h) ==
  IF row.bits = <<>> THEN Row(h, AddIndexCompressed(NoRow, 0))
  ELSE Row(row.first, AddIndexCompressed(row, h - row.first + 1))

(* The row of an account after the block h. *)
Updated(row, h) ==
  IF row.bits = <<>> THEN Row(h, AddIndexCompressed(NoRow, 0))
  ELSE Row(row.first, AddIndexCompressed(row, h - row.first))

(* The core Indexer executes the next block: one upsert of all its rows. *)
Index ==
  LET h == indexed + 1 IN
  /\ ExecuteNext
  /\ rows' = [r \in Receivers |->
                [rows[r] EXCEPT ![Day[h]] =
                   IF <<r, h>> \in touched THEN Updated(@, h) ELSE @]]

-----------------------------------------------------------------------------
(* The rows of a day with one of the accounts, all pages of them at once.  *)
QueryBase64Bitmaps(day) ==
  {rows[r][day] : r \in {r \in Receivers : rows[r][day].bits # <<>>}}

Bitmap(row) == [start |-> row.first, bits |-> Decompressed(row.bits)]
EmptyBitmap(start) == [start |-> start, bits |-> <<>>]

(* They are decoded and merged, into an empty bitmap that starts where the *)
(* earliest does.                                                          *)
Merged(day) ==
  LET bitmaps == {Bitmap(row) : row \in QueryBase64Bitmaps(day)}
  IN IF bitmaps = {} THEN {}
     ELSE HeightsOf(MergeAll(EmptyBitmap(Min({b.start : b \in bitmaps})),
                             SetToSeq(bitmaps)))

QueryDay == ReadDay(Merged(stream.day)) /\ UNCHANGED rows

RowsInit ==
  /\ BackfillInit
  /\ rows = [r \in Receivers |-> [d \in Days |-> Row(0, NoRow)]]

RowsNext ==
  \/ Index \/ QueryDay
  \/ /\ \/ Produce \/ Restart
        \/ StartStream \/ Probe \/ RequestFails \/ Yield
     /\ UNCHANGED rows

RowsSpec == RowsInit /\ [][RowsNext]_rowsVars

-----------------------------------------------------------------------------
RowsTypeOK ==
  \A r \in Receivers, d \in Days :
    /\ Len(rows[r][d].bits) % Byte = 0
    /\ rows[r][d].lastStart \in -1 .. Len(rows[r][d].bits) - 1
    /\ rows[r][d].maxIndex \in -1 .. Tip - 1

(* "Sets bit at bitIndex": whatever order blocks are executed in, the Rust *)
(* decoder finds in a row exactly the heights of that day whose block the  *)
(* core Indexer has executed and that touch the account.                   *)
DecodesExactly ==
  \A r \in Receivers, d \in Days :
    {rows[r][d].first + k : k \in Decompress(rows[r][d].bits)} =
      {h \in executed : <<r, h>> \in touched /\ Day[h] = d}

(* What holds of the rows in every state: they fill their bytes, and       *)
(* decode to what was executed.                                            *)
RowsInv == RowsTypeOK /\ DecodesExactly

(* Coded in place, decoded by another program and merged across accounts,  *)
(* the rows of a day list what Backfill says, whenever they are read.      *)
ImplementsBackfill == BackfillSpec
=============================================================================
