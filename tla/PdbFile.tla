------------------------------ MODULE PdbFile -------------------------------
(***************************************************************************)
(* A Palm database as the Kindle splitter handles it                       *)
(* (processor/internal/mobi/utils.go): a table of section addresses in     *)
(* front of the sections' bytes, which every operation copies into a new   *)
(* file with all addresses shifted.  The second half are the operations on *)
(* the EXTH block of a header section, which must keep its two counters    *)
(* and the address of the title behind it.                                 *)
(*                                                                         *)
(* Addresses are those of the code.  Bytes are runs: "len" bytes of the    *)
(* content "of", the first of them being its byte "from".  A slice cut at  *)
(* a wrong address shows as a run that is not a whole content.             *)
(***************************************************************************)
EXTENDS Integers, SequencesExt

FirstRecord == 78       \* firstPdbRecord, where the table of sections begins
EntrySize   == 8        \* an entry: address and id of a section

-----------------------------------------------------------------------------
(* Bytes. *)
Run(c) == IF c.len = 0 THEN <<>> ELSE <<[of |-> c, from |-> 0, len |-> c.len]>>

ByteCount(runs) ==
    LET upTo[n \in 0..Len(runs)] == IF n = 0 THEN 0 ELSE upTo[n - 1] + runs[n].len
    IN  upTo[Len(runs)]

(* runs[a:b]: the bytes from a on, and before b. *)
Slice(runs, a, b) ==
    LET Piece(k) ==
          LET at == ByteCount(SubSeq(runs, 1, k - 1))
              lo == Max({a, at})
              hi == Min({b, at + runs[k].len})
          IN  IF lo < hi THEN <<[runs[k] EXCEPT !.from = @ + lo - at, !.len = hi - lo]>> ELSE <<>>
    IN  FlattenSeq([k \in DOMAIN runs |-> Piece(k)])

-----------------------------------------------------------------------------
(* The file: "seed" at uniqueIDSseed, the table (its length is the number  *)
(* of records in the header), padding, and the bytes of the sections.      *)
BodyStart(pdb) == FirstRecord + EntrySize * Len(pdb.table) + pdb.pad

FileSize(pdb) == BodyStart(pdb) + ByteCount(pdb.body)

Sections(pdb) == 0..(Len(pdb.table) - 1)

Start(pdb, i) == pdb.table[i + 1].ofs

(* Section numbers out of range are a panic in the code; the callers check *)
(* with this.                                                              *)
End(pdb, i) == IF i = Len(pdb.table) - 1 THEN FileSize(pdb) ELSE Start(pdb, i + 1)

Between(pdb, a, b) == Slice(pdb.body, a - BodyStart(pdb), b - BodyStart(pdb))

ReadSection(pdb, i) == Between(pdb, Start(pdb, i), End(pdb, i))

(* A new file with the given table, padded up to the address "zero".       *)
AssembleUnpadded(seed, table, zero, body) == [seed |-> seed, table |-> table, pad |-> 0, body |-> body]

Assemble(seed, table, zero, body) ==
    [seed |-> seed, table |-> table,
     pad |-> Max({0, zero - (FirstRecord + EntrySize * Len(table))}), body |-> body]

ShiftEntries(table, first, last, d) ==
    [k \in 1..(last - first + 1) |-> [table[first + k] EXCEPT !.ofs = @ + d]]

(* The same with new ids, 2 * (number of the section). *)
RenumberEntries(table, first, last, d, by) ==
    [k \in 1..(last - first + 1) |->
        [ofs |-> table[first + k].ofs + d, id |-> 2 * (first + k - 1 + by)]]

NullSection(pdb, i) ==
    LET n == Len(pdb.table)
        dif == End(pdb, i) - Start(pdb, i)
    IN  Assemble(pdb.seed,
                 SubSeq(pdb.table, 1, i + 1) \o ShiftEntries(pdb.table, i + 1, n - 1, -dif),
                 Start(pdb, 0),
                 Between(pdb, Start(pdb, 0), Start(pdb, i)) \o Between(pdb, End(pdb, i), FileSize(pdb)))

WriteSection(pdb, i, runs) ==
    LET n == Len(pdb.table)
        dif == ByteCount(runs) - (End(pdb, i) - Start(pdb, i))
    IN  Assemble(2 * n + 1,
                 SubSeq(pdb.table, 1, i) \o <<[ofs |-> Start(pdb, i), id |-> 2 * i]>>
                   \o ShiftEntries(pdb.table, i + 1, n - 1, dif),
                 Start(pdb, 0),
                 Between(pdb, Start(pdb, 0), Start(pdb, i)) \o runs
                   \o Between(pdb, End(pdb, i), FileSize(pdb)))

DeleteRange(pdb, first, last) ==
    LET n == Len(pdb.table)
        ndel == last - first + 1
        dif == End(pdb, last) - Start(pdb, first) + EntrySize * ndel
    IN  Assemble(2 * (n - ndel) + 1,
                 ShiftEntries(pdb.table, 0, first - 1, -(EntrySize * ndel))
                   \o RenumberEntries(pdb.table, last + 1, n - 1, -dif, -ndel),
                 Start(pdb, 0) - EntrySize * ndel,
                 Between(pdb, Start(pdb, 0), Start(pdb, first))
                   \o Between(pdb, End(pdb, last), FileSize(pdb)))

(* Sections first..last of src go before section "target" of dst. *)
InsertRangeOverlapping(src, first, last, dst, target) ==
    LET n == Len(dst.table)
        nins == last - first + 1
        table8 == EntrySize * nins
    IN  Assemble(2 * (n + nins) + 1,
                 ShiftEntries(dst.table, 0, target - 1, table8)
                   \o RenumberEntries(src.table, first, last,
                                     Start(dst, target) - Start(src, first) + table8, target - first)
                   \o RenumberEntries(dst.table, target, n - 1, table8, nins),
                 Start(dst, 0) + table8,
                 Between(dst, Start(dst, 0), Start(dst, target))
                   \o Between(src, Start(src, first), End(src, last))
                   \o Between(dst, Start(dst, target), FileSize(dst)))

InsertRange(src, first, last, dst, target) ==
    LET n == Len(dst.table)
        nins == last - first + 1
        table8 == EntrySize * nins
        move == Start(dst, target) - Start(src, first) + table8
        dif == End(src, last) - Start(src, first)
    IN  Assemble(2 * (n + nins) + 1,
                 ShiftEntries(dst.table, 0, target - 1, table8)
                   \o RenumberEntries(src.table, first, last, move, target - first)
                   \o RenumberEntries(dst.table, target, n - 1, dif + table8, nins),
                 Start(dst, 0) + table8,
                 Between(dst, Start(dst, 0), Start(dst, target))
                   \o Between(src, Start(src, first), End(src, last))
                   \o Between(dst, Start(dst, target), FileSize(dst)))

-----------------------------------------------------------------------------
(* The EXTH block of a header section.  "elen" and "enum" are the counters *)
(* in the block, "title" is the address of the title, which follows the    *)
(* block; the code walks over the records with "enum".                     *)
ExthHead == 12          \* the word EXTH and the two counters
RecHead  == 8           \* number and length of a record

Rec(num, val, len) == [num |-> num, val |-> val, len |-> RecHead + len]

Walked(head) == SubSeq(head.exth, 1, Min({head.enum, Len(head.exth)}))

Having(recs, num) == FlattenSeq([i \in DOMAIN recs |-> IF recs[i].num = num THEN <<recs[i]>> ELSE <<>>])

ReadExth(head, num) == Having(Walked(head), num)

FirstExth(head, num) == SelectInSeq(Walked(head), LAMBDA x: x.num = num)

GrowCountersOnly(head, d) == [head EXCEPT !.elen = @ + d, !.len = @ + d]

Grow(head, d) == [head EXCEPT !.elen = @ + d, !.title = @ + d, !.len = @ + d]

AddExth(head, num, val, len) ==
    [Grow(head, RecHead + len) EXCEPT
        !.exth = <<Rec(num, val, len)>> \o @, !.enum = @ + 1]

WriteExth(head, num, val, len) ==
    LET i == FirstExth(head, num)
    IN  IF i = 0 THEN head
        ELSE [Grow(head, RecHead + len - head.exth[i].len) EXCEPT
                 !.exth[i] = Rec(num, val, len)]

DelLastExth(head, num) ==
    LET i == SelectLastInSeq(Walked(head), LAMBDA x: x.num = num)
    IN  IF i = 0 THEN head
        ELSE [Grow(head, -head.exth[i].len) EXCEPT
                 !.exth = RemoveAt(@, i), !.enum = @ - 1]

DelExth(head, num) ==
    LET i == FirstExth(head, num)
    IN  IF i = 0 THEN head
        ELSE [Grow(head, -head.exth[i].len) EXCEPT
                 !.exth = RemoveAt(@, i), !.enum = @ - 1]
=============================================================================
