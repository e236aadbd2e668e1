------------------------------ MODULE Q38Pack -------------------------------
(***************************************************************************)
(* The Q38PACK container: how the converter lays a GGUF model out          *)
(* (tools/gguf_to_q38pack.py, convert), what the two readers require of a  *)
(* file (src/q38pack.cpp, PackFile::parse; tools/q38pack_format.py,        *)
(* PackReader.open) and what a tensor of a file holds.                     *)
(*                                                                         *)
(* A file is a sequence of cells; a header and a directory entry are one   *)
(* cell each, and sizes are scaled down with their proportions to the      *)
(* alignments kept: planes are not multiples of the plane alignment.  A    *)
(* Q5_K block is 4 cells of the source, [scales, qh, qs, qs], and goes to  *)
(* three planes; unpacking the scales rewrites a cell without losing it.   *)
(***************************************************************************)
EXTENDS Integers, Sequences, SequencesExt

CONSTANTS
  Alignment,       \* --alignment
  PlaneAlignment,  \* 128
  MetaAlignment,   \* 64
  ChunkBlocks      \* chunk_blocks of repack_q5_sm86

ASSUME UnitsAssumption ==
  {Alignment, PlaneAlignment, MetaAlignment, ChunkBlocks} \subseteq Nat \ {0}

HeaderCells == 1
EntryCells  == 1
MetaCells   == 1   \* SM86_META_BYTES
QhCells     == 1   \* SM86_QH_BYTES
QsCells     == 2   \* SM86_QS_BYTES
BlockCells  == MetaCells + QhCells + QsCells

Versions == {1, 2}

(* A source: tensors in directory order [type, blocks, offset], the size   *)
(* of its data area, and of the metadata in front of it, which starts with *)
(* the magic number.                                                       *)
GgufTensors == [type : STRING, blocks : Nat, offset : Nat]
GgufModels ==
  [name : STRING, meta : Nat \ {0}, bytes : Nat, tensors : Seq(GgufTensors)]

Tensors(s) == DOMAIN s.tensors

AlignUp(x, a) == ((x + a - 1) \div a) * a

Max2(a, b) == IF a < b THEN b ELSE a

-----------------------------------------------------------------------------
(* parse_gguf: a tensor owns the span up to the next one, in the order of  *)
(* offsets that a stable sort gives.                                       *)
Precedes(s, j, k) ==
  \/ s.tensors[j].offset < s.tensors[k].offset
  \/ s.tensors[j].offset = s.tensors[k].offset /\ j < k

StoredBytes(s, k) ==
  LET later == {j \in Tensors(s) : Precedes(s, k, j)}
      next  == IF later = {} THEN s.bytes
               ELSE LET n == CHOOSE j \in later :
                               \A l \in later \ {j} : Precedes(s, j, l)
                    IN  s.tensors[n].offset
  IN  next - s.tensors[k].offset

Repacked(s, v, k) == v >= 2 /\ s.tensors[k].type = "Q5_K"

(* parse_gguf and q5_block_count refuse the source before a file is made.  *)
Convertible(s, v) ==
  /\ \A k \in Tensors(s) : s.tensors[k].offset <= s.bytes
  /\ \A k \in Tensors(s) :
       Repacked(s, v, k) =>
         s.tensors[k].blocks * BlockCells <= StoredBytes(s, k)

QhOffset(start, blocks) ==
  AlignUp(start + blocks * MetaCells, PlaneAlignment)

QsOffset(start, blocks) ==
  AlignUp(QhOffset(start, blocks) + blocks * QhCells, PlaneAlignment)

PlanesEnd(start, blocks) == QsOffset(start, blocks) + blocks * QsCells

DirectoryOffset    == HeaderCells
ManifestOffset(s)  ==
  AlignUp(DirectoryOffset + Len(s.tensors) * EntryCells, MetaAlignment)
RawMetaOffset(s)   == AlignUp(ManifestOffset(s) + 1, MetaAlignment)
DataOffset(s)      == AlignUp(RawMetaOffset(s) + s.meta, Alignment)

(* The cursor after the first k tensors.                                   *)
Cursors(s, v) ==
  LET end[k \in 0 .. Len(s.tensors)] ==
        IF k = 0 THEN DataOffset(s)
        ELSE LET start == AlignUp(end[k - 1], Alignment)
             IN  IF Repacked(s, v, k)
                 THEN PlanesEnd(start, s.tensors[k].blocks)
                 ELSE start + StoredBytes(s, k)
  IN  end

DataEnd(s, v) == Cursors(s, v)[Len(s.tensors)]

Entry(s, v, k) ==
  LET start == AlignUp(Cursors(s, v)[k - 1], Alignment)
      n     == s.tensors[k].blocks
  IN  [data_offset  |-> start,
       stored_bytes |-> Cursors(s, v)[k] - start,
       layout       |-> IF Repacked(s, v, k) THEN "sm86" ELSE "native",
       aux0_offset  |-> IF Repacked(s, v, k) THEN QhOffset(start, n) ELSE 0,
       aux1_offset  |-> IF Repacked(s, v, k) THEN QsOffset(start, n) ELSE 0]

Header(s, v) ==
  [version          |-> v,
   tensor_count     |-> Len(s.tensors),
   directory_offset |-> DirectoryOffset,
   manifest_offset  |-> ManifestOffset(s),
   raw_meta_offset  |-> RawMetaOffset(s),
   raw_meta_bytes   |-> s.meta,
   data_offset      |-> DataOffset(s),
   data_bytes       |-> DataEnd(s, v) - DataOffset(s)]

-----------------------------------------------------------------------------
(* Cells, and a write at an offset: a hole reads as zero, and writing      *)
(* nothing does not extend the file.                                       *)
Zero == <<"zero", 0>>
SourceCell(s, o) == <<"data", [model |-> s.name, at |-> o]>>

Write(f, at, cells) ==
  IF cells = << >> THEN f
  ELSE [n \in 1 .. Max2(Len(f), at + Len(cells)) |->
          IF n > at /\ n <= at + Len(cells) THEN cells[n - at]
          ELSE IF n <= Len(f) THEN f[n] ELSE Zero]

(* The planes of the blocks from..to of tensor k, as the chunk loop writes *)
(* them.                                                                   *)
Plane(s, k, from, to, first, width) ==
  [n \in 1 .. (to - from) * width |->
     SourceCell(s, s.tensors[k].offset
                     + (from + ((n - 1) \div width)) * BlockCells
                     + first + ((n - 1) % width))]

(* Mutant: every chunk of the qh plane is written where the first one is.  *)
ChunkWrites_SamePlace(s, e, k, from) ==
  LET blocks == s.tensors[k].blocks
      to     == IF from + ChunkBlocks < blocks THEN from + ChunkBlocks
                ELSE blocks
  IN  <<[at |-> e.data_offset + from * MetaCells,
         cells |-> Plane(s, k, from, to, 0, MetaCells)],
        [at |-> e.aux0_offset,
         cells |-> Plane(s, k, from, to, MetaCells, QhCells)],
        [at |-> e.aux1_offset + from * QsCells,
         cells |-> Plane(s, k, from, to, MetaCells + QhCells, QsCells)]>>

ChunkWrites(s, e, k, from) ==
  LET blocks == s.tensors[k].blocks
      to     == IF from + ChunkBlocks < blocks THEN from + ChunkBlocks
                ELSE blocks
  IN  <<[at |-> e.data_offset + from * MetaCells,
         cells |-> Plane(s, k, from, to, 0, MetaCells)],
        [at |-> e.aux0_offset + from * QhCells,
         cells |-> Plane(s, k, from, to, MetaCells, QhCells)],
        [at |-> e.aux1_offset + from * QsCells,
         cells |-> Plane(s, k, from, to, MetaCells + QhCells, QsCells)]>>

TensorWrites(s, v, k) ==
  LET e == Entry(s, v, k)
      chunks == (s.tensors[k].blocks + ChunkBlocks - 1) \div ChunkBlocks
  IN  IF Repacked(s, v, k)
      THEN FlattenSeq([c \in 1 .. chunks |->
                         ChunkWrites(s, e, k, (c - 1) * ChunkBlocks)])
      ELSE <<[at |-> e.data_offset,
              cells |-> [n \in 1 .. StoredBytes(s, k) |->
                           SourceCell(s, s.tensors[k].offset + n - 1)]]>>

(* The writes of convert() in order: a blank header, the directory, the    *)
(* manifest, the metadata, the tensors, the padding to the end of the data *)
(* from wherever the last write left the file, and the header.             *)
Writes(s, v) ==
  LET front == <<[at |-> 0, cells |-> <<Zero>>],
                 [at |-> DirectoryOffset,
                  cells |-> [k \in Tensors(s) |-> <<"entry", Entry(s, v, k)>>]],
                 [at |-> ManifestOffset(s), cells |-> << <<"manifest", 0>> >>],
                 [at |-> RawMetaOffset(s),
                  cells |-> [n \in 1 .. s.meta |-> <<"meta", n>>]]>>
      all   == front \o FlattenSeq([k \in Tensors(s) |-> TensorWrites(s, v, k)])
      here  == all[Len(all)].at + Len(all[Len(all)].cells)
  IN  all \o <<[at |-> here,
                cells |-> [n \in 1 .. DataEnd(s, v) - here |-> Zero]],
               [at |-> 0, cells |-> << <<"header", Header(s, v)>> >>]>>

-----------------------------------------------------------------------------
(* The readers.                                                            *)
HasHeader(f) == f # << >> /\ f[1][1] = "header"
HeaderOf(f)  == f[1][2]
EntryCell(f, k) == f[HeaderOf(f).directory_offset + k]

InRange(off, len, size) == off <= size /\ len <= size - off

RegionsInRange(f) ==
  LET h == HeaderOf(f) IN
    /\ InRange(h.directory_offset, h.tensor_count * EntryCells, Len(f))
    /\ InRange(h.manifest_offset, 1, Len(f))
    /\ InRange(h.raw_meta_offset, h.raw_meta_bytes, Len(f))
    /\ InRange(h.data_offset, h.data_bytes, Len(f))

PlanesInside(e) ==
  /\ e.data_offset <= e.aux0_offset
  /\ e.aux0_offset <= e.aux1_offset
  /\ e.aux1_offset < e.data_offset + e.stored_bytes

(* PackFile::parse.                                                        *)
PackFileAccepts(f) ==
  /\ HasHeader(f) /\ HeaderOf(f).version \in Versions
  /\ RegionsInRange(f)
  /\ \A k \in 1 .. HeaderOf(f).tensor_count :
       /\ EntryCell(f, k)[1] = "entry"
       /\ LET e == EntryCell(f, k)[2] IN
            /\ InRange(e.data_offset, e.stored_bytes, Len(f))
            /\ e.data_offset >= HeaderOf(f).data_offset
            /\ e.layout = "sm86" => PlanesInside(e)
            /\ e.layout \in {"native", "sm86"}

(* PackReader.open: no lower bound on a tensor, and any layout number.     *)
PackReaderAccepts(f) ==
  /\ HasHeader(f) /\ HeaderOf(f).version \in Versions
  /\ RegionsInRange(f)
  /\ \A k \in 1 .. HeaderOf(f).tensor_count :
       /\ EntryCell(f, k)[1] = "entry"
       /\ LET e == EntryCell(f, k)[2] IN
            /\ e.data_offset + e.stored_bytes <= Len(f)
            /\ e.layout = "sm86" => PlanesInside(e)

-----------------------------------------------------------------------------
(* What a user of the file wants: tensor k of it is tensor k of the model, *)
(* block for block when it was repacked, at an aligned offset.             *)
HoldsTensor(f, s, k) ==
  LET e == EntryCell(f, k)[2]
      t == s.tensors[k]
  IN  /\ e.data_offset % Alignment = 0
      /\ IF e.layout = "native"
         THEN /\ e.stored_bytes = StoredBytes(s, k)
              /\ \A n \in 0 .. e.stored_bytes - 1 :
                   f[e.data_offset + n + 1] = SourceCell(s, t.offset + n)
         ELSE /\ e.aux0_offset % PlaneAlignment = 0
              /\ e.aux1_offset % PlaneAlignment = 0
              /\ \A b \in 0 .. t.blocks - 1 :
                   LET o == t.offset + b * BlockCells IN
                     /\ f[e.data_offset + b * MetaCells + 1] = SourceCell(s, o)
                     /\ f[e.aux0_offset + b * QhCells + 1]
                          = SourceCell(s, o + 1)
                     /\ f[e.aux1_offset + b * QsCells + 1]
                          = SourceCell(s, o + 2)
                     /\ f[e.aux1_offset + b * QsCells + 2]
                          = SourceCell(s, o + 3)

Decodes(f, s) ==
  /\ PackFileAccepts(f)
  /\ HeaderOf(f).tensor_count = Len(s.tensors)
  /\ \A k \in Tensors(s) : HoldsTensor(f, s, k)

(* No tensor of the model is empty; GGUF files have none.                  *)
NoEmptyTensor(s) ==
  \A k \in Tensors(s) :
    /\ StoredBytes(s, k) > 0
    /\ s.tensors[k].type = "Q5_K" => s.tensors[k].blocks > 0
=============================================================================
