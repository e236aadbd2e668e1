----------------------------- MODULE Placement ------------------------------
(***************************************************************************)
(* PlacementPlan::build (src/placement.cpp): tensors are packed one after  *)
(* the other at 256-byte boundaries of a reserved address range that is    *)
(* rounded up to whole GPU pages.                                          *)
(*                                                                         *)
(* Offsets are words of Bits bits.  align_up refuses to overflow; the      *)
(* addition of a tensor's size to the cursor does not look.                *)
(***************************************************************************)
EXTENDS Integers, Sequences

CONSTANTS
  Sizes,       \* the stored_bytes a tensor may have
  PageSizes,   \* the page sizes a caller may ask for
  MaxTensors,  \* bound on the tensors of a pack
  Bits         \* 64 in the code

Word == 2 ^ Bits

ASSUME WordAssumption == Bits \in Nat /\ Word \in Nat /\ Word > 256
ASSUME SizesAssumption == Sizes \subseteq 0 .. Word - 1
ASSUME PagesAssumption == PageSizes \subseteq 0 .. Word - 1
ASSUME TensorsAssumption == MaxTensors \in Nat

TensorAlignment == 256

VARIABLES
  sizes,    \* stored_bytes of the pack's tensors
  page,     \* gpu_page_bytes
  pc,
  cursor,
  placed,   \* va_offset of the tensors placed so far
  payload,  \* stats_.tensor_payload_bytes
  reserved, padding, pages,  \* the other fields of stats_
  wrapped   \* the cursor has passed the end of the word

planVars ==
  <<sizes, page, pc, cursor, placed, payload, reserved, padding, pages, wrapped>>

PowerOfTwo(n) == n # 0 /\ \E e \in 0 .. Bits - 1 : n = 2 ^ e

Overflows(value, alignment) == value > Word - 1 - (alignment - 1)

(* Mutant: rounds down.                                                    *)
AlignUp_Down(value, alignment) == (value \div alignment) * alignment

AlignUp(value, alignment) ==
  ((value + alignment - 1) \div alignment) * alignment

PlanInit ==
  /\ \E n \in 0 .. MaxTensors : sizes \in [1 .. n -> Sizes]
  /\ page \in PageSizes
  /\ pc = "check"
  /\ cursor = 0 /\ placed = << >> /\ payload = 0
  /\ reserved = 0 /\ padding = 0 /\ pages = 0
  /\ wrapped = FALSE

CheckPage ==
  /\ pc = "check"
  /\ pc' = IF PowerOfTwo(page) THEN "place" ELSE "threw"
  /\ UNCHANGED <<sizes, page, cursor, placed, payload, reserved, padding,
                 pages, wrapped>>

(* One tensor.                                                             *)
Place ==
  /\ pc = "place" /\ Len(placed) < Len(sizes)
  /\ ~Overflows(cursor, TensorAlignment)
  /\ LET start == AlignUp(cursor, TensorAlignment)
         size  == sizes[Len(placed) + 1]
     IN  /\ placed' = Append(placed, start)
         /\ payload' = (payload + size) % Word
         /\ cursor' = (start + size) % Word
         /\ wrapped' = (wrapped \/ start + size >= Word)
  /\ UNCHANGED <<sizes, page, pc, reserved, padding, pages>>

(* Mutant: the reservation is not rounded up to pages.                     *)
Finish_NotRounded ==
  /\ pc = "place" /\ Len(placed) = Len(sizes)
  /\ ~Overflows(cursor, page)
  /\ reserved' = cursor
  /\ padding' = IF reserved' >= payload THEN reserved' - payload ELSE 0
  /\ pages' = reserved' \div page
  /\ pc' = "done"
  /\ UNCHANGED <<sizes, page, cursor, placed, payload, wrapped>>

Finish ==
  /\ pc = "place" /\ Len(placed) = Len(sizes)
  /\ ~Overflows(cursor, page)
  /\ reserved' = AlignUp(cursor, page)
  /\ padding' = IF reserved' >= payload THEN reserved' - payload ELSE 0
  /\ pages' = reserved' \div page
  /\ pc' = "done"
  /\ UNCHANGED <<sizes, page, cursor, placed, payload, wrapped>>

(* align_up throws std::overflow_error.                                    *)
Throw ==
  /\ pc = "place"
  /\ IF Len(placed) < Len(sizes) THEN Overflows(cursor, TensorAlignment)
     ELSE Overflows(cursor, page)
  /\ pc' = "threw"
  /\ UNCHANGED <<sizes, page, cursor, placed, payload, reserved, padding,
                 pages, wrapped>>

PlanNext == CheckPage \/ Place \/ Finish \/ Throw

PlanSpec == PlanInit /\ [][PlanNext]_planVars

-----------------------------------------------------------------------------
(* Types: every offset and sum is a word.                                  *)
TypeOK ==
  /\ pc \in {"check", "place", "done", "threw"}
  /\ sizes \in Seq(Sizes) /\ page \in PageSizes
  /\ cursor \in 0 .. Word - 1 /\ payload \in 0 .. Word - 1
  /\ placed \in Seq(0 .. Word - 1) /\ Len(placed) <= Len(sizes)
  /\ wrapped \in BOOLEAN

(* As long as the cursor did not wrap, tensors lie at 256-byte boundaries, *)
(* in order, and no two of them share a byte.                              *)
Disjoint ==
  ~wrapped =>
    \A j, k \in DOMAIN placed :
      /\ placed[k] % TensorAlignment = 0
      /\ j < k => placed[j] + sizes[j] <= placed[k]

(* The range a finished plan reserves is a whole number of pages and holds *)
(* every tensor; the padding it reports is what no tensor uses.            *)
Fits ==
  pc = "done" /\ ~wrapped =>
    /\ Len(placed) = Len(sizes)
    /\ \A k \in DOMAIN placed : placed[k] + sizes[k] <= reserved
    /\ reserved = pages * page
    /\ padding + payload = reserved

(* No page is reserved for nothing: the last one holds part of a tensor,   *)
(* or the tail of the alignment in front of an empty one.                  *)
Tight ==
  pc = "done" /\ ~wrapped =>
    /\ reserved - cursor < page
    /\ padding < page + Len(sizes) * TensorAlignment
=============================================================================
