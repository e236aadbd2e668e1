------------------------------ MODULE PackFile ------------------------------
(***************************************************************************)
(* The life of PackFile objects (include/q38/q38pack.hpp, class PackFile;  *)
(* src/q38pack.cpp): construction, open over an open file, every way open  *)
(* can fail, moves, close and destruction, with the descriptors and the    *)
(* mappings the process holds for them.                                    *)
(*                                                                         *)
(* open() ends in one of five states: nothing could be opened, the file is *)
(* too small, it could not be mapped, parse() threw, or the pack is        *)
(* accepted.  parse() runs on the mapped file and does not close it when   *)
(* it throws: the object then holds the file, a header nobody checked and  *)
(* the tensors read so far.                                                *)
(*                                                                         *)
(* A file is what parse() tells apart: [size, magic, sane, regions,        *)
(* manifest, data, tensors].  sane stands for the version and the size of  *)
(* the directory, regions for the ranges of the directory, the metadata    *)
(* and the data; the manifest keeps its offset and length, because a view  *)
(* is made of them.                                                        *)
(***************************************************************************)
EXTENDS Integers, Sequences, FiniteSets

CONSTANTS
  Handles,    \* the objects
  Files,      \* the files there are
  Addresses,  \* where the system may map a file
  Fds,        \* the descriptors, handed out lowest first
  None

TensorRecord ==
  [layout : STRING, offset : Nat, bytes : Nat, aux0 : Nat, aux1 : Nat]

NoneIsNew ==
  /\ None \notin Addresses /\ None \notin Fds /\ None \notin Files
  /\ None \notin Addresses \X Files
  /\ None \notin [at : Addresses, offset : Nat, bytes : Nat]

FilesHaveTheirTypes ==
  \A f \in Files : /\ f.size \in Nat /\ f.data \in Nat
                   /\ f.manifest.offset \in Nat /\ f.manifest.bytes \in Nat
                   /\ f.tensors \in Seq(TensorRecord)

ASSUME NoneAssumption == NoneIsNew

ASSUME FdsAssumption == Fds \subseteq Nat

ASSUME FilesAssumption == FilesHaveTheirTypes

VARIABLES
  alive,    \* the objects in scope
  obj,      \* the members of each object
  mapping,  \* address -> the file mapped there, or None
  fds,      \* the descriptors in use
  moved     \* objects given away and not used since

vars == <<alive, obj, mapping, fds, moved>>

-----------------------------------------------------------------------------
HeaderBytes == 2  \* kPackHeaderBytes, in units

NoHeader == [count |-> 0, offset |-> 0, bytes |-> 0]
HeaderIn(f) == [count |-> Len(f.tensors), offset |-> f.manifest.offset,
                bytes |-> f.manifest.bytes]

Empty == [fd |-> None, size |-> 0, mapped |-> None, header |-> NoHeader,
          tensors |-> << >>, manifest |-> None]

InRange(off, len, size) == off <= size /\ len <= size - off

(* A tensor record parse() keeps.                                          *)
TensorAccepted(f, t) ==
  /\ InRange(t.offset, t.bytes, f.size)
  /\ t.offset >= f.data
  /\ \/ t.layout = "native"
     \/ /\ t.layout = "sm86"
        /\ t.offset <= t.aux0 /\ t.aux0 <= t.aux1
        /\ t.aux1 < t.offset + t.bytes

HeaderAccepted(f) ==
  /\ f.magic /\ f.sane /\ f.regions
  /\ InRange(f.manifest.offset, f.manifest.bytes, f.size)

TensorsAccepted(f) == \A k \in DOMAIN f.tensors : TensorAccepted(f, f.tensors[k])

Accepted(f) == HeaderAccepted(f) /\ TensorsAccepted(f)

(* The tensors before the first one that is refused.                       *)
Prefix(f) ==
  LET read == {n \in 0 .. Len(f.tensors) :
                 \A k \in 1 .. n : TensorAccepted(f, f.tensors[k])}
  IN  SubSeq(f.tensors, 1, CHOOSE n \in read : \A k \in read : k <= n)

Manifest(a, header) ==
  [at |-> a, offset |-> header.offset, bytes |-> header.bytes]

(* What parse() leaves in the members, whether it returns or throws.       *)
Parsed(a, fd, f) ==
  [fd |-> fd, size |-> f.size, mapped |-> a,
   header   |-> IF f.magic THEN HeaderIn(f) ELSE NoHeader,
   tensors  |-> IF HeaderAccepted(f) THEN Prefix(f) ELSE << >>,
   manifest |-> IF HeaderAccepted(f) THEN Manifest(a, HeaderIn(f)) ELSE None]

-----------------------------------------------------------------------------
(* close() on object h.  munmap() takes the file away when it is given its *)
(* address and its length.                                                 *)
FdsAfterClose(h) == fds \ {obj[h].fd}

MappingAfterClose(h) ==
  [a \in Addresses |->
     IF a = obj[h].mapped /\ mapping[a] # None /\ mapping[a].size = obj[h].size
     THEN None ELSE mapping[a]]

Init ==
  /\ alive = {} /\ obj = [h \in Handles |-> Empty]
  /\ mapping = [a \in Addresses |-> None]
  /\ fds = {} /\ moved = {}

Construct(h) ==
  /\ h \notin alive
  /\ alive' = alive \cup {h}
  /\ obj' = [obj EXCEPT ![h] = Empty]
  /\ moved' = moved \ {h}
  /\ UNCHANGED <<mapping, fds>>

Close(h) ==
  /\ h \in alive
  /\ obj' = [obj EXCEPT ![h] = Empty]
  /\ mapping' = MappingAfterClose(h)
  /\ fds' = FdsAfterClose(h)
  /\ moved' = moved \ {h}
  /\ UNCHANGED alive

Destroy(h) ==
  /\ h \in alive
  /\ alive' = alive \ {h}
  /\ obj' = [obj EXCEPT ![h] = Empty]
  /\ mapping' = MappingAfterClose(h)
  /\ fds' = FdsAfterClose(h)
  /\ moved' = moved \ {h}

(* Mutant: the file is closed when the next one is known to open.          *)
OpenFails_KeepsOld(h) == h \in alive /\ UNCHANGED vars

(* open() that gets no further than open(), fstat() or mmap(): the object  *)
(* is closed, and so is the descriptor.                                    *)
OpenFails(h) == Close(h)

(* Mutant: a second open does not close the first file.                    *)
OpenFile_NoClose(h, f) ==
  /\ h \in alive
  /\ f.size >= HeaderBytes
  /\ \E a \in Addresses, fd \in Fds :
       /\ mapping[a] = None
       /\ fd \notin fds
       /\ \A d \in Fds \ fds : fd <= d
       /\ obj' = [obj EXCEPT ![h] = Parsed(a, fd, f)]
       /\ mapping' = [mapping EXCEPT ![a] = f]
       /\ fds' = fds \cup {fd}
  /\ moved' = moved \ {h}
  /\ UNCHANGED alive

(* open() that maps file f.  A file shorter than a header is not mapped.   *)
OpenFile(h, f) ==
  /\ h \in alive
  /\ f.size >= HeaderBytes
  /\ \E a \in Addresses, fd \in Fds :
       /\ MappingAfterClose(h)[a] = None
       /\ fd \notin FdsAfterClose(h)
       /\ \A d \in Fds \ FdsAfterClose(h) : fd <= d
       /\ obj' = [obj EXCEPT ![h] = Parsed(a, fd, f)]
       /\ mapping' = [MappingAfterClose(h) EXCEPT ![a] = f]
       /\ fds' = FdsAfterClose(h) \cup {fd}
  /\ moved' = moved \ {h}
  /\ UNCHANGED alive

(* Mutant: the manifest view is dropped.                                   *)
Taken_NoManifest(src) == [src EXCEPT !.manifest = None]

(* The members after *this = std::move(other).  The header of the other    *)
(* object stays, its manifest too; the manifest here is made anew from the *)
(* header.                                                                 *)
Taken(src) ==
  [src EXCEPT !.manifest =
     IF src.mapped # None /\ src.header.bytes > 0
     THEN Manifest(src.mapped, src.header) ELSE None]

(* Mutant: the source keeps its mapping.                                   *)
Left_KeepsMapping(src) ==
  [src EXCEPT !.fd = None, !.size = 0, !.tensors = << >>]

(* Mutant: the tensors are copied, not moved.                              *)
Left_KeepsTensors(src) ==
  [src EXCEPT !.fd = None, !.size = 0, !.mapped = None]

Left(src) ==
  [src EXCEPT !.fd = None, !.size = 0, !.mapped = None, !.tensors = << >>]

(* An object that took from one already given away has its stale header.   *)
MovedAfter(h, g) ==
  IF g \in moved THEN moved \cup {h} ELSE (moved \ {h}) \cup {g}

(* The test for self-assignment makes h = g a step that changes nothing.   *)
MoveAssign(h, g) ==
  /\ h \in alive /\ g \in alive /\ h # g
  /\ obj' = [obj EXCEPT ![h] = Taken(obj[g]), ![g] = Left(obj[g])]
  /\ mapping' = MappingAfterClose(h)
  /\ fds' = FdsAfterClose(h)
  /\ moved' = MovedAfter(h, g)
  /\ UNCHANGED alive

MoveConstruct(h, g) ==
  /\ h \notin alive /\ g \in alive
  /\ alive' = alive \cup {h}
  /\ obj' = [obj EXCEPT ![h] = Taken(obj[g]), ![g] = Left(obj[g])]
  /\ moved' = MovedAfter(h, g)
  /\ UNCHANGED <<mapping, fds>>

Next ==
  \E h \in Handles :
    \/ Construct(h) \/ OpenFails(h) \/ Close(h) \/ Destroy(h)
    \/ \E f \in Files : OpenFile(h, f)
    \/ \E g \in Handles : MoveAssign(h, g) \/ MoveConstruct(h, g)

Spec == Init /\ [][Next]_vars

-----------------------------------------------------------------------------
(* tensor_data() and tensor_aux_data(): a pointer, or they throw.          *)
TensorData(o, t) ==
  IF o.mapped # None /\ InRange(t.offset, t.bytes, o.size)
  THEN [at |-> o.mapped, offset |-> t.offset, bytes |-> t.bytes]
  ELSE None

TensorAuxData(o, off) ==
  IF o.mapped # None /\ off # 0 /\ InRange(off, 1, o.size)
  THEN [at |-> o.mapped, offset |-> off, bytes |-> 1]
  ELSE None

(* A pointer may be followed: all its bytes are in a file mapped there.    *)
Points(view) ==
  /\ mapping[view.at] # None
  /\ view.offset + view.bytes <= mapping[view.at].size

(* The members have their types.  Models the declarations of class         *)
(* PackFile.                                                               *)
TypeOK ==
  /\ alive \subseteq Handles /\ moved \subseteq Handles
  /\ fds \subseteq Fds
  /\ mapping \in [Addresses -> Files \cup {None}]
  /\ obj \in [Handles -> [fd : Fds \cup {None}, size : Nat,
                         mapped : Addresses \cup {None},
                         header : {NoHeader} \cup {HeaderIn(f) : f \in Files},
                         tensors : {<< >>} \cup {Prefix(f) : f \in Files},
                         manifest : {None} \cup
                           [at : Addresses, offset : Nat, bytes : Nat]]]

(* Every mapping and every descriptor belongs to exactly one object in     *)
(* scope: whatever the order of opens that fail, moves and closes, nothing *)
(* leaks and nothing is given back twice (close(), operator=).             *)
OneOwner ==
  /\ \A a \in Addresses :
       mapping[a] # None <=> \E h \in alive : obj[h].mapped = a
  /\ \A d \in Fds : d \in fds <=> \E h \in alive : obj[h].fd = d
  /\ \A h, g \in Handles :
       h # g => /\ obj[h].mapped = obj[g].mapped => obj[h].mapped = None
                /\ obj[h].fd = obj[g].fd => obj[h].fd = None

(* An object that holds an accepted pack holds all of it, header, tensors  *)
(* and manifest, also after moves; one that holds no file is as good as    *)
(* new, unless it was given away and not used since (operator= resets the  *)
(* handle of the other object and leaves its header).                      *)
HandlesAreWhole ==
  \A h \in Handles :
    LET o == obj[h] IN
      /\ o.mapped = None /\ h \notin moved => o = Empty
      /\ o.mapped # None /\ Accepted(mapping[o.mapped]) =>
           LET f == mapping[o.mapped] IN
             /\ o.header = HeaderIn(f) /\ o.tensors = f.tensors
             /\ f.manifest.bytes > 0 =>
                  o.manifest = Manifest(o.mapped, HeaderIn(f))

(* No pointer an object gives out leaves the file it has mapped: its own   *)
(* tensors are served in full, with their planes, even after a parse that  *)
(* threw; the record of another pack is served in range or refused; the    *)
(* manifest is inside the file unless the object was given away or its     *)
(* file was refused (find_tensor, tensor_data, tensor_aux_data).  The one  *)
(* plane that is not served starts at offset 0, which stands for "none":   *)
(* parse() accepts it in a file whose data area starts at 0.               *)
ViewsAreInside ==
  \A h \in alive :
    LET o == obj[h] IN
      /\ \A k \in DOMAIN o.tensors :
           LET t == o.tensors[k] IN
             /\ TensorData(o, t) # None
             /\ t.layout = "sm86" =>
                  \A aux \in {t.aux0, t.aux1} :
                    /\ aux < t.offset + t.bytes
                    /\ \/ /\ TensorAuxData(o, aux) # None
                          /\ Points(TensorAuxData(o, aux))
                       \/ aux = 0 /\ mapping[o.mapped].data = 0
      /\ \A f \in Files : \A k \in DOMAIN f.tensors :
           TensorData(o, f.tensors[k]) # None =>
             Points(TensorData(o, f.tensors[k]))
      /\ o.manifest # None /\ h \notin moved
           /\ Accepted(mapping[o.mapped]) =>
           o.manifest.at = o.mapped /\ Points(o.manifest)

(* Objects are owners of mappings: opening acquires, closing releases, a   *)
(* move transfers the mapping itself, and nothing else happens to them.    *)
Owner == INSTANCE PackHandles WITH
  Mappings <- Addresses \X Files,
  Nothing <- None,
  owns <- [h \in Handles |->
             IF obj[h].mapped = None THEN None
             ELSE <<obj[h].mapped, mapping[obj[h].mapped]>>]

OwnsByValue == Owner!Spec
=============================================================================
