--------------------------- MODULE PackFile_proofs --------------------------
(***************************************************************************)
(* For any number of objects, files, addresses and descriptors: the        *)
(* members keep their types, every mapping and descriptor has exactly one  *)
(* owner, what an object holds is its file's, no pointer it gives out      *)
(* leaves the file, and PackFile implements PackHandles.                   *)
(***************************************************************************)
EXTENDS PackFile, WellFoundedInduction, TLAPS

(* What OneOwner needs to be inductive: objects out of scope hold nothing, *)
(* and an object knows the address and the length of its mapping, so that  *)
(* close() takes away the whole of it.                                     *)
OutOfScope == \A h \in Handles : h \notin alive => obj[h] = Empty

KnowsItsMapping ==
  \A h \in Handles :
    obj[h].mapped # None => /\ mapping[obj[h].mapped] # None
                            /\ mapping[obj[h].mapped].size = obj[h].size

Owned ==
  /\ \A a \in Addresses :
       mapping[a] # None => \E h \in Handles : obj[h].mapped = a
  /\ \A d \in Fds : d \in fds <=> \E h \in Handles : obj[h].fd = d

Distinct ==
  \A h, g \in Handles :
    h # g => /\ obj[h].mapped = obj[g].mapped => obj[h].mapped = None
             /\ obj[h].fd = obj[g].fd => obj[h].fd = None

Inv == TypeOK /\ OutOfScope /\ KnowsItsMapping /\ Owned /\ Distinct

-----------------------------------------------------------------------------
USE DEF NoneIsNew, FilesHaveTheirTypes

(* The members of an object.                                               *)
Object == [fd : Fds \cup {None}, size : Nat, mapped : Addresses \cup {None},
           header : {NoHeader} \cup {HeaderIn(f) : f \in Files},
           tensors : {<< >>} \cup {Prefix(f) : f \in Files},
           manifest : {None} \cup [at : Addresses, offset : Nat, bytes : Nat]]

LEMMA EmptyType == Empty \in Object
  BY DEF Empty, Object

LEMMA HeaderType ==
  ASSUME NEW header \in {NoHeader} \cup {HeaderIn(f) : f \in Files}
  PROVE  header.offset \in Nat /\ header.bytes \in Nat
  BY FilesAssumption DEF NoHeader, HeaderIn

LEMMA ParsedType ==
  ASSUME NEW a \in Addresses, NEW fd \in Fds, NEW f \in Files
  PROVE  Parsed(a, fd, f) \in Object
  <1>1. HeaderIn(f).offset \in Nat /\ HeaderIn(f).bytes \in Nat
    BY HeaderType
  <1>2. Manifest(a, HeaderIn(f)) \in [at : Addresses, offset : Nat, bytes : Nat]
    BY <1>1 DEF Manifest
  <1> HIDE DEF NoHeader, HeaderIn, Prefix, Manifest, HeaderAccepted
  <1>3. QED
    BY <1>2, FilesAssumption DEF Parsed, Object

LEMMA MoveType ==
  ASSUME NEW o \in Object
  PROVE  Taken(o) \in Object /\ Left(o) \in Object
  <1>1. o.header.offset \in Nat /\ o.header.bytes \in Nat
    BY HeaderType DEF Object
  <1>2. o.mapped # None =>
          Manifest(o.mapped, o.header) \in [at : Addresses, offset : Nat,
                                            bytes : Nat]
    BY <1>1 DEF Manifest, Object
  <1>3. Taken(o) \in Object
    BY <1>2 DEF Taken, Object
  <1>4. Left(o) \in Object
    BY DEF Left, Object
  <1>5. QED
    BY <1>3, <1>4

-----------------------------------------------------------------------------
(* close() takes exactly what the object held, and what is left belongs to *)
(* the others.                                                             *)
LEMMA CloseReleases ==
  ASSUME Inv, NEW h \in Handles
  PROVE  /\ MappingAfterClose(h) \in [Addresses -> Files \cup {None}]
         /\ \A a \in Addresses :
              MappingAfterClose(h)[a] = IF a = obj[h].mapped THEN None
                                        ELSE mapping[a]
         /\ FdsAfterClose(h) \subseteq Fds
         /\ \A a \in Addresses :
              MappingAfterClose(h)[a] # None =>
                \E g \in Handles \ {h} : obj[g].mapped = a
         /\ \A d \in Fds :
              d \in FdsAfterClose(h) <=> \E g \in Handles \ {h} : obj[g].fd = d
  <1>1. \A a \in Addresses : MappingAfterClose(h)[a] =
                                 IF a = obj[h].mapped THEN None ELSE mapping[a]
    BY NoneAssumption DEF MappingAfterClose, Inv, KnowsItsMapping, TypeOK
  <1>2. MappingAfterClose(h) \in [Addresses -> Files \cup {None}]
    BY DEF MappingAfterClose, Inv, TypeOK
  <1>3. FdsAfterClose(h) \subseteq Fds
    BY DEF FdsAfterClose, Inv, TypeOK
  <1>4. \A a \in Addresses :
          MappingAfterClose(h)[a] # None =>
            \E g \in Handles \ {h} : obj[g].mapped = a
    BY <1>1 DEF Inv, Owned
  <1>5. \A d \in Fds :
          d \in FdsAfterClose(h) <=> \E g \in Handles \ {h} : obj[g].fd = d
    BY NoneAssumption DEF FdsAfterClose, Inv, Owned, Distinct
  <1>6. QED
    BY <1>1, <1>2, <1>3, <1>4, <1>5

(* The invariant after object h was closed and set to o: new members that  *)
(* hold nothing of another object, and what the process holds for it.      *)
LEMMA CloseKeepsInv ==
  ASSUME Inv, NEW h \in Handles,
         alive' \subseteq Handles, moved' \subseteq Handles,
         alive' \ {h} = alive \ {h},
         obj' = [obj EXCEPT ![h] = Empty],
         mapping' = MappingAfterClose(h),
         fds' = FdsAfterClose(h)
  PROVE  Inv'
  <1> obj \in [Handles -> Object] /\ Empty \in Object
    BY EmptyType DEF Inv, TypeOK, Object
  <1>0. /\ obj'[h] = Empty
        /\ \A g \in Handles : g # h => obj'[g] = obj[g]
        /\ Empty.mapped = None /\ Empty.fd = None
    BY DEF Empty
  <1>1. TypeOK'
    <2>1. obj' \in [Handles -> Object]
      OBVIOUS
    <2>2. QED
      BY <2>1, CloseReleases DEF TypeOK, Object
  <1>2. OutOfScope'
    BY <1>0 DEF Inv, OutOfScope
  <1>3. KnowsItsMapping'
    <2> SUFFICES ASSUME NEW g \in Handles, obj'[g].mapped # None
                 PROVE  /\ mapping'[obj'[g].mapped] # None
                        /\ mapping'[obj'[g].mapped].size = obj'[g].size
      BY DEF KnowsItsMapping
    <2>1. g # h /\ obj'[g] = obj[g] /\ obj[g].mapped \in Addresses
      BY <1>0 DEF Object
    <2>2. obj[g].mapped # obj[h].mapped
      BY <2>1 DEF Inv, Distinct
    <2>3. QED
      BY <2>1, <2>2, CloseReleases DEF Inv, KnowsItsMapping
  <1>4. Owned'
    BY <1>0, CloseReleases, NoneAssumption DEF Owned
  <1>5. Distinct'
    BY <1>0 DEF Inv, Distinct
  <1>6. QED
    BY <1>1, <1>2, <1>3, <1>4, <1>5 DEF Inv

LEMMA OpenKeepsInv ==
  ASSUME Inv, NEW h \in Handles, NEW f \in Files, OpenFile(h, f)
  PROVE  Inv'
  <1> obj \in [Handles -> Object]
    BY DEF Inv, TypeOK, Object
  <1>1. PICK a \in Addresses, fd \in Fds :
          /\ MappingAfterClose(h)[a] = None
          /\ fd \notin FdsAfterClose(h)
          /\ obj' = [obj EXCEPT ![h] = Parsed(a, fd, f)]
          /\ mapping' = [MappingAfterClose(h) EXCEPT ![a] = f]
          /\ fds' = FdsAfterClose(h) \cup {fd}
    BY DEF OpenFile
  <1>0. /\ obj'[h] = Parsed(a, fd, f) /\ Parsed(a, fd, f) \in Object
        /\ \A g \in Handles : g # h => obj'[g] = obj[g]
        /\ obj'[h].mapped = a /\ obj'[h].fd = fd /\ obj'[h].size = f.size
        /\ a # None /\ fd # None /\ f # None
        /\ mapping'[a] = f
        /\ \A b \in Addresses : b # a => mapping'[b] = MappingAfterClose(h)[b]
        /\ h \in alive
    BY <1>1, ParsedType, CloseReleases, NoneAssumption DEF Parsed, OpenFile
  <1>2. \A g \in Handles \ {h} :
          /\ obj[g].mapped # None => /\ obj[g].mapped # a
                                     /\ obj[g].mapped # obj[h].mapped
                                     /\ obj[g].mapped \in Addresses
          /\ obj[g].fd # fd
    <2> TAKE g \in Handles \ {h}
    <2>1. ASSUME obj[g].mapped # None
          PROVE  /\ obj[g].mapped # a /\ obj[g].mapped # obj[h].mapped
                 /\ obj[g].mapped \in Addresses
      <3>1. obj[g].mapped \in Addresses
        BY <2>1 DEF Object
      <3>2. obj[g].mapped # obj[h].mapped
        BY <2>1 DEF Inv, Distinct
      <3>3. MappingAfterClose(h)[obj[g].mapped] # None
        BY <2>1, <3>1, <3>2, CloseReleases DEF Inv, KnowsItsMapping
      <3>4. QED
        BY <1>1, <3>1, <3>2, <3>3
    <2>2. obj[g].fd # fd
      BY <1>1, CloseReleases
    <2>3. QED
      BY <2>1, <2>2
  <1>3. TypeOK'
    <2>1. obj' \in [Handles -> Object]
      BY <1>0, <1>1
    <2>2. mapping' \in [Addresses -> Files \cup {None}] /\ fds' \subseteq Fds
      BY <1>1, CloseReleases
    <2>3. alive' \subseteq Handles /\ moved' \subseteq Handles
      BY DEF Inv, TypeOK, OpenFile
    <2>4. QED
      BY <2>1, <2>2, <2>3 DEF TypeOK, Object
  <1>4. OutOfScope'
    BY <1>0 DEF Inv, OutOfScope, OpenFile
  <1>5. KnowsItsMapping'
    BY <1>0, <1>2, CloseReleases DEF Inv, KnowsItsMapping
  <1>6. Owned'
    <2>1. ASSUME NEW b \in Addresses, mapping'[b] # None
          PROVE  \E g \in Handles : obj'[g].mapped = b
      <3>1. CASE b = a
        BY <3>1, <1>0
      <3>2. CASE b # a
        BY <2>1, <3>2, <1>0, CloseReleases
      <3>3. QED
        BY <3>1, <3>2
    <2>2. ASSUME NEW d \in Fds
          PROVE  d \in fds' <=> \E g \in Handles : obj'[g].fd = d
      BY <1>0, <1>1, CloseReleases
    <2>3. QED
      BY <2>1, <2>2 DEF Owned
  <1>7. Distinct'
    BY <1>0, <1>2 DEF Inv, Distinct
  <1>8. QED
    BY <1>3, <1>4, <1>5, <1>6, <1>7 DEF Inv

(* Both moves: h gives up what it has, if anything, and takes from g.      *)
LEMMA MoveKeepsInv ==
  ASSUME Inv, NEW h \in Handles, NEW g \in Handles, h # g,
         g \in alive, alive' = alive \cup {h}, moved' \subseteq Handles,
         obj' = [obj EXCEPT ![h] = Taken(obj[g]), ![g] = Left(obj[g])],
         mapping' = MappingAfterClose(h),
         fds' = FdsAfterClose(h)
  PROVE  Inv'
  <1> obj \in [Handles -> Object]
    BY DEF Inv, TypeOK, Object
  <1>0. /\ obj'[h] = Taken(obj[g]) /\ obj'[g] = Left(obj[g])
        /\ \A k \in Handles : k # h /\ k # g => obj'[k] = obj[k]
        /\ Taken(obj[g]) \in Object /\ Left(obj[g]) \in Object
    BY MoveType
  <1>1. /\ Taken(obj[g]).mapped = obj[g].mapped /\ Taken(obj[g]).fd = obj[g].fd
        /\ Taken(obj[g]).size = obj[g].size
    BY DEF Taken, Object
  <1>2. Left(obj[g]).mapped = None /\ Left(obj[g]).fd = None
    BY DEF Left, Object
  <1>3. TypeOK'
    <2>1. obj' \in [Handles -> Object]
      BY <1>0
    <2>2. alive' \subseteq Handles
      BY DEF Inv, TypeOK
    <2>3. QED
      BY <2>1, <2>2, CloseReleases DEF TypeOK, Object
  <1>4. OutOfScope'
    BY <1>0 DEF Inv, OutOfScope
  <1>5. \A k \in Handles \ {h} :
          obj[k].mapped # None => /\ obj[k].mapped # obj[h].mapped
                                  /\ obj[k].mapped \in Addresses
    BY DEF Inv, Distinct, Object
  <1>6. KnowsItsMapping'
    <2> SUFFICES ASSUME NEW k \in Handles, obj'[k].mapped # None
                 PROVE  /\ mapping'[obj'[k].mapped] # None
                        /\ mapping'[obj'[k].mapped].size = obj'[k].size
      BY DEF KnowsItsMapping
    <2>1. CASE k = h
      BY <2>1, <1>0, <1>1, <1>5, CloseReleases DEF Inv, KnowsItsMapping
    <2>2. CASE k = g
      BY <2>2, <1>0, <1>2
    <2>3. CASE k # h /\ k # g
      BY <2>3, <1>0, <1>5, CloseReleases DEF Inv, KnowsItsMapping
    <2>4. QED
      BY <2>1, <2>2, <2>3
  <1>7. Owned'
    <2>1. ASSUME NEW a \in Addresses, mapping'[a] # None
          PROVE  \E k \in Handles : obj'[k].mapped = a
      <3>1. PICK k \in Handles \ {h} : obj[k].mapped = a
        BY <2>1, CloseReleases
      <3>2. CASE k = g
        BY <3>1, <3>2, <1>0, <1>1
      <3>3. CASE k # g
        BY <3>1, <3>3, <1>0
      <3>4. QED
        BY <3>2, <3>3
    <2>2. ASSUME NEW d \in Fds
          PROVE  d \in fds' <=> \E k \in Handles : obj'[k].fd = d
      <3>1. d \in fds' <=> \E k \in Handles \ {h} : obj[k].fd = d
        BY CloseReleases
      <3>2. d # None
        BY NoneAssumption
      <3>3. QED
        BY <3>1, <3>2, <1>0, <1>1, <1>2
    <2>3. QED
      BY <2>1, <2>2 DEF Owned
  <1>8. Distinct'
    BY <1>0, <1>1, <1>2 DEF Inv, Distinct
  <1>9. QED
    BY <1>3, <1>4, <1>6, <1>7, <1>8 DEF Inv

(* Closing an object that holds nothing changes nothing.                   *)
LEMMA CloseOfEmpty ==
  ASSUME Inv, NEW h \in Handles, h \notin alive
  PROVE  MappingAfterClose(h) = mapping /\ FdsAfterClose(h) = fds
  <1>1. obj[h].mapped = None /\ obj[h].fd = None
    BY DEF Inv, OutOfScope, Empty
  <1>2. MappingAfterClose(h) = mapping
    BY <1>1, NoneAssumption DEF MappingAfterClose, Inv, TypeOK
  <1>3. FdsAfterClose(h) = fds
    BY <1>1, NoneAssumption DEF FdsAfterClose, Inv, TypeOK
  <1>4. QED
    BY <1>2, <1>3

LEMMA InitInv == Init => Inv
  <1> SUFFICES ASSUME Init PROVE Inv
    OBVIOUS
  <1>1. obj = [h \in Handles |-> Empty] /\ Empty.mapped = None /\ Empty.fd = None
    BY DEF Init, Empty
  <1>2. TypeOK
    BY <1>1, EmptyType DEF Init, TypeOK, Object
  <1>3. OutOfScope /\ KnowsItsMapping /\ Owned /\ Distinct
    BY <1>1, NoneAssumption
    DEF Init, OutOfScope, KnowsItsMapping, Owned, Distinct
  <1>4. QED
    BY <1>2, <1>3 DEF Inv

LEMMA NextInv == Inv /\ [Next]_vars => Inv'
  <1> SUFFICES ASSUME Inv, [Next]_vars PROVE Inv'
    OBVIOUS
  <1>1. ASSUME NEW h \in Handles, Construct(h) PROVE Inv'
    <2>1. obj' = [obj EXCEPT ![h] = Empty]
          /\ mapping' = MappingAfterClose(h) /\ fds' = FdsAfterClose(h)
      BY <1>1, CloseOfEmpty DEF Construct
    <2>2. /\ alive' \subseteq Handles /\ moved' \subseteq Handles
          /\ alive' \ {h} = alive \ {h}
      BY <1>1 DEF Construct, Inv, TypeOK
    <2>3. QED
      BY <2>1, <2>2, CloseKeepsInv
  <1>2. ASSUME NEW h \in Handles, Close(h) \/ Destroy(h) PROVE Inv'
    <2>1. /\ obj' = [obj EXCEPT ![h] = Empty]
          /\ mapping' = MappingAfterClose(h) /\ fds' = FdsAfterClose(h)
      BY <1>2 DEF Close, Destroy
    <2>2. /\ alive' \subseteq Handles /\ moved' \subseteq Handles
          /\ alive' \ {h} = alive \ {h}
      BY <1>2 DEF Close, Destroy, Inv, TypeOK
    <2>3. QED
      BY <2>1, <2>2, CloseKeepsInv
  <1>3. ASSUME NEW h \in Handles, NEW f \in Files, OpenFile(h, f) PROVE Inv'
    BY <1>3, OpenKeepsInv
  <1>4. ASSUME NEW h \in Handles, NEW g \in Handles, MoveAssign(h, g)
        PROVE  Inv'
    <2>1. alive' = alive \cup {h} /\ moved' \subseteq Handles
      BY <1>4 DEF MoveAssign, MovedAfter, Inv, TypeOK
    <2>2. QED
      BY <2>1, <1>4, MoveKeepsInv DEF MoveAssign
  <1>5. ASSUME NEW h \in Handles, NEW g \in Handles, MoveConstruct(h, g)
        PROVE  Inv'
    <2>1. /\ alive' = alive \cup {h} /\ moved' \subseteq Handles /\ h # g
          /\ g \in alive
      BY <1>5 DEF MoveConstruct, MovedAfter, Inv, TypeOK
    <2>2. mapping' = MappingAfterClose(h) /\ fds' = FdsAfterClose(h)
      BY <1>5, CloseOfEmpty DEF MoveConstruct
    <2>3. QED
      BY <2>1, <2>2, <1>5, MoveKeepsInv DEF MoveConstruct
  <1>6. ASSUME UNCHANGED vars PROVE Inv'
    BY <1>6 DEF vars, Inv, TypeOK, OutOfScope, KnowsItsMapping, Owned, Distinct
  <1>7. QED
    BY <1>1, <1>2, <1>3, <1>4, <1>5, <1>6 DEF Next, OpenFails

-----------------------------------------------------------------------------
LEMMA Invariance == Spec => []Inv
  BY InitInv, NextInv, PTL DEF Spec

(* The members of every object keep their types, for any files: parse()    *)
(* and the moves build them from what was in a header or a record.         *)
THEOREM Typing == Spec => []TypeOK
  <1>1. Inv => TypeOK
    BY DEF Inv
  <1>2. QED
    BY <1>1, Invariance, PTL

(* Nothing leaks and nothing is given back twice, for any number of        *)
(* objects: a mapping or a descriptor of the process belongs to exactly    *)
(* one object in scope, whatever opens, failures, moves and closes came    *)
(* before.                                                                 *)
THEOREM Ownership == Spec => []OneOwner
  <1>1. Inv => OneOwner
    <2> SUFFICES ASSUME Inv PROVE OneOwner
      OBVIOUS
    <2>1. \A h \in Handles : h \notin alive =>
            obj[h].mapped = None /\ obj[h].fd = None
      BY DEF Inv, OutOfScope, Empty
    <2>2. alive \subseteq Handles
      BY DEF Inv, TypeOK
    <2>3. \A a \in Addresses :
            mapping[a] # None <=> \E h \in alive : obj[h].mapped = a
      BY <2>1, <2>2, NoneAssumption DEF Inv, Owned, KnowsItsMapping
    <2>4. \A d \in Fds : d \in fds <=> \E h \in alive : obj[h].fd = d
      BY <2>1, <2>2, NoneAssumption DEF Inv, Owned
    <2>5. QED
      BY <2>3, <2>4 DEF OneOwner, Inv, Distinct
  <1>2. QED
    BY <1>1, Invariance, PTL

-----------------------------------------------------------------------------
(* What an object holds.                                                   *)

(* A set of naturals has a least element.                                  *)
LEMMA Least ==
  ASSUME NEW T, T \subseteq Nat, T # {}
  PROVE  \E x \in T : \A y \in T : x <= y
  <1>1. PICK x \in T : \A y \in T : ~ (<<y, x>> \in OpToRel(<, Nat))
    BY NatLessThanWellFounded, WFMin
  <1>2. ASSUME NEW y \in T PROVE x <= y
    <2>1. \A a, b \in Nat : a < b => <<a, b>> \in OpToRel(<, Nat)
      BY DEF OpToRel
    <2>2. ~ (y < x) /\ x \in Nat /\ y \in Nat
      BY <1>1, <2>1
    <2>3. QED
      BY <2>2
  <1>3. QED
    BY <1>2

(* parse() keeps the records before the first that is refused: all of them *)
(* when none is.                                                           *)
LEMMA PrefixIsAccepted ==
  ASSUME NEW f \in Files
  PROVE  /\ Prefix(f) \in Seq(TensorRecord)
         /\ \A k \in DOMAIN Prefix(f) :
              /\ k \in DOMAIN f.tensors /\ Prefix(f)[k] = f.tensors[k]
              /\ TensorAccepted(f, f.tensors[k])
         /\ Prefix(f) = SubSeq(f.tensors, 1, Len(Prefix(f)))
         /\ TensorsAccepted(f) => Prefix(f) = f.tensors
  <1> DEFINE s == f.tensors
             good(k) == TensorAccepted(f, s[k])
             read == {n \in 0 .. Len(s) : \A k \in 1 .. n : good(k)}
             last(n) == n \in read /\ \A k \in read : k <= n
  <1>0. s \in Seq(TensorRecord) /\ Len(s) \in Nat
    BY FilesAssumption
  <1>1. \E n : last(n)
    <2> HIDE DEF good
    <2>1. CASE \A k \in 1 .. Len(s) : good(k)
      <3>1. last(Len(s))
        BY <2>1, <1>0
      <3>2. QED
        BY <3>1
    <2>2. CASE \E k \in 1 .. Len(s) : ~ good(k)
      <3> DEFINE bad == {k \in 1 .. Len(s) : ~ good(k)}
      <3>1. bad \subseteq Nat /\ bad # {}
        BY <2>2, <1>0
      <3>2. PICK b \in bad : \A k \in bad : b <= k
        BY <3>1, Least
      <3>3. last(b - 1)
        BY <3>2, <1>0
      <3>4. QED
        BY <3>3
    <2>3. QED
      BY <2>1, <2>2
  <1>2. PICK n : n = CHOOSE m \in read : \A k \in read : k <= m
    OBVIOUS
  <1>3. last(n)
    BY <1>1, <1>2
  <1>4. Prefix(f) = SubSeq(s, 1, n)
    BY <1>2 DEF Prefix
  <1>5. n \in 0 .. Len(s) /\ \A k \in 1 .. n : good(k)
    BY <1>3
  <1>6. /\ SubSeq(s, 1, n) \in Seq(TensorRecord)
        /\ Len(SubSeq(s, 1, n)) = n
        /\ \A k \in 1 .. n : SubSeq(s, 1, n)[k] = s[k]
    BY <1>0, <1>5
  <1>7. DOMAIN SubSeq(s, 1, n) = 1 .. n /\ 1 .. n \subseteq DOMAIN s
    BY <1>0, <1>5, <1>6
  <1>8. ASSUME TensorsAccepted(f) PROVE SubSeq(s, 1, n) = s
    <2>1. Len(s) \in read
      BY <1>8, <1>0 DEF TensorsAccepted
    <2>2. n = Len(s)
      BY <2>1, <1>3, <1>0, <1>5
    <2>3. QED
      BY <2>2, <1>0, <1>6
  <1>9. QED
    BY <1>4, <1>5, <1>6, <1>7, <1>8

(* What is left of parse()'s work in object o that maps file f; a move     *)
(* drops the view of an empty manifest.                                    *)
Holds(o, f) ==
  /\ o.tensors = IF HeaderAccepted(f) THEN Prefix(f) ELSE << >>
  /\ o.header = IF f.magic THEN HeaderIn(f) ELSE NoHeader
  /\ HeaderAccepted(f) =>
       \/ o.manifest = Manifest(o.mapped, HeaderIn(f))
       \/ o.manifest = None /\ f.manifest.bytes = 0

(* An object that maps nothing is as good as new, unless it was given      *)
(* away; one that maps a file was not, and holds what parse() left.        *)
Whole ==
  \A h \in Handles :
    /\ obj[h].mapped = None => /\ obj[h].tensors = << >>
                               /\ h \notin moved => obj[h] = Empty
    /\ obj[h].mapped # None => /\ h \notin moved
                               /\ Holds(obj[h], mapping[obj[h].mapped])

LEMMA EmptyIsWhole == Empty.mapped = None /\ Empty.tensors = << >>
  BY DEF Empty

LEMMA ParsedIsWhole ==
  ASSUME NEW a \in Addresses, NEW fd \in Fds, NEW f \in Files
  PROVE  Holds(Parsed(a, fd, f), f) /\ Parsed(a, fd, f).mapped = a
  <1> HIDE DEF Prefix, Manifest, HeaderIn
  <1>1. HeaderAccepted(f) => f.magic
    BY DEF HeaderAccepted
  <1>2. QED
    BY <1>1 DEF Parsed, Holds

(* A move hands on what was held, and leaves nothing behind: an object     *)
(* that was as good as new stays so.                                       *)
LEMMA TakenIsWhole ==
  ASSUME NEW o \in Object
  PROVE  /\ Taken(o).mapped = o.mapped /\ Taken(o).tensors = o.tensors
         /\ \A f \in Files : o.mapped # None /\ Holds(o, f) => Holds(Taken(o), f)
         /\ o = Empty => Taken(o) = Empty /\ Left(o) = Empty
         /\ Left(o).mapped = None /\ Left(o).tensors = << >>
  <1>1. /\ Taken(o).mapped = o.mapped /\ Taken(o).tensors = o.tensors
        /\ Taken(o).header = o.header
        /\ Taken(o).manifest = IF o.mapped # None /\ o.header.bytes > 0
                               THEN Manifest(o.mapped, o.header) ELSE None
    BY DEF Taken, Object
  <1>2. ASSUME NEW f \in Files, o.mapped # None, Holds(o, f)
        PROVE  Holds(Taken(o), f)
    <2>1. HeaderAccepted(f) => /\ f.magic
                               /\ HeaderIn(f).bytes = f.manifest.bytes
                               /\ f.manifest.bytes \in Nat
      BY FilesAssumption DEF HeaderIn, HeaderAccepted
    <2> HIDE DEF HeaderIn, HeaderAccepted, Prefix, Manifest
    <2>2. QED
      BY <1>1, <1>2, <2>1 DEF Holds
  <1>3. o = Empty => Taken(o) = Empty
    BY DEF Taken, Empty
  <1>4. ASSUME o = Empty PROVE Left(o) = Empty
    <2>1. Left(o) \in Object
      BY MoveType
    <2>2. /\ Left(o).fd = o.fd /\ Left(o).size = o.size
          /\ Left(o).mapped = o.mapped /\ Left(o).header = o.header
          /\ Left(o).tensors = o.tensors /\ Left(o).manifest = o.manifest
      BY <1>4 DEF Left, Empty
    <2>3. QED
      BY <1>4, <2>1, <2>2 DEF Object
  <1>5. Left(o).mapped = None /\ Left(o).tensors = << >>
    BY DEF Left, Object
  <1>6. QED
    BY <1>1, <1>2, <1>3, <1>4, <1>5

(* A close of another object leaves the file an object maps.               *)
LEMMA CloseUndisturbed ==
  ASSUME Inv, NEW h \in Handles, NEW g \in Handles, g # h,
         obj[g].mapped # None
  PROVE  /\ obj[g].mapped \in Addresses
         /\ MappingAfterClose(h)[obj[g].mapped] = mapping[obj[g].mapped]
         /\ mapping[obj[g].mapped] \in Files
         /\ mapping[obj[g].mapped] # None
  <1>1. obj[g].mapped \in Addresses /\ obj[g].mapped # obj[h].mapped
    BY DEF Inv, TypeOK, Distinct
  <1>2. mapping[obj[g].mapped] \in Files
    BY <1>1 DEF Inv, TypeOK, KnowsItsMapping
  <1>3. QED
    BY <1>1, <1>2, CloseReleases, NoneAssumption

LEMMA CloseKeepsWhole ==
  ASSUME Inv, Whole, NEW h \in Handles,
         obj' = [obj EXCEPT ![h] = Empty],
         mapping' = MappingAfterClose(h),
         moved' = moved \ {h}
  PROVE  Whole'
  <1>1. obj'[h] = Empty /\ \A g \in Handles : g # h => obj'[g] = obj[g]
    BY DEF Inv, TypeOK
  <1> SUFFICES ASSUME NEW g \in Handles
               PROVE  /\ obj'[g].mapped = None =>
                           /\ obj'[g].tensors = << >>
                           /\ g \notin moved' => obj'[g] = Empty
                      /\ obj'[g].mapped # None =>
                           /\ g \notin moved'
                           /\ Holds(obj'[g], mapping'[obj'[g].mapped])
    BY DEF Whole
  <1>2. CASE g = h
    BY <1>1, <1>2, EmptyIsWhole
  <1>3. CASE g # h
    BY <1>1, <1>3, CloseUndisturbed DEF Whole
  <1>4. QED
    BY <1>2, <1>3

LEMMA OpenKeepsWhole ==
  ASSUME Inv, Whole, NEW h \in Handles, NEW f \in Files, OpenFile(h, f)
  PROVE  Whole'
  <1>1. PICK a \in Addresses, fd \in Fds :
          /\ MappingAfterClose(h)[a] = None
          /\ obj' = [obj EXCEPT ![h] = Parsed(a, fd, f)]
          /\ mapping' = [MappingAfterClose(h) EXCEPT ![a] = f]
          /\ moved' = moved \ {h}
    BY DEF OpenFile
  <1>2. /\ obj'[h] = Parsed(a, fd, f) /\ mapping'[a] = f
        /\ \A g \in Handles : g # h => obj'[g] = obj[g]
        /\ \A b \in Addresses : b # a => mapping'[b] = MappingAfterClose(h)[b]
    BY <1>1, CloseReleases DEF Inv, TypeOK
  <1> SUFFICES ASSUME NEW g \in Handles
               PROVE  /\ obj'[g].mapped = None =>
                           /\ obj'[g].tensors = << >>
                           /\ g \notin moved' => obj'[g] = Empty
                      /\ obj'[g].mapped # None =>
                           /\ g \notin moved'
                           /\ Holds(obj'[g], mapping'[obj'[g].mapped])
    BY DEF Whole
  <1>3. CASE g = h
    BY <1>1, <1>2, <1>3, ParsedIsWhole, NoneAssumption
  <1>4. CASE g # h /\ obj[g].mapped = None
    BY <1>1, <1>2, <1>4 DEF Whole
  <1>5. CASE g # h /\ obj[g].mapped # None
    <2>1. obj[g].mapped \in Addresses /\ obj[g].mapped # a
      BY <1>1, <1>5, CloseUndisturbed
    <2>2. mapping'[obj[g].mapped] = mapping[obj[g].mapped]
      BY <1>2, <1>5, <2>1, CloseUndisturbed
    <2>3. QED
      BY <1>1, <1>2, <1>5, <2>2 DEF Whole
  <1>6. QED
    BY <1>3, <1>4, <1>5

LEMMA MoveKeepsWhole ==
  ASSUME Inv, Whole, NEW h \in Handles, NEW g \in Handles, h # g,
         obj' = [obj EXCEPT ![h] = Taken(obj[g]), ![g] = Left(obj[g])],
         mapping' = MappingAfterClose(h),
         moved' = MovedAfter(h, g)
  PROVE  Whole'
  <1>0. obj \in [Handles -> Object]
    BY DEF Inv, TypeOK, Object
  <1>1. /\ obj'[h] = Taken(obj[g]) /\ obj'[g] = Left(obj[g])
        /\ \A k \in Handles : k # h /\ k # g => obj'[k] = obj[k]
    BY <1>0
  <1>2. /\ g \in moved' /\ (h \in moved' <=> g \in moved)
        /\ \A k \in Handles : k # h /\ k # g => (k \in moved' <=> k \in moved)
    BY DEF MovedAfter
  <1>3. obj[g] \in Object
    BY <1>0
  <1> SUFFICES ASSUME NEW k \in Handles
               PROVE  /\ obj'[k].mapped = None =>
                           /\ obj'[k].tensors = << >>
                           /\ k \notin moved' => obj'[k] = Empty
                      /\ obj'[k].mapped # None =>
                           /\ k \notin moved'
                           /\ Holds(obj'[k], mapping'[obj'[k].mapped])
    BY DEF Whole
  <1>4. CASE k = h /\ obj[g].mapped = None
    BY <1>1, <1>2, <1>3, <1>4, TakenIsWhole DEF Whole
  <1>5. CASE k = h /\ obj[g].mapped # None
    <2>1. mapping'[obj[g].mapped] = mapping[obj[g].mapped]
          /\ mapping[obj[g].mapped] \in Files
      BY <1>5, CloseUndisturbed
    <2>2. g \notin moved /\ Holds(obj[g], mapping[obj[g].mapped])
      BY <1>5 DEF Whole
    <2>3. Holds(Taken(obj[g]), mapping[obj[g].mapped])
      BY <1>3, <1>5, <2>1, <2>2, TakenIsWhole
    <2>4. Taken(obj[g]).mapped = obj[g].mapped
      BY <1>3, TakenIsWhole
    <2>5. QED
      BY <1>1, <1>2, <1>5, <2>1, <2>2, <2>3, <2>4
  <1>6. CASE k = g
    BY <1>1, <1>2, <1>3, <1>6, TakenIsWhole
  <1>7. CASE k # h /\ k # g
    <2>1. obj'[k] = obj[k] /\ (k \in moved' <=> k \in moved)
      BY <1>1, <1>2, <1>7
    <2>2. obj[k].mapped # None =>
            mapping'[obj[k].mapped] = mapping[obj[k].mapped]
      BY <1>7, CloseUndisturbed
    <2>3. QED
      BY <2>1, <2>2 DEF Whole
  <1>8. QED
    BY <1>4, <1>5, <1>6, <1>7

LEMMA InitWhole == Init => Whole
  BY EmptyIsWhole DEF Init, Whole

LEMMA NextWhole == Inv /\ Whole /\ [Next]_vars => Whole'
  <1> SUFFICES ASSUME Inv, Whole, [Next]_vars PROVE Whole'
    OBVIOUS
  <1>1. ASSUME NEW h \in Handles, Construct(h) \/ Close(h) \/ Destroy(h)
        PROVE  Whole'
    <2>1. /\ obj' = [obj EXCEPT ![h] = Empty] /\ moved' = moved \ {h}
          /\ mapping' = MappingAfterClose(h)
      BY <1>1, CloseOfEmpty DEF Construct, Close, Destroy
    <2>2. QED
      BY <2>1, CloseKeepsWhole
  <1>2. ASSUME NEW h \in Handles, NEW f \in Files, OpenFile(h, f) PROVE Whole'
    BY <1>2, OpenKeepsWhole
  <1>3. ASSUME NEW h \in Handles, NEW g \in Handles,
               MoveAssign(h, g) \/ MoveConstruct(h, g)
        PROVE  Whole'
    <2>1. /\ h # g /\ mapping' = MappingAfterClose(h)
          /\ obj' = [obj EXCEPT ![h] = Taken(obj[g]), ![g] = Left(obj[g])]
          /\ moved' = MovedAfter(h, g)
      BY <1>3, CloseOfEmpty DEF MoveAssign, MoveConstruct
    <2>2. QED
      BY <2>1, MoveKeepsWhole
  <1>4. ASSUME UNCHANGED vars PROVE Whole'
    BY <1>4 DEF vars, Whole
  <1>5. QED
    BY <1>1, <1>2, <1>3, <1>4 DEF Next, OpenFails

LEMMA WholeInvariance == Spec => [](Inv /\ Whole)
  BY InitInv, NextInv, InitWhole, NextWhole, PTL DEF Spec

(* An object that holds an accepted pack holds all of it, whatever moves   *)
(* brought it there, for any files; one that holds no file is as good as   *)
(* new unless it was given away (open(), close(), operator=).              *)
THEOREM Wholeness == Spec => []HandlesAreWhole
  <1>1. Inv /\ Whole => HandlesAreWhole
    <2> SUFFICES ASSUME Inv, Whole, NEW h \in Handles, obj[h].mapped # None,
                        Accepted(mapping[obj[h].mapped])
                 PROVE  LET f == mapping[obj[h].mapped] IN
                          /\ obj[h].header = HeaderIn(f)
                          /\ obj[h].tensors = f.tensors
                          /\ f.manifest.bytes > 0 =>
                               obj[h].manifest =
                                 Manifest(obj[h].mapped, HeaderIn(f))
      BY DEF HandlesAreWhole, Whole
    <2>1. mapping[obj[h].mapped] \in Files
      BY DEF Inv, TypeOK, KnowsItsMapping
    <2>2. Prefix(mapping[obj[h].mapped]) = mapping[obj[h].mapped].tensors
      BY <2>1, PrefixIsAccepted DEF Accepted
    <2>3. Holds(obj[h], mapping[obj[h].mapped])
      BY DEF Whole
    <2>4. QED
      BY <2>2, <2>3 DEF Holds, Accepted, HeaderAccepted
  <1>2. QED
    BY <1>1, WholeInvariance, PTL

(* No pointer an object gives out leaves the file it maps, for any file    *)
(* parse() may be given: the checks of parse() and of tensor_data() are    *)
(* enough, after moves and after a parse that threw.                       *)
THEOREM Containment == Spec => []ViewsAreInside
  <1>1. Inv /\ Whole => ViewsAreInside
    <2> SUFFICES ASSUME Inv, Whole, NEW h \in alive
                 PROVE  LET o == obj[h] IN
      /\ \A k \in DOMAIN o.tensors :
           LET t == o.tensors[k] IN
             /\ TensorData(o, t) # None
             /\ t.layout = "sm86" =>
                  \A aux \in {t.aux0, t.aux1} :
                    /\ aux < t.offset + t.bytes
                    /\ \/ /\ TensorAuxData(o, aux) # None
                          /\ Points(TensorAuxData(o, aux))
                       \/ aux = 0 /\ mapping[o.mapped].data = 0
      /\ \A f \in Files : \A k \in DOMAIN f.tensors :
           TensorData(o, f.tensors[k]) # None =>
             Points(TensorData(o, f.tensors[k]))
      /\ o.manifest # None /\ h \notin moved
           /\ Accepted(mapping[o.mapped]) =>
           o.manifest.at = o.mapped /\ Points(o.manifest)
      BY DEF ViewsAreInside
    <2> DEFINE o == obj[h]
               m == mapping[o.mapped]
    <2>0. h \in Handles
      BY DEF Inv, TypeOK
    <2>1. o.mapped # None => /\ o.mapped \in Addresses /\ m \in Files
                             /\ m # None /\ m.size = o.size /\ m.size \in Nat
      BY <2>0, FilesAssumption, NoneAssumption DEF Inv, TypeOK, KnowsItsMapping
    <2>2. ASSUME NEW k \in DOMAIN o.tensors
          PROVE  LET t == o.tensors[k] IN
             /\ TensorData(o, t) # None
             /\ t.layout = "sm86" =>
                  \A aux \in {t.aux0, t.aux1} :
                    /\ aux < t.offset + t.bytes
                    /\ \/ /\ TensorAuxData(o, aux) # None
                          /\ Points(TensorAuxData(o, aux))
                       \/ aux = 0 /\ mapping[o.mapped].data = 0
      <3> DEFINE t == o.tensors[k]
      <3>1. o.mapped # None /\ Holds(o, m)
        <4>1. o.tensors # << >>
          BY <2>2
        <4>2. QED
          BY <2>0, <4>1 DEF Whole
      <3>2. o.tensors = Prefix(m)
        BY <2>2, <3>1 DEF Holds
      <3>3. t \in TensorRecord /\ TensorAccepted(m, t)
        BY <2>1, <2>2, <3>1, <3>2, PrefixIsAccepted, FilesAssumption
      <3>4. t.offset \in Nat /\ t.bytes \in Nat /\ t.aux0 \in Nat
            /\ t.aux1 \in Nat /\ m.data \in Nat /\ o.size \in Nat
        BY <2>1, <3>1, <3>3, FilesAssumption DEF TensorRecord
      <3> HIDE DEF t, m, o
      <3>5. InRange(t.offset, t.bytes, o.size)
        BY <2>1, <3>1, <3>3 DEF TensorAccepted
      <3>6. TensorData(o, t) # None
        <4>1. [at |-> o.mapped, offset |-> t.offset, bytes |-> t.bytes]
                \in [at : Addresses, offset : Nat, bytes : Nat]
          BY <2>1, <3>1, <3>4
        <4>2. QED
          BY <3>1, <3>5, <4>1, NoneAssumption DEF TensorData
      <3>7. ASSUME t.layout = "sm86", NEW aux \in {t.aux0, t.aux1}
            PROVE  /\ aux < t.offset + t.bytes
                   /\ \/ /\ TensorAuxData(o, aux) # None
                         /\ Points(TensorAuxData(o, aux))
                      \/ aux = 0 /\ m.data = 0
        <4>1. /\ aux \in Nat /\ t.offset <= aux /\ aux < t.offset + t.bytes
              /\ m.data <= t.offset
          BY <3>3, <3>4, <3>7 DEF TensorAccepted
        <4>2. CASE aux = 0
          BY <3>4, <4>1, <4>2
        <4>3. CASE aux # 0
          <5>1. InRange(aux, 1, o.size) /\ aux + 1 <= o.size
            BY <3>4, <3>5, <4>1 DEF InRange
          <5>2. TensorAuxData(o, aux) = [at |-> o.mapped, offset |-> aux,
                                         bytes |-> 1]
            BY <3>1, <4>3, <5>1 DEF TensorAuxData
          <5>3. [at |-> o.mapped, offset |-> aux, bytes |-> 1]
                  \in [at : Addresses, offset : Nat, bytes : Nat]
            BY <2>1, <3>1, <4>1
          <5>4. mapping[o.mapped] # None /\ mapping[o.mapped].size = o.size
            BY <2>1, <3>1 DEF m
          <5>5. Points(TensorAuxData(o, aux))
            BY <5>1, <5>2, <5>4 DEF Points
          <5>6. QED
            BY <4>1, <5>2, <5>3, <5>5, NoneAssumption
        <4>4. QED
          BY <4>2, <4>3
      <3>8. QED
        BY <3>6, <3>7 DEF t, m, o
    <2>3. ASSUME NEW f \in Files, NEW k \in DOMAIN f.tensors,
                 TensorData(o, f.tensors[k]) # None
          PROVE  Points(TensorData(o, f.tensors[k]))
      <3> DEFINE t == f.tensors[k]
      <3>1. t.offset \in Nat /\ t.bytes \in Nat
        <4>1. t \in TensorRecord
          BY FilesAssumption
        <4>2. QED
          BY <4>1 DEF TensorRecord
      <3>2. o.mapped # None /\ InRange(t.offset, t.bytes, o.size)
        BY <2>3 DEF TensorData
      <3>3. TensorData(o, t) = [at |-> o.mapped, offset |-> t.offset,
                                bytes |-> t.bytes]
        BY <3>2 DEF TensorData
      <3>4. t.offset + t.bytes <= mapping[o.mapped].size
        BY <2>1, <3>1, <3>2 DEF InRange
      <3> HIDE DEF t
      <3>5. Points(TensorData(o, t))
        BY <2>1, <3>2, <3>3, <3>4 DEF Points
      <3>6. QED
        BY <3>5 DEF t
    <2>4. ASSUME o.manifest # None, h \notin moved, Accepted(m)
          PROVE  o.manifest.at = o.mapped /\ Points(o.manifest)
      <3>1. o.mapped # None
        BY <2>0, <2>4 DEF Whole, Empty
      <3>2. o.manifest = Manifest(o.mapped, HeaderIn(m))
        BY <2>0, <2>4, <3>1 DEF Whole, Holds, Accepted
      <3>3. /\ o.manifest.at = o.mapped
            /\ o.manifest.offset = m.manifest.offset
            /\ o.manifest.bytes = m.manifest.bytes
        BY <3>2 DEF Manifest, HeaderIn
      <3>4. InRange(m.manifest.offset, m.manifest.bytes, m.size)
        BY <2>4 DEF Accepted, HeaderAccepted
      <3>5. m.manifest.offset + m.manifest.bytes <= m.size
        BY <2>1, <3>1, <3>4, FilesAssumption DEF InRange
      <3>6. QED
        BY <2>1, <3>1, <3>3, <3>5 DEF Points
    <2>5. QED
      BY <2>2, <2>3, <2>4
  <1>2. QED
    BY <1>1, WholeInvariance, PTL

-----------------------------------------------------------------------------
(* The refinement.                                                         *)
Owns(h) == IF obj[h].mapped = None THEN None
           ELSE <<obj[h].mapped, mapping[obj[h].mapped]>>
owns == [h \in Handles |-> Owns(h)]

LEMMA CloseOwns ==
  ASSUME Inv, NEW h \in Handles, NEW g \in Handles, g # h,
         mapping' = MappingAfterClose(h), obj'[g] = obj[g]
  PROVE  owns'[g] = owns[g]
  <1>1. CASE obj[g].mapped = None
    BY <1>1 DEF owns, Owns
  <1>2. CASE obj[g].mapped # None
    <2>1. obj[g].mapped \in Addresses /\ obj[g].mapped # obj[h].mapped
      BY <1>2 DEF Inv, TypeOK, Distinct
    <2>2. mapping'[obj[g].mapped] = mapping[obj[g].mapped]
      BY <2>1, CloseReleases
    <2>3. QED
      BY <2>2 DEF owns, Owns
  <1>3. QED
    BY <1>1, <1>2

LEMMA OpenAcquires ==
  ASSUME Inv, NEW h \in Handles, NEW f \in Files, OpenFile(h, f)
  PROVE  \E m \in Addresses \X Files :
           /\ m \notin {owns[g] : g \in Handles \ {h}}
           /\ owns' = [owns EXCEPT ![h] = m]
  <1>1. PICK a \in Addresses, fd \in Fds :
          /\ MappingAfterClose(h)[a] = None
          /\ obj' = [obj EXCEPT ![h] = Parsed(a, fd, f)]
          /\ mapping' = [MappingAfterClose(h) EXCEPT ![a] = f]
    BY DEF OpenFile
  <1>2. /\ obj'[h].mapped = a /\ a # None
        /\ \A g \in Handles \ {h} : obj'[g] = obj[g]
    BY <1>1, NoneAssumption DEF Parsed, Inv, TypeOK
  <1>3. mapping'[a] = f
    BY <1>1, CloseReleases
  <1>4. owns'[h] = <<a, f>>
    BY <1>2, <1>3 DEF owns, Owns
  <1>5. ASSUME NEW g \in Handles \ {h}
        PROVE  owns'[g] = owns[g] /\ owns[g] # <<a, f>>
    <2>1. CASE obj[g].mapped = None
      BY <2>1, <1>2, NoneAssumption DEF owns, Owns
    <2>2. CASE obj[g].mapped # None
      <3>1. obj[g].mapped \in Addresses /\ obj[g].mapped # obj[h].mapped
        BY <2>2 DEF Inv, TypeOK, Distinct
      <3>2. MappingAfterClose(h)[obj[g].mapped] = mapping[obj[g].mapped]
        BY <3>1, CloseReleases
      <3>3. obj[g].mapped # a
        BY <1>1, <2>2, <3>2 DEF Inv, KnowsItsMapping
      <3>4. mapping'[obj[g].mapped] = mapping[obj[g].mapped]
        BY <1>1, <3>1, <3>2, <3>3, CloseReleases
      <3>5. owns[g] = <<obj[g].mapped, mapping[obj[g].mapped]>>
            /\ owns'[g] = <<obj[g].mapped, mapping[obj[g].mapped]>>
        BY <1>2, <2>2, <3>4 DEF owns, Owns
      <3>6. QED
        BY <3>3, <3>5
    <2>3. QED
      BY <2>1, <2>2
  <1>6. owns' = [owns EXCEPT ![h] = <<a, f>>]
    BY <1>4, <1>5 DEF owns
  <1>7. QED
    BY <1>5, <1>6

LEMMA MoveTransfers ==
  ASSUME Inv, NEW h \in Handles, NEW g \in Handles, h # g,
         obj' = [obj EXCEPT ![h] = Taken(obj[g]), ![g] = Left(obj[g])],
         mapping' = MappingAfterClose(h)
  PROVE  owns' = [owns EXCEPT ![h] = owns[g], ![g] = None]
  <1> obj \in [Handles -> Object]
    BY DEF Inv, TypeOK, Object
  <1>1. obj'[h].mapped = obj[g].mapped
    BY DEF Taken, Object
  <1>2. obj'[g].mapped = None
    BY DEF Left, Object
  <1>3. owns'[g] = None
    BY <1>2 DEF owns, Owns
  <1>4. owns'[h] = owns[g]
    <2>1. CASE obj[g].mapped = None
      BY <2>1, <1>1 DEF owns, Owns
    <2>2. CASE obj[g].mapped # None
      <3>1. obj[g].mapped \in Addresses /\ obj[g].mapped # obj[h].mapped
        BY <2>2 DEF Inv, Distinct, Object
      <3>2. mapping'[obj[g].mapped] = mapping[obj[g].mapped]
        BY <3>1, CloseReleases
      <3>3. QED
        BY <1>1, <3>2 DEF owns, Owns
    <2>3. QED
      BY <2>1, <2>2
  <1>5. ASSUME NEW k \in Handles, k # h, k # g
        PROVE  owns'[k] = owns[k]
    BY <1>5, CloseOwns
  <1>6. QED
    BY <1>3, <1>4, <1>5 DEF owns

LEMMA StepRefines ==
  Inv /\ [Next]_vars => [Owner!Next]_owns
  <1> SUFFICES ASSUME Inv, [Next]_vars
               PROVE  Owner!Next \/ UNCHANGED owns
    OBVIOUS
  <1>1. ASSUME NEW h \in Handles, obj' = [obj EXCEPT ![h] = Empty],
               mapping' = MappingAfterClose(h)
        PROVE  owns' = [owns EXCEPT ![h] = None]
    <2>1. obj'[h] = Empty /\ \A g \in Handles \ {h} : obj'[g] = obj[g]
      BY <1>1 DEF Inv, TypeOK
    <2>2. owns'[h] = None
      BY <2>1 DEF owns, Owns, Empty
    <2>3. \A g \in Handles \ {h} : owns'[g] = owns[g]
      BY <1>1, <2>1, CloseOwns
    <2>4. QED
      BY <2>2, <2>3 DEF owns
  <1>2. ASSUME NEW h \in Handles, Close(h) \/ Destroy(h) \/ Construct(h)
        PROVE  Owner!Release(h)
    <2>1. /\ obj' = [obj EXCEPT ![h] = Empty]
          /\ mapping' = MappingAfterClose(h)
      BY <1>2, CloseOfEmpty DEF Close, Destroy, Construct
    <2>2. QED
      BY <1>1, <2>1 DEF Owner!Release, owns, Owns
  <1>3. ASSUME NEW h \in Handles, NEW f \in Files, OpenFile(h, f)
        PROVE  \E m \in Addresses \X Files : Owner!Acquire(h, m)
    BY <1>3, OpenAcquires DEF Owner!Acquire, owns, Owns
  <1>4. ASSUME NEW h \in Handles, NEW g \in Handles,
               MoveAssign(h, g) \/ MoveConstruct(h, g)
        PROVE  Owner!Transfer(h, g)
    <2>1. /\ h # g
          /\ obj' = [obj EXCEPT ![h] = Taken(obj[g]), ![g] = Left(obj[g])]
          /\ mapping' = MappingAfterClose(h)
      BY <1>4, CloseOfEmpty DEF MoveAssign, MoveConstruct
    <2>2. QED
      BY <2>1, MoveTransfers DEF Owner!Transfer, owns, Owns
  <1>5. ASSUME UNCHANGED vars PROVE UNCHANGED owns
    BY <1>5 DEF vars, owns, Owns
  <1>6. QED
    BY <1>2, <1>3, <1>4, <1>5 DEF Next, OpenFails, Owner!Next

(* Objects own mappings by value: whatever files are opened and whatever   *)
(* fails, an object acquires, releases or hands over one mapping at a time *)
(* and disturbs no other object.                                           *)
THEOREM Refinement == Spec => OwnsByValue
  <1>1. Init => Owner!Init
    BY DEF Init, Owner!Init, Empty
  <1>2. QED
    BY <1>1, StepRefines, Invariance, PTL
    DEF Spec, OwnsByValue, Owner!Spec, owns, Owns
=============================================================================
