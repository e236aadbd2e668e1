----------------------------- MODULE Converter ------------------------------
(***************************************************************************)
(* Conversions of GGUF models to one destination path, and a program that  *)
(* maps the result (tools/gguf_to_q38pack.py, convert; src/q38pack.cpp,    *)
(* PackFile::open).                                                        *)
(*                                                                         *)
(* A conversion builds destination.tmp and renames it over the             *)
(* destination.  Opening the temporary file truncates the one an earlier   *)
(* conversion left.  Any call may fail, a process may be killed between    *)
(* two writes, and the machine may lose power: what was not fsynced        *)
(* may then be gone, and a rename may turn out not to have happened.       *)
(*                                                                         *)
(* Nothing keeps two conversions to the same path apart.  They would share *)
(* the temporary file, so the guarantees are for conversions that do not   *)
(* overlap; overlapped records that two of them did.                       *)
(***************************************************************************)
EXTENDS Q38Pack

CONSTANTS
  Converters,
  Sources,    \* the models
  Inodes,     \* bound on files alive at once
  MaxStarts,  \* bound on conversions started
  MaxLosses,  \* bound on power losses
  NoFile

ASSUME NoFileAssumption == NoFile \notin Inodes
ASSUME SourcesAssumption == Sources \subseteq GgufModels

VARIABLES
  conv,        \* each converter: [pc, source, version, next, fd]
  dir,         \* [tmp, dest] -> inode
  durable,     \* the directories that may survive a power loss
  content,     \* inode -> cells
  synced,      \* inodes whose content would survive a power loss
  built,       \* inode -> the model written to it last
  view,        \* what the program that mapped the destination sees
  overlapped,  \* two conversions were active at once
  starts, losses

vars == <<conv, dir, durable, content, synced, built, view, overlapped,
          starts, losses>>

Idle   == [pc |-> "idle", source |-> NoFile, version |-> 0, next |-> 0,
           fd |-> NoFile]
NoView == [inode |-> NoFile, cells |-> << >>]
Names  == {"tmp", "dest"}

Init ==
  /\ conv = [c \in Converters |-> Idle]
  /\ dir = [n \in Names |-> NoFile]
  /\ durable = {dir}
  /\ content = [x \in Inodes |-> << >>]
  /\ synced = {}
  /\ built = [x \in Inodes |-> NoFile]
  /\ view = NoView
  /\ overlapped = FALSE
  /\ starts = 0 /\ losses = 0

(* Inodes that a name, a descriptor or a mapping still refers to.          *)
InUse ==
  {d[n] : d \in durable, n \in Names} \cup {conv[c].fd : c \in Converters}
    \cup {view.inode}

Relink(d) == dir' = d /\ durable' = durable \cup {d}

(* parse_gguf and the layout, before any file is touched.                  *)
Start(c) ==
  /\ conv[c].pc = "idle" /\ starts < MaxStarts
  /\ \E s \in Sources, v \in Versions :
       /\ Convertible(s, v)
       /\ conv' = [conv EXCEPT ![c] = [pc |-> "open", source |-> s,
                                       version |-> v, next |-> 1,
                                       fd |-> NoFile]]
  /\ starts' = starts + 1
  /\ overlapped' = (overlapped \/ \E d \in Converters : conv[d].pc # "idle")
  /\ UNCHANGED <<dir, durable, content, synced, built, view, losses>>

(* tmp.open("wb+"): truncates what is there, or makes a new file.          *)
OpenTmp(c) ==
  /\ conv[c].pc = "open"
  /\ \E x \in Inodes :
       /\ IF dir["tmp"] # NoFile THEN x = dir["tmp"] ELSE x \notin InUse
       /\ content' = [content EXCEPT ![x] = << >>]
       /\ synced' = synced \ {x}
       /\ built' = [built EXCEPT ![x] = conv[c].source]
       /\ Relink([dir EXCEPT !["tmp"] = x])
       /\ conv' = [conv EXCEPT ![c].pc = "write", ![c].fd = x]
  /\ UNCHANGED <<view, overlapped, starts, losses>>

Plan(c) == Writes(conv[c].source, conv[c].version)

WriteNext(c) ==
  /\ conv[c].pc = "write" /\ conv[c].next \in DOMAIN Plan(c)
  /\ LET w == Plan(c)[conv[c].next]
         x == conv[c].fd
     IN  /\ content' = [content EXCEPT ![x] = Write(@, w.at, w.cells)]
         /\ synced' = synced \ {x}
  /\ conv' = [conv EXCEPT ![c].next = @ + 1]
  /\ UNCHANGED <<dir, durable, built, view, overlapped, starts, losses>>

(* Mutant: the fsync is left out.                                          *)
Sync_NoFsync(c) ==
  /\ conv[c].pc = "write" /\ conv[c].next > Len(Plan(c))
  /\ conv' = [conv EXCEPT ![c].pc = "replace", ![c].fd = NoFile]
  /\ UNCHANGED <<dir, durable, content, synced, built, view, overlapped,
                 starts, losses>>

(* os.fsync after the header, the last write.                              *)
Sync(c) ==
  /\ conv[c].pc = "write" /\ conv[c].next > Len(Plan(c))
  /\ synced' = synced \cup {conv[c].fd}
  /\ conv' = [conv EXCEPT ![c].pc = "replace", ![c].fd = NoFile]
  /\ UNCHANGED <<dir, durable, content, built, view, overlapped, starts,
                 losses>>

(* Mutant: the file is copied over an existing destination.                *)
Replace_Copies(c) ==
  /\ conv[c].pc = "replace" /\ dir["tmp"] # NoFile
  /\ IF dir["dest"] = NoFile
     THEN /\ Relink([tmp |-> NoFile, dest |-> dir["tmp"]])
          /\ UNCHANGED <<content, built>>
     ELSE /\ Relink([dir EXCEPT !["tmp"] = NoFile])
          /\ content' = [content EXCEPT ![dir["dest"]] = content[dir["tmp"]]]
          /\ built' = [built EXCEPT ![dir["dest"]] = built[dir["tmp"]]]
  /\ conv' = [conv EXCEPT ![c] = Idle]
  /\ UNCHANGED <<synced, view, overlapped, starts, losses>>

(* os.replace: renames whatever the temporary name now refers to.          *)
Replace(c) ==
  /\ conv[c].pc = "replace" /\ dir["tmp"] # NoFile
  /\ Relink([tmp |-> NoFile, dest |-> dir["tmp"]])
  /\ conv' = [conv EXCEPT ![c] = Idle]
  /\ UNCHANGED <<content, synced, built, view, overlapped, starts, losses>>

(* An exception or a kill at any point: the temporary file stays.          *)
Stop(c) ==
  /\ conv[c].pc # "idle"
  /\ conv' = [conv EXCEPT ![c] = Idle]
  /\ UNCHANGED <<dir, durable, content, synced, built, view, overlapped,
                 starts, losses>>

PowerLoss ==
  /\ losses < MaxLosses
  /\ losses' = losses + 1
  /\ conv' = [c \in Converters |-> Idle]
  /\ dir' \in durable /\ durable' = {dir'}
  /\ \E lost \in SUBSET (Inodes \ synced) :
       content' = [x \in Inodes |-> IF x \in lost THEN << >> ELSE content[x]]
  /\ view' = NoView
  /\ UNCHANGED <<synced, built, overlapped, starts>>

(* PackFile::open: the mapping is of the file, not of the name.            *)
MapPack ==
  /\ dir["dest"] # NoFile
  /\ PackFileAccepts(content[dir["dest"]])
  /\ view' = [inode |-> dir["dest"], cells |-> content[dir["dest"]]]
  /\ UNCHANGED <<conv, dir, durable, content, synced, built, overlapped,
                 starts, losses>>

Unmap ==
  /\ view # NoView
  /\ view' = NoView
  /\ UNCHANGED <<conv, dir, durable, content, synced, built, overlapped,
                 starts, losses>>

Next ==
  \/ \E c \in Converters :
       Start(c) \/ OpenTmp(c) \/ WriteNext(c) \/ Sync(c) \/ Replace(c)
         \/ Stop(c)
  \/ PowerLoss \/ MapPack \/ Unmap

Spec == Init /\ [][Next]_vars

-----------------------------------------------------------------------------
(* A file that opens and decodes to its model, which has no empty tensor.  *)
Whole(x) == NoEmptyTensor(built[x]) => Decodes(content[x], built[x])

(* The destination, now or after a power loss, is a pack that opens and    *)
(* decodes to its model, whatever failed on the way; and "the C++ and      *)
(* Python readers accept both v1 and v2": they agree about it.             *)
DestinationIsComplete ==
  ~overlapped =>
    \A d \in durable :
      LET x == d["dest"] IN
        x # NoFile =>
          /\ x \in synced
          /\ Whole(x)
          /\ PackFileAccepts(content[x]) <=> PackReaderAccepts(content[x])

(* A mapped pack keeps its bytes while new packs replace it.               *)
ViewIsStable ==
  ~overlapped /\ view # NoView => content[view.inode] = view.cells

(* PackPublish; overlapped is the one of this module.                      *)
PackOf(d) ==
  IF d["dest"] = NoFile THEN NoFile
  ELSE IF Whole(d["dest"]) THEN built[d["dest"]]
  ELSE [name |-> "torn"]

Publisher == INSTANCE PackPublish
  WITH Models    <- {s \in Sources : \E v \in Versions : Convertible(s, v)},
       NoPack    <- NoFile,
       pack      <- PackOf(dir),
       survivors <- {PackOf(d) : d \in durable}

Publishes == Publisher!Spec
=============================================================================
