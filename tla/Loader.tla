------------------------------- MODULE Loader -------------------------------
(***************************************************************************)
(* The way of an executable through the recompiler's loader and into the   *)
(* metadata file: XexImage::LoadXex reads the headers of the XEX, decrypts *)
(* and expands the image, reads the PE image inside and binds the imports; *)
(* exportMetadata writes sections and imported variables to MD.tss, and    *)
(* the runtime's importMetadata reads them.  A cell stands for the bytes   *)
(* the cipher takes at once; an import record is a cell of the image.      *)
(***************************************************************************)
EXTENDS Integers, Sequences, SequencesExt

CONSTANTS
  Files,       (* the executables, see below                               *)
  Table,       (* ImportTable.h: [lib, ordinal, name]                      *)
  MaxImage,    (* cells of the largest image                               *)
  Wrap,        (* the cells 32 bits count: a sum of header fields is cut   *)
  Zero,        (* content of a cell that is zero                           *)
  Junk,        (* content of a cell decrypted with the wrong key or state  *)
  Mz, Code,    (* content: the PE headers; code or data                    *)
  NoFile

(***************************************************************************)
(* A file is [magic, opts, cert, devkit, head, source, pe]: whether it     *)
(* starts with XEX2, its optional headers, whether the certificate and     *)
(* section table lie in the file, whether its key is the devkit's, how     *)
(* many cells stand before the image, the cells of the image, before they  *)
(* were encrypted, and the PE image: [valid, sections].  An optional       *)
(* header is [key, crosses, short] with what its key asks for: crosses     *)
(* tells that its length leads out of the file, short that a read does.    *)
(***************************************************************************)
Numbers == 0 .. Wrap - 1

SectionHeaders ==
  [name : STRING, voff : Numbers, vsize : Numbers, poff : Numbers, psize : Numbers]

OptionalHeaders ==
  [key : {"base", "entry"}, value : Nat, crosses : BOOLEAN, short : BOOLEAN]
  \cup [key : {"execution"}, title : Nat, crosses : BOOLEAN, short : BOOLEAN]
  \cup [key : {"format"}, encrypted : BOOLEAN, compression : {"none", "basic", "normal", "delta"},
        blocks : Seq([data : Numbers, zero : Numbers]), crosses : BOOLEAN, short : BOOLEAN]
  \cup [key : {"imports"}, table : Seq(STRING), libs : Seq([index : Nat, records : Seq(Nat)]),
        crosses : BOOLEAN, short : BOOLEAN]
  \cup [key : {"resources"}, count : Nat, crosses : BOOLEAN, short : BOOLEAN]
  \cup [key : {"other"}, crosses : BOOLEAN, short : BOOLEAN]

(* The word of an import as it stands in the image. *)
Words == [type : Nat, lib : Nat, ordinal : Nat]

Contents == {Zero, Junk, Mz, Code} \cup Words

(* A cell of the image: a content, or the k-th cell of the source as it    *)
(* stands in an encrypted file.                                            *)
Sealed(k) == [sealed |-> k]

Cells == Contents \cup [sealed : Nat]

ASSUME WrapAssumption == Wrap \in Nat \ {0}

(* The image begins in the file, whose size is a number of 32 bits.        *)
ASSUME FileAssumption ==
  \A f \in Files : f.magic =>
    /\ f.opts \in Seq(OptionalHeaders)
    /\ f.head \in Nat
    /\ f.source \in Seq(Contents)
    /\ f.head + Len(f.source) < Wrap
    /\ f.pe.sections \in Seq(SectionHeaders)

ASSUME TableAssumption == Table \subseteq [lib : STRING, ordinal : Nat, name : STRING]

(* The PE header is neither zero nor what a wrong key makes of it. *)
ASSUME HeaderAssumption == Mz \notin {Zero, Junk}

VARIABLES
  file,        (* the file, or NoFile                                      *)
  pc,          (* the step of LoadXex and main                             *)
  at,          (* index of the loop at hand                                *)
  xex,         (* m_xexData and m_libNames                                 *)
  memory,      (* m_memoryData, a sequence of m_memorySize cells           *)
  ivec,        (* the source cell the chained decryption expects next      *)
  sections,    (* m_sections                                               *)
  imports,     (* m_imports                                                *)
  md,          (* MD.tss: a sequence of fields                             *)
  meta         (* the header the runtime reads from it                     *)

vars == <<file, pc, at, xex, memory, ivec, sections, imports, md, meta>>

loaded == <<xex, memory, ivec, sections, imports>>

Init ==
  /\ file \in Files \cup {NoFile}
  /\ pc = "open" /\ at = 1
  /\ xex = [base |-> 0, entry |-> 0, encrypted |-> FALSE, compression |-> "none",
            blocks |-> <<>>, title |-> 0, libNames |-> <<>>, records |-> <<>>, devkit |-> TRUE]
  /\ memory = <<>> /\ ivec = 1
  /\ sections = <<>> /\ imports = <<>>
  /\ md = <<>> /\ meta = <<>>

Go(label) == pc' = label /\ at' = 1

Fail == Go("failed") /\ UNCHANGED loaded

(* What a loop over s that pushes the elements in S back makes. *)
Kept(s, S) == FoldLeft(LAMBDA t, e : IF e \in S THEN Append(t, e) ELSE t, <<>>, s)

Total(ns) == FoldLeft(LAMBDA n, k : n + k, 0, ns)
-----------------------------------------------------------------------------
(* LoadHeaders.  Headers that cross the end of the file are left out. *)
Opts == Kept(file.opts, {o \in ToSet(file.opts) : ~ o.crosses})

OpenFile ==
  /\ pc = "open"
  /\ IF file # NoFile /\ file.magic THEN Go("headers") ELSE Go("failed")
  /\ UNCHANGED loaded

(* A library's name is the entry of the string table its index gives, or   *)
(* "Unknown"; an empty name is not kept, which shifts the ones behind it.  *)
LibName(table, lib) == IF lib.index \in DOMAIN table THEN table[lib.index] ELSE "Unknown"

AddLibrary(x, table, lib) ==
  [x EXCEPT !.libNames = IF LibName(table, lib) = "" THEN @ ELSE Append(@, LibName(table, lib)),
            !.records = @ \o lib.records]

Processed(x, o) ==
  CASE o.key = "base"      -> [x EXCEPT !.base = o.value]
    [] o.key = "entry"     -> [x EXCEPT !.entry = o.value]
    [] o.key = "execution" -> [x EXCEPT !.title = o.title]
    [] o.key = "format"    -> [x EXCEPT !.encrypted = o.encrypted, !.compression = o.compression,
                                        !.blocks = IF o.compression = "basic" THEN o.blocks ELSE @]
    [] o.key = "imports"   -> FoldLeft(LAMBDA y, lib : AddLibrary(y, o.table, lib), x, o.libs)
    [] OTHER               -> x

(* The entries of the resource header are stored at the place of the       *)
(* header: behind the end of the array, this may end the program.          *)
Overruns(o) == o.key = "resources" /\ o.count > 0 /\ at > o.count

ProcessHeader ==
  /\ pc = "headers" /\ at <= Len(Opts)
  /\ \/ Opts[at].short /\ Fail
     \/ Overruns(Opts[at]) /\ Go("dead") /\ UNCHANGED loaded
     \/ /\ ~ Opts[at].short
        /\ xex' = Processed(xex, Opts[at])
        /\ at' = at + 1
        /\ UNCHANGED <<pc, memory, ivec, sections, imports>>

(* Certificate and section table; the key is guessed from the title id.    *)
FinishHeaders ==
  /\ pc = "headers" /\ at > Len(Opts)
  /\ IF file.cert
     THEN /\ xex' = [xex EXCEPT !.devkit = (xex.title = 0)]
          /\ Go("image")
          /\ UNCHANGED <<memory, ivec, sections, imports>>
     ELSE Fail
-----------------------------------------------------------------------------
(* LoadImageData.  Without compression there are no blocks and no image.   *)
(* The size of the image is a sum of 32 bits, and so is the step from one  *)
(* block to the next; the pointers that are moved on do not wrap.          *)
Described(blocks) == Total([k \in DOMAIN blocks |-> blocks[k].data + blocks[k].zero])

SizeOf(blocks) == Described(blocks) % Wrap

Placed(blocks) == Total([k \in DOMAIN blocks |-> (blocks[k].data + blocks[k].zero) % Wrap])

Consumed(blocks) == Total([k \in DOMAIN blocks |-> blocks[k].data])

StartImage ==
  /\ pc = "image"
  /\ IF xex.compression \in {"none", "basic"} /\ SizeOf(xex.blocks) < MaxImage
     THEN /\ memory' = [k \in 1 .. SizeOf(xex.blocks) |-> Zero]
          /\ Go("blocks")
          /\ UNCHANGED <<xex, ivec, sections, imports>>
     ELSE Fail

(* A source cell as it stands in the file.  What lies behind the file is   *)
(* anything.                                                               *)
Stored(k) ==
  IF k \notin DOMAIN file.source THEN Junk
  ELSE IF xex.encrypted THEN Sealed(k) ELSE file.source[k]

(* The cell a source cell is decrypted to: the chain must not have missed  *)
(* the one before it.                                                      *)
Decrypted(k, expected) ==
  IF k \notin DOMAIN file.source \/ ~ xex.encrypted THEN Stored(k)
  ELSE IF xex.devkit = file.devkit /\ expected = k THEN file.source[k]
  ELSE Junk

(* Mutant: the state of the cipher is set up again for every block.        *)
ChainAnew(first, k) == IF k = first THEN 1 ELSE k

Chain(first, k) == IF k = first THEN ivec ELSE k

(* One block: data_size cells are copied, zero_size cells are left zero.   *)
(* Nothing stops it at the end of the file or of the image: where it goes  *)
(* on behind them, the program goes on too, or ends.                       *)
CopyBlock ==
  /\ pc = "blocks" /\ at <= Len(xex.blocks)
  /\ LET done  == SubSeq(xex.blocks, 1, at - 1)
         n     == xex.blocks[at].data
         dest  == Placed(done)
         first == Consumed(done) + 1
     IN \/ /\ memory' = [p \in DOMAIN memory |->
                           IF p \in dest + 1 .. dest + n
                           THEN Decrypted(first + p - dest - 1, Chain(first, first + p - dest - 1))
                           ELSE memory[p]]
           /\ ivec' = IF n = 0 THEN ivec ELSE first + n
           /\ at' = at + 1
           /\ UNCHANGED <<pc, xex, sections, imports>>
        \/ /\ n > 0 /\ (dest + n > Len(memory) \/ first + n - 1 > Len(file.source))
           /\ Go("dead") /\ UNCHANGED loaded

(* That more was copied than the file holds is noticed when it is done,    *)
(* by the 32 bits of the place in the file.                                *)
FinishImage ==
  /\ pc = "blocks" /\ at > Len(xex.blocks)
  /\ IF (file.head + Consumed(xex.blocks)) % Wrap <= file.head + Len(file.source)
     THEN Go("pe") ELSE Go("failed")
  /\ UNCHANGED loaded
-----------------------------------------------------------------------------
(* LoadPEImage.  A section is [name, voff, vsize, poff, psize]: cells of   *)
(* the image and of the file behind the XEX headers.                       *)
Smaller(a, b) == IF a < b THEN a ELSE b

Extent(secs) == Max({0} \cup {(s.voff + s.vsize) % Wrap : s \in ToSet(secs)})

(* Sections behind the expanded image are copied from the file as it is,   *)
(* encrypted or not; the sum that is to keep them in the file may wrap.    *)
IsRaw(old, s) == s.psize # 0 /\ (s.psize + s.poff) % Wrap <= Len(file.source) /\ s.voff >= old

CopyRaw(m, old, s) ==
  IF ~ IsRaw(old, s) THEN m
  ELSE [p \in DOMAIN m |->
          IF p \in s.voff + 1 .. s.voff + Smaller(s.psize, s.vsize)
          THEN Stored(s.poff + p - s.voff) ELSE m[p]]

LeadsOut(size, s) ==
  LET n == Smaller(s.psize, s.vsize) IN s.voff + n > size \/ s.poff + n > Len(file.source)

(* Mutant: the last cell of the last section is not made room for. *)
ExtendShort(m, secs) == m \o [k \in 1 .. Extent(secs) - Len(m) - 1 |-> Zero]

Extend(m, secs) == m \o [k \in 1 .. Extent(secs) - Len(m) |-> Zero]

(* A copy that leads out of the image or the file may end the program.     *)
LoadPEImage ==
  /\ pc = "pe"
  /\ IF memory # <<>> /\ memory[1] = Mz /\ file.pe.valid
     THEN \/ /\ sections' = file.pe.sections
             /\ memory' = IF Extent(sections') <= Len(memory) THEN memory
                          ELSE FoldLeft(LAMBDA m, s : CopyRaw(m, Len(memory), s),
                                        Extend(memory, sections'), sections')
             /\ Go("patch")
          \/ /\ Extent(file.pe.sections) > Len(memory)
             /\ \E s \in ToSet(file.pe.sections) :
                  IsRaw(Len(memory), s) /\ LeadsOut(Extent(file.pe.sections), s)
             /\ Go("dead") /\ UNCHANGED <<memory, sections>>
     ELSE /\ memory' = <<>>
          /\ Go("failed")
          /\ UNCHANGED sections
  /\ UNCHANGED <<xex, ivec, imports>>
-----------------------------------------------------------------------------
(* PatchImports.  A record is an address; the cell there is the import's   *)
(* [type, lib, ordinal], lib counting the names from 0.                    *)
(* Mutant: the first entry with the ordinal is taken, of any library. *)
FoundAnywhere(name, ordinal) == {e \in Table : e.ordinal = ordinal}

Found(name, ordinal) ==
  {e \in Table : e.lib = name /\ e.ordinal = ordinal /\ name \in {"xboxkrnl.exe", "xam.xex"}}

NameOf(word) == xex.libNames[word.lib + 1]

Skipped(word) == word.type \notin {0, 1} \/ word.lib >= Len(xex.libNames)

(* A zero cell reads as variable 0 of the first library; a cell that is    *)
(* code, data, junk or still encrypted as a word of some other type.       *)
WordAt(offset) ==
  IF memory[offset + 1] = Zero THEN [type |-> 0, lib |-> 0, ordinal |-> 0]
  ELSE IF memory[offset + 1] \in Words THEN memory[offset + 1]
  ELSE [type |-> 255, lib |-> 0, ordinal |-> 0]

(* An address outside the image makes LoadXex fail, but for the one that   *)
(* is its end; an import the table does not know is a null dereference.    *)
PatchImport ==
  /\ pc = "patch" /\ at <= Len(xex.records)
  /\ LET offset == xex.records[at] - xex.base IN
     IF offset < 0 \/ offset > Len(memory)
     THEN Go("failed") /\ memory' = <<>> /\ UNCHANGED <<xex, ivec, sections, imports>>
     ELSE IF offset = Len(memory) THEN Go("dead") /\ UNCHANGED loaded
     ELSE LET word == WordAt(offset) IN
          IF Skipped(word)
          THEN at' = at + 1 /\ UNCHANGED <<pc, loaded>>
          ELSE IF Found(NameOf(word), word.ordinal) = {}
          THEN Go("dead") /\ UNCHANGED loaded
          ELSE /\ \E e \in Found(NameOf(word), word.ordinal) :
                    imports' = Append(imports,
                      [type |-> IF word.type = 0 THEN "variable" ELSE "function",
                       name |-> e.name, addr |-> xex.records[at]])
               /\ at' = at + 1
               /\ UNCHANGED <<pc, xex, memory, ivec, sections>>

FinishImports ==
  /\ pc = "patch" /\ at > Len(xex.records)
  /\ Go("loaded") /\ UNCHANGED loaded

(* main does not look at what LoadXex returned, and goes on without image. *)
CarryOn ==
  /\ pc = "failed"
  /\ Go("dead") /\ UNCHANGED loaded
-----------------------------------------------------------------------------
(* exportMetadata: variables without a function of the same name, and the  *)
(* sections with their cells.  Mutant: the variables of functions as well. *)
IsVariable(i) == i.type = "variable"

IsLonely(i) == i.type = "variable" /\ ~ \E k \in DOMAIN imports :
                 imports[k].type = "function" /\ imports[k].name = i.name

Magic == "TSS8"
Version == 4

Header(vs) == <<Magic, Version, 0, xex.base, Len(sections), Len(vs)>>

(* A field is a number, or a name with its length before it. *)
VariableFields(v) == <<1, v.name, v.addr>>

(* n cells of the image from an offset on; behind its end stands anything. *)
DataAt(offset, n) ==
  [k \in 1 .. n |-> IF offset + k \in DOMAIN memory THEN memory[offset + k] ELSE Junk]

(* Mutant: the data is taken from the start of the image. *)
SectionFieldsOfStart(s) == <<s.voff, s.vsize, 0, 1, s.name>> \o DataAt(0, s.vsize)

SectionFields(s) == <<s.voff, s.vsize, 0, 1, s.name>> \o DataAt(s.voff, s.vsize)

Lonely == Kept(imports, {i \in ToSet(imports) : IsLonely(i)})

(* A section that leads out of the image is written all the same, or ends  *)
(* the program.                                                            *)
ExportMetadata ==
  /\ pc = "loaded"
  /\ \/ /\ md' = Header(Lonely)
                   \o FlattenSeq([k \in DOMAIN Lonely |-> VariableFields(Lonely[k])])
                   \o FlattenSeq([k \in DOMAIN sections |-> SectionFields(sections[k])])
        /\ Go("runtime")
     \/ /\ \E s \in ToSet(sections) : s.voff + s.vsize > Len(memory)
        /\ Go("dead") /\ UNCHANGED md
  /\ UNCHANGED <<loaded, meta>>

(* importMetadata, which reads the same fields one after the other.        *)
VariableAt(p) == [name |-> md[p + md[p]], addr |-> md[p + md[p] + 1]]

SectionAt(p) ==
  LET n == md[p + 3] IN
  [offset |-> md[p], size |-> md[p + 1], name |-> md[p + 3 + n],
   data |-> SubSeq(md, p + 4 + n, p + 3 + n + md[p + 1])]

ImportMetadata ==
  /\ pc = "runtime"
  /\ LET nv == md[6]
         ns == md[5]
         v[k \in 1 .. nv + 1] == IF k = 1 THEN 7 ELSE v[k - 1] + md[v[k - 1]] + 2
         s[k \in 1 .. ns + 1] ==
           IF k = 1 THEN v[nv + 1] ELSE s[k - 1] + 4 + md[s[k - 1] + 3] + md[s[k - 1] + 1]
     IN meta' = IF md[1] = Magic /\ md[2] = Version
                THEN [base |-> md[4], vars |-> [k \in 1 .. nv |-> VariableAt(v[k])],
                      sections |-> [k \in 1 .. ns |-> SectionAt(s[k])]]
                ELSE meta
  /\ Go("booted")
  /\ UNCHANGED <<loaded, md>>
-----------------------------------------------------------------------------
LoadXex ==
  /\ \/ OpenFile \/ ProcessHeader \/ FinishHeaders \/ StartImage \/ CopyBlock \/ FinishImage
     \/ LoadPEImage \/ PatchImport \/ FinishImports \/ CarryOn
  /\ UNCHANGED <<md, meta>>

Next == (LoadXex \/ ExportMetadata \/ ImportMetadata) /\ UNCHANGED file

Spec == Init /\ [][Next]_vars
-----------------------------------------------------------------------------
(* The loaded image is what the blocks and the PE header describe: block   *)
(* by block the next cells of the source, decrypted, then zeros, when the  *)
(* sizes of the blocks add up to a number of 32 bits; behind that, of the  *)
(* sections that start there, what the file holds as it stands in it, and  *)
(* so ciphertext in an encrypted file; and else zeros.                     *)
AddsUp == file.head + Described(xex.blocks) < Wrap

BlockOf(p) == CHOOSE n \in DOMAIN xex.blocks :
  Described(SubSeq(xex.blocks, 1, n - 1)) < p /\ p <= Described(SubSeq(xex.blocks, 1, n))

Expanded(p) ==
  LET n == BlockOf(p)
      k == p - Described(SubSeq(xex.blocks, 1, n - 1))
  IN IF k > xex.blocks[n].data THEN Zero
     ELSE file.source[Consumed(SubSeq(xex.blocks, 1, n - 1)) + k]

Behind(p) ==
  LET raw == {s \in ToSet(sections) :
                /\ s.voff >= SizeOf(xex.blocks) /\ p > s.voff
                /\ p <= s.voff + Smaller(s.vsize, s.psize)
                /\ (s.psize + s.poff) % Wrap <= Len(file.source)}
  IN IF raw = {} THEN {Zero} ELSE {Stored(s.poff + p - s.voff) : s \in raw}

ImageAsDescribed ==
  pc \in {"patch", "loaded", "runtime", "booted"} =>
    \A p \in DOMAIN memory :
      IF p <= SizeOf(xex.blocks) THEN AddsUp => memory[p] = Expanded(p)
      ELSE memory[p] \in Behind(p)

(* Every section whose end is a number of 32 bits lies in the image, where *)
(* the decoder, the passes and the export read it without looking at the   *)
(* image's size.  The others are kept too, and nothing makes room for them.*)
SectionsInside ==
  pc \in {"patch", "loaded", "runtime", "booted"} =>
    \A s \in ToSet(sections) : s.voff + s.vsize < Wrap => s.voff + s.vsize <= Len(memory)

(* When every library has a name, an import is the entry of the library    *)
(* whose header its record counts, with the record's ordinal, and at the   *)
(* record's address.                                                       *)
NamesIn(o) == IF o.key = "imports" THEN [j \in DOMAIN o.libs |-> LibName(o.table, o.libs[j])]
              ELSE <<>>

Libraries == FlattenSeq([k \in DOMAIN Opts |-> NamesIn(Opts[k])])

ImportsAsRecorded ==
  pc \in {"loaded", "runtime", "booted"} /\ "" \notin ToSet(Libraries) =>
    \A i \in ToSet(imports) :
      LET word == WordAt(i.addr - xex.base) IN
      /\ i.addr \in ToSet(xex.records)
      /\ \E e \in Table : e.lib = Libraries[word.lib + 1]
                            /\ e.ordinal = word.ordinal /\ e.name = i.name

(* The runtime gets the variables no function goes with, each once and in  *)
(* its place, and every section, with its cells when it lies in the image, *)
(* all as the recompiler had them.                                         *)
MetadataSurvives ==
  pc = "booted" =>
    /\ meta.base = xex.base
    /\ {<<v.name, v.addr>> : v \in ToSet(meta.vars)} = {<<i.name, i.addr>> : i \in ToSet(Lonely)}
    /\ Len(meta.sections) = Len(sections)
    /\ \A k \in DOMAIN sections :
         /\ meta.sections[k].offset = sections[k].voff
         /\ meta.sections[k].name = sections[k].name
         /\ sections[k].voff + sections[k].vsize <= Len(memory) =>
              meta.sections[k].data = SubSeq(memory, sections[k].voff + 1,
                                             sections[k].voff + sections[k].vsize)

(* The runtime has a variable to give a structure to for exactly the       *)
(* records of variables whose ordinal no record asks for as a function: an *)
(* imported function has both, and is emitted as a call.  exportMetadata   *)
(* looks for the function by name, and in ImportTable.h some names stand   *)
(* under several ordinals: no two imports of the file may share a name     *)
(* that are not of one library and ordinal.                                *)
Asked == {word \in {WordAt(r - xex.base) : r \in ToSet(xex.records)} : ~ Skipped(word)}

NamesTellApart ==
  \A v, w \in Asked :
    \A e \in Found(NameOf(v), v.ordinal), f \in Found(NameOf(w), w.ordinal) :
      e.name = f.name <=> v.lib = w.lib /\ v.ordinal = w.ordinal

IsCalled(word) == \E r \in ToSet(xex.records) : WordAt(r - xex.base) = [word EXCEPT !.type = 1]

VariablesOfNoFunction ==
  pc = "booted" /\ NamesTellApart =>
    {v.addr : v \in ToSet(meta.vars)} =
      {r \in ToSet(xex.records) :
         LET word == WordAt(r - xex.base) IN
         word.type = 0 /\ ~ Skipped(word) /\ ~ IsCalled(word)}
=============================================================================
