-------------------------------- MODULE Boot --------------------------------
(***************************************************************************)
(* XRuntime::init, run when the emulator DLL is loaded: read the metadata  *)
(* the recompiler exported, allocate and fill the sections of the image,   *)
(* give the imported variables their structures, and allocate the stack of *)
(* the main thread.  Every step allocates from XAlloc.  An address stands  *)
(* for one 32-bit word of guest memory.  An uncaught exception, a null     *)
(* dereference and an access to a page that is not committed end the       *)
(* process: pc = "dead".                                                   *)
(***************************************************************************)
EXTENDS XAlloc, Sequences, SequencesExt

CONSTANTS
  Images,      (* what MD.tss may hold: [base, sections, slots], slots     *)
               (* giving the address of each imported variable's word      *)
  StackSize,   (* words of the main thread's stack                         *)
  NoImage      (* m_metadata is null                                       *)

(* The parameters of allocate are 32-bit words. *)
ASSUME ParameterAssumption ==
  /\ 0 .. Total - 1 \subseteq Preferred \cap Requests
  /\ StackSize \in 0 .. Total - 1

(***************************************************************************)
(* A XEX is linked to a page boundary far above the first pages of the     *)
(* address space, from 0x80000000 on; its sections begin behind its base,  *)
(* in 32 bits, and so do the words of its imports, one for each.  A page   *)
(* has more words than the structure of a module handle uses.              *)
(***************************************************************************)
ASSUME ImageAssumption ==
  /\ PageSize >= 4
  /\ NoImage \notin Images
  /\ NoImage \notin [offset : Nat, size : Nat, booked : Nat]
  /\ \A m \in Images :
       /\ m.base \in 3 * PageSize .. Total - 1
       /\ m.base % PageSize = 0
       /\ m.sections \in Seq([offset : Nat, size : Nat])
       /\ \A i \in DOMAIN m.sections : m.base + m.sections[i].offset <= Total
       /\ \A n \in DOMAIN m.slots : m.slots[n] \in Nat /\ m.base <= m.slots[n]
       /\ \A k, n \in DOMAIN m.slots : k # n => m.slots[k] # m.slots[n]

Handle   == "XexExecutableModuleHandle"
Hardware == "XboxHardwareInfo"

VARIABLES
  pc,          (* the call of XRuntime::init about to run                  *)
  metadata,    (* m_metadata                                               *)
  image,       (* the allocation that holds the sections, or NoImage       *)
  structs,     (* the structures initImpVars has allocated, by name        *)
  words,       (* what this module has stored in guest memory              *)
  stack        (* the stack allocation, or NoImage                         *)

bootVars == <<pc, metadata, image, structs, words, stack>>

Unset == Total   \* in words: a word nothing has been stored to
Data  == Total + 1   \* in words: a word copied from a section

(* The allocation the step at hand has made. *)
Granted == CHOOSE a \in live' \ live : TRUE

(* The pages n words from o touch can be accessed. *)
CanAccess(o, n) == PagesOf(o, n) \subseteq committed'

(* Mutant: the halves of the 64 bits are swapped. *)
Write32Swapped(m, s) == [m EXCEPT ![s[1]] = 0, ![s[1] + 1] = s[2]]

(***************************************************************************)
(* write32To(s[1], s[2]) stores 64 bits: the word and, as zero, the next.  *)
(***************************************************************************)
Write32(m, s) == [m EXCEPT ![s[1]] = s[2], ![s[1] + 1] = 0]

InitBoot ==
  /\ Init
  /\ pc = "importMetadata"
  /\ metadata = NoImage
  /\ image = NoImage
  /\ structs = <<>>
  /\ words = [a \in Span(0, Total) |-> Unset]
  /\ stack = NoImage

(* The file may be missing, or have another magic or version. *)
ImportMetadata ==
  /\ pc = "importMetadata"
  /\ metadata' \in Images \cup {NoImage}
  /\ pc' = "allocateSectionsData"
  /\ UNCHANGED <<vars, image, structs, words, stack>>

(* The size allocateSectionsData asks for: the offset of the last section  *)
(* that lies behind the section listed before it.                          *)
AllocationSize(sections) ==
  LET behind == {i \in DOMAIN sections :
                   i = 1 \/ sections[i].offset > sections[i - 1].offset}
  IN IF sections = <<>> THEN 0
     ELSE sections[CHOOSE i \in behind : \A j \in behind : j <= i].offset

(* memcpy of every section to its place behind the address at. *)
CopySections(m, at, sections) ==
  [a \in DOMAIN m |->
     IF \E i \in DOMAIN sections : a \in Span(at + sections[i].offset, sections[i].size)
     THEN Data ELSE m[a]]

SkipSections ==
  /\ pc = "allocateSectionsData"
  /\ metadata = NoImage
  /\ pc' = "initImpVars"
  /\ UNCHANGED <<vars, metadata, image, structs, words, stack>>

AllocateSections ==
  /\ pc = "allocateSectionsData"
  /\ metadata # NoImage
  /\ Allocate(metadata.base, AllocationSize(metadata.sections))
  /\ \/ /\ reply'.status = "ok"
        /\ LET at == Granted.offset IN
           IF \A i \in DOMAIN metadata.sections :
                CanAccess(at + metadata.sections[i].offset, metadata.sections[i].size)
           THEN /\ image' = Granted
                /\ words' = CopySections(words, at, metadata.sections)
                /\ pc' = "initImpVars"
           ELSE /\ pc' = "dead"
                /\ UNCHANGED <<image, words>>
     \/ /\ reply'.status = "null"
        /\ pc' = "initImpVars"
        /\ UNCHANGED <<image, words>>
     \/ /\ reply'.status = "thrown"
        /\ pc' = "dead"
        /\ UNCHANGED <<image, words>>
  /\ UNCHANGED <<metadata, structs, stack>>

(* getImpByName dereferences m_metadata. *)
NoImports ==
  /\ pc = "initImpVars"
  /\ metadata = NoImage
  /\ pc' = "dead"
  /\ UNCHANGED <<vars, metadata, image, structs, words, stack>>

Imports(name) == name \in DOMAIN metadata.slots

(* One allocate of initImpVars: its pointer is used unchecked.  A null one *)
(* becomes guest address 0, the base being 2^32.                           *)
AllocateStruct(name, next) ==
  /\ Allocate(0, 1)
  /\ structs' = [n \in DOMAIN structs \cup {name} |->
                   IF n # name THEN structs[n]
                   ELSE IF reply'.status = "ok" THEN Granted.offset ELSE 0]
  /\ pc' = IF reply'.status = "thrown" THEN "dead" ELSE next
  /\ UNCHANGED <<metadata, image, words, stack>>

AllocateHandle ==
  /\ pc = "initImpVars"
  /\ metadata # NoImage
  /\ Imports(Handle)
  /\ AllocateStruct("handle", "handlePtr")

AllocateHandlePtr ==
  /\ pc = "handlePtr"
  /\ AllocateStruct("handlePtr", "writeHandle")

(* The four write32To of the module handle, and the three of the hardware  *)
(* info.  The first stores to the variable's word of the import table.     *)
WriteAll(stores, next) ==
  /\ UNCHANGED <<vars, metadata, image, structs, stack>>
  /\ IF \A i \in DOMAIN stores : PagesOf(stores[i][1], 2) \subseteq committed
     THEN /\ words' = FoldLeft(Write32, words, stores)
          /\ pc' = next
     ELSE /\ pc' = "dead"
          /\ UNCHANGED words

WriteHandle ==
  /\ pc = "writeHandle"
  /\ WriteAll(<< <<metadata.slots[Handle], structs["handlePtr"]>>,
                 <<structs["handlePtr"], structs["handle"]>>,
                 <<structs["handle"], Data>>,
                 <<structs["handle"] + 2, Data>> >>, "hardware")

NoHandle ==
  /\ pc = "initImpVars"
  /\ metadata # NoImage
  /\ ~ Imports(Handle)
  /\ pc' = "hardware"
  /\ UNCHANGED <<vars, metadata, image, structs, words, stack>>

AllocateHardware ==
  /\ pc = "hardware"
  /\ Imports(Hardware)
  /\ AllocateStruct("hardware", "writeHardware")

WriteHardware ==
  /\ pc = "writeHardware"
  /\ WriteAll(<< <<metadata.slots[Hardware], structs["hardware"]>>,
                 <<structs["hardware"], 0>>,
                 <<structs["hardware"] + 1, Data>> >>, "initMainThread")

NoHardware ==
  /\ pc = "hardware"
  /\ ~ Imports(Hardware)
  /\ pc' = "initMainThread"
  /\ UNCHANGED <<vars, metadata, image, structs, words, stack>>

(* Without a stack the thread has no state, and init carries on. *)
InitMainThread ==
  /\ pc = "initMainThread"
  /\ Allocate(0, StackSize)
  /\ stack' = IF reply'.status = "ok" THEN Granted ELSE NoImage
  /\ pc' = IF reply'.status = "thrown" THEN "dead" ELSE "guest"
  /\ UNCHANGED <<metadata, image, structs, words>>

BootNext ==
  \/ ImportMetadata
  \/ SkipSections \/ AllocateSections
  \/ NoImports \/ AllocateHandle \/ AllocateHandlePtr \/ WriteHandle \/ NoHandle
  \/ AllocateHardware \/ WriteHardware \/ NoHardware
  \/ InitMainThread
=============================================================================
