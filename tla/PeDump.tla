------------------------------- MODULE PeDump -------------------------------
(***************************************************************************)
(* Writing the product: dump_process of the PE crate.  The sections of the *)
(* live image are shrunk and compacted, new sections are appended, their   *)
(* file ranges are trimmed, written and packed, pointers are rebased and a *)
(* relocation table is built.  Each step reads the layout the one before   *)
(* left behind, through three coordinates of the same section: where it is *)
(* in the live image ("at"), its virtual address in the product ("va") and *)
(* its place in the file ("raw").                                          *)
(*                                                                         *)
(* Sizes are in units of which a file alignment is FA and a section        *)
(* alignment SA.  A live section has "used" units of data and zeroes after *)
(* them.  The content of a unit is a number: 0 is zero, a is what the live *)
(* image holds at address a, -a the same pointer rebased, and a number     *)
(* nearer to 0 than SA what the dumper put there: no section lies below SA.*)
(***************************************************************************)
EXTENDS Integers, SequencesExt

CONSTANTS
    FA, SA,         \* FileAlignment and SectionAlignment (0x200, 0x1000)
    Huge,           \* trailing zeroes or a gap beyond this go (1 MiB)
    Reserve,        \* least reservation for .reloc (0x2000)
    ImportInit,     \* provisional size of .import (3400)
    ImportMin,      \* its least final size (0x2000)
    MinRaw,         \* end of the file's headers
    Sizes,          \* sizes of the live data sections
    Useds,          \* how much of a section may be data, beside all of it
    DataSections,   \* the most data sections an image has
    PdataSizes,     \* sizes of the filtered exception table, 0 for none
    ImportSizes,    \* sizes of the rebuilt import data, 0 for none
    Estimates,      \* what the sizing scan returns
    TableSizes,     \* what the generated table takes
    ShellLast       \* whether the shell's sections come after all others

ASSUME DumpAssumption ==
    /\ FA \in Nat \ {0} /\ SA \in Nat \ 0 .. 3 /\ SA % FA = 0
    /\ Huge \in Nat /\ FA <= Huge
    /\ Reserve \in Nat /\ Reserve % SA = 0
    /\ MinRaw \in 0 .. SA
    /\ {ImportInit, ImportMin} \subseteq Nat \ {0} /\ ImportInit <= ImportMin
    /\ Sizes \subseteq Nat \ {0} /\ Useds \subseteq Nat /\ DataSections \in Nat
    /\ PdataSizes \union ImportSizes \union Estimates \subseteq Nat
    /\ TableSizes \subseteq Nat \ {0}
    /\ ShellLast \in BOOLEAN

VARIABLES
    pc,         \* the step dump_process takes next
    input,      \* what it was called with and what it reads from outside
    live,       \* the sections of the live image
    secs,       \* pe.sections
    soi,        \* SizeOfImage
    base,       \* ImageBase of the header: "runtime" or "file"
    dynamic,    \* DYNAMIC_BASE
    dumped,     \* length of dump_buf
    hinted,     \* the hint RVAs are in dump_buf
    file,       \* out_data
    table       \* the RVAs in the relocation table

vars == <<pc, input, live, secs, soi, base, dynamic, dumped, hinted, file, table>>

----------------------------------------------------------------------------
(* Arithmetic and layout *)

AlignUp(n, to) == ((n + to - 1) \div to) * to

End(s) == s.va + s.size
RawEnd(s) == s.raw + s.rsize
FileRange(s) == s.raw .. RawEnd(s) - 1

\* Sections one after the other from 0x1000 on
LaidOut(shape) ==
    LET va[i \in 1 .. Len(shape)] ==
            IF i = 1 THEN SA ELSE AlignUp(va[i - 1] + shape[i - 1].size, SA)
    IN [i \in 1 .. Len(shape) |-> [shape[i] EXCEPT !.va = va[i]]]

ImageEnd(ss) == AlignUp(End(Last(ss)), SA)

Kept(s) == s.kind \in {"code", "data", "bss"}
Hint == -1
Payload(name) == CASE name = "pdata" -> 1 [] name = "reloc" -> 2 [] name = "import" -> 3

\* The import table of the program is the second unit of a data section
IatSlots == {s.at + 1 : s \in {t \in ToSet(live) : t.kind = "data" /\ t.size > 1}}

\* The live image's content; dump_buf has the hints in it as well
Live(a) ==
    IF \E s \in ToSet(live) : a >= s.at /\ a < s.at + s.used THEN a ELSE 0

DumpBuf(a) ==
    IF a >= dumped THEN 0
    ELSE IF hinted /\ a = input.iat THEN Hint ELSE Live(a)

\* The first unit of a section is a pointer into the image.  x64 code has
\* none, x86 code has absolute operands.
Pointers ==
    {s.at : s \in {t \in ToSet(live) :
        Kept(t) /\ t.used > 0 /\ (t.kind = "code" => input.arch = "x86")}}

----------------------------------------------------------------------------
(* What dump_process is called on *)

Shapes ==
    LET usable == {c \in Sizes \X (Useds \union Sizes) : c[2] <= c[1]}
    IN {[kind |-> k, name |-> k, at |-> 0, va |-> 0, size |-> c[1], used |-> c[2],
         raw |-> 0, rsize |-> 0] : k \in {"data", "bss"}, c \in usable}

Code == [kind |-> "code", name |-> "text", at |-> 0, va |-> 0, size |-> SA - 1,
         used |-> SA - 1, raw |-> 0, rsize |-> 0]
Shell == [Code EXCEPT !.kind = "shell", !.name = "themida", !.size = SA, !.used = SA]

Images ==
    LET datas == UNION {[1 .. n -> Shapes] : n \in 1 .. DataSections}
        bare == {<<Code>> \o d : d \in datas}
        places(b) == IF ShellLast THEN {Len(b) + 1} ELSE 2 .. Len(b) + 1
        shelled == UNION {{InsertAt(b, i, Shell) : i \in places(b)} : b \in bare}
    IN {[i \in DOMAIN s |-> [s[i] EXCEPT !.at = s[i].va]] :
            s \in {LaidOut(b) : b \in bare \union shelled}}

Init ==
    /\ live \in Images
    /\ input \in [arch : {"x86", "x64"}, shrink : BOOLEAN,
                  disk : {"unreadable", "same", "other"},
                  pdata : PdataSizes, import : ImportSizes, iat : IatSlots \union {0},
                  estimate : Estimates, table : TableSizes]
    /\ (input.import > 0) <=> (input.iat # 0)
    /\ ~input.shrink => /\ \A e \in Estimates : input.estimate <= e
                        /\ \A e \in TableSizes : input.table <= e
                        /\ \A e \in PdataSizes : input.pdata <= e
    /\ pc = "patch"
    /\ secs = live
    /\ soi = ImageEnd(live)
    /\ base = "runtime"
    /\ dynamic = TRUE
    /\ dumped = 0
    /\ hinted = FALSE
    /\ file = <<>>
    /\ table = {}

----------------------------------------------------------------------------
(* The steps of dump_process, in its order *)

Step(from, to) == pc = from /\ pc' = to

\* validate_and_patch_pe_header: the base on disk is restored
PatchHeader ==
    /\ Step("patch", "shrink")
    /\ base' = IF input.disk = "other" THEN "file" ELSE base
    /\ dynamic' = (dynamic /\ input.disk = "unreadable")
    /\ UNCHANGED <<input, live, secs, soi, dumped, hinted, file, table>>

WithoutRemoved(ss) ==
    LET kept[n \in 0 .. Len(ss)] ==
            IF n = 0 THEN <<>>
            ELSE IF Kept(ss[n]) THEN Append(kept[n - 1], ss[n]) ELSE kept[n - 1]
    IN kept[Len(ss)]

\* compact_section_vas
Compacted(ss) == LaidOut(ss)

\* shrink_sections: without a section to remove nothing is compacted
ShrinkSections ==
    /\ Step("shrink", "read")
    /\ LET kept == WithoutRemoved(secs)
       IN IF input.shrink /\ Len(kept) < Len(secs)
          THEN secs' = Compacted(kept) /\ soi' = ImageEnd(secs')
          ELSE UNCHANGED <<secs, soi>>
    /\ UNCHANGED <<input, live, base, dynamic, dumped, hinted, file, table>>

\* sanitize: the file mirrors memory, except for the uninitialised sections
\* of a 32-bit image
Zeroed(s) == s.kind = "bss" /\ input.arch = "x86"

Sanitized(s) ==
    [s EXCEPT !.raw = s.va, !.rsize = IF Zeroed(s) THEN 0 ELSE s.size]

ReadImage ==
    /\ Step("read", "pdata")
    /\ secs' = [i \in DOMAIN secs |-> Sanitized(secs[i])]
    /\ dumped' = soi
    /\ UNCHANGED <<input, live, soi, base, dynamic, hinted, file, table>>

\* create_section_index, followed by its caller's resize to "size"
WithSection(name, size) ==
    LET last == Last(secs)
        ends == {RawEnd(s) : s \in ToSet(secs)}
    IN Append(secs,
         [kind |-> "made", name |-> name, at |-> 0, used |-> size, size |-> size,
          va |-> AlignUp(last.va + last.size, SA),
          raw |-> AlignUp(Max(ends), FA),
          rsize |-> AlignUp(size, FA)])

\* The caller raises SizeOfImage to the new end if that is beyond it
Grown(ss, provisional) ==
    LET added == soi + AlignUp(provisional, SA)
    IN IF added < End(Last(ss)) THEN End(Last(ss)) ELSE added

CreatePdata ==
    /\ Step("pdata", "reloc")
    /\ IF input.shrink /\ input.pdata > 0
       THEN /\ secs' = WithSection("pdata", input.pdata)
            /\ soi' = Grown(secs', input.pdata)
       ELSE UNCHANGED <<secs, soi>>
    /\ UNCHANGED <<input, live, base, dynamic, dumped, hinted, file, table>>

\* create_reloc_section: room for the estimated table
Reservation == Max({SA, Reserve, AlignUp(input.estimate, SA)})

CreateReloc ==
    /\ Step("reloc", "import")
    /\ IF input.shrink
       THEN /\ secs' = WithSection("reloc", Reservation)
            /\ soi' = Grown(secs', Reservation)
       ELSE UNCHANGED <<secs, soi>>
    /\ UNCHANGED <<input, live, base, dynamic, dumped, hinted, file, table>>

\* create_import_section writes the hint RVAs into dump_buf as well
CreateImport ==
    /\ Step("import", "trim")
    /\ IF input.import > 0
       THEN LET exact == AlignUp(input.import, FA)
                size == IF exact < ImportMin THEN ImportMin ELSE exact
            IN /\ secs' = WithSection("import", size)
               /\ soi' = Grown(secs', ImportInit)
               /\ hinted' = TRUE
       ELSE UNCHANGED <<secs, soi, hinted>>
    /\ UNCHANGED <<input, live, base, dynamic, dumped, file, table>>

\* trim_huge_sections looks for a section's trailing zeroes at its place in
\* the file, but in dump_buf, where the sections before it are still whole
DataEnd(s) ==
    LET used == {a \in FileRange(s) : DumpBuf(a) # 0}
    IN IF used = {} THEN 0 ELSE Max(used) + 1 - s.raw

\* Sections behind it move by "moved" and it keeps "size"
Shifted(ss, i, size, moved) ==
    [k \in DOMAIN ss |->
        IF k < i THEN ss[k]
        ELSE IF k = i THEN [ss[k] EXCEPT !.rsize = size]
        ELSE [ss[k] EXCEPT !.raw = @ - moved]]

TrimmedOne(ss, i) ==
    LET new == AlignUp(DataEnd(ss[i]), FA)
    IN IF ss[i].rsize - DataEnd(ss[i]) <= Huge THEN ss
       ELSE Shifted(ss, i, new, AlignUp(ss[i].rsize, SA) - new)

TrimmedAll(ss) ==
    LET trimmed[n \in 0 .. Len(ss)] ==
            IF n = 0 THEN ss ELSE TrimmedOne(trimmed[n - 1], n)
    IN trimmed[Len(ss)]

TrimSections ==
    /\ Step("trim", "write")
    /\ secs' = TrimmedAll(secs)
    /\ UNCHANGED <<input, live, soi, base, dynamic, dumped, hinted, file, table>>

\* section_rva_to_file_offset; the fallback is the RVA itself
FileOffset(ss, rva) ==
    LET holding == {s \in ToSet(ss) : rva >= s.va /\ rva < End(s)}
    IN IF holding = {} THEN rva
       ELSE LET s == CHOOSE s \in holding : TRUE IN s.raw + rva - s.va

\* The last of the sections that are written over an offset has it
Written(ss, offset) ==
    LET over == {i \in DOMAIN ss : offset \in FileRange(ss[i])}
    IN IF over = {} THEN 0
       ELSE LET s == ss[Max(over)]
            IN IF s.kind = "made" THEN Payload(s.name)
               ELSE DumpBuf(s.va + offset - s.raw)

FileEnd(ss) == Max({RawEnd(s) : s \in ToSet(ss)})

\* write_output_file: header fields, section data, then the import slots
WriteOutput ==
    /\ Step("write", "fix")
    /\ secs' = [i \in DOMAIN secs |->
                  IF secs[i].rsize > 0 /\ secs[i].raw < MinRaw
                  THEN [secs[i] EXCEPT !.raw = MinRaw] ELSE secs[i]]
    /\ dynamic' = FALSE
    /\ LET slot == FileOffset(secs', input.iat)
       IN file' = [o \in 0 .. FileEnd(secs') - 1 |->
                    IF input.import > 0 /\ o = slot THEN Hint ELSE Written(secs', o)]
    /\ UNCHANGED <<input, live, soi, base, dumped, hinted, table>>

\* The sections the pointer scans walk: not executable, in the file.  A bss
\* section is walked if the file holds data of it.
ScannedInitialised(s) ==
    s.kind \notin {"code", "bss"} /\ FileRange(s) \subseteq DOMAIN file

Scanned(s) == s.kind # "code" /\ FileRange(s) \subseteq DOMAIN file

AfterWriting == IF input.shrink THEN "pack" ELSE "save"

\* fix_hardcoded_addresses: with four-byte pointers the conversion to eight
\* bytes always fails, so nothing of an x86 image is rebased
FixAddresses ==
    /\ Step("fix", AfterWriting)
    /\ LET rebased(o) == /\ base = "file" /\ input.arch = "x64"
                         /\ file[o] \in Pointers
                         /\ \E s \in ToSet(secs) : Scanned(s) /\ o \in FileRange(s)
       IN file' = [o \in DOMAIN file |-> IF rebased(o) THEN -file[o] ELSE file[o]]
    /\ UNCHANGED <<input, live, secs, soi, base, dynamic, dumped, hinted, table>>

\* pack_section_layout moves a section down if a huge gap lies before it.
\* "end" is where the sections before it end in the new file.
Moved(packed, i, to, length) ==
    [end |-> to + length, secs |-> [packed.secs EXCEPT ![i].raw = to],
     file |-> [o \in DOMAIN packed.file |->
                 IF o \in to .. to + length - 1
                 THEN packed.file[packed.secs[i].raw + o - to] ELSE packed.file[o]]]

Passed(packed, i) ==
    [packed EXCEPT !.end = IF RawEnd(packed.secs[i]) > @ THEN RawEnd(packed.secs[i]) ELSE @]

GapBefore(packed, i) ==
    /\ packed.secs[i].raw - packed.end > Huge
    /\ packed.secs[i].raw \in DOMAIN packed.file

FileLength(packed, i) ==
    Cardinality(FileRange(packed.secs[i]) \intersect DOMAIN packed.file)

MovedDownInTable(packed, i) ==
    IF GapBefore(packed, i) /\ FileLength(packed, i) > 0
    THEN [Moved(packed, i, AlignUp(packed.end, FA), FileLength(packed, i))
            EXCEPT !.file = packed.file]
    ELSE Passed(packed, i)

MovedDownStanding(packed, i) ==
    IF GapBefore(packed, i) /\ FileLength(packed, i) > 0
    THEN [Moved(packed, i, AlignUp(packed.end, FA), FileLength(packed, i))
            EXCEPT !.end = packed.end]
    ELSE Passed(packed, i)

MovedDown(packed, i) ==
    IF GapBefore(packed, i) /\ FileLength(packed, i) > 0
    THEN Moved(packed, i, AlignUp(packed.end, FA), FileLength(packed, i))
    ELSE Passed(packed, i)

PackedAll ==
    LET packed[n \in 0 .. Len(secs)] ==
            IF n = 0 THEN [end |-> 0, secs |-> secs, file |-> file]
            ELSE MovedDown(packed[n - 1], n)
    IN packed[Len(secs)]

PackLayout ==
    /\ Step("pack", "table")
    /\ LET packed == PackedAll
       IN /\ secs' = packed.secs
          /\ file' = [o \in {p \in DOMAIN file : p < FileEnd(secs')} |-> packed.file[o]]
    /\ UNCHANGED <<input, live, soi, base, dynamic, dumped, hinted, table>>

\* collect_relocation_builder: the units that hold an address of the image
\* at the base in the header
Relocations ==
    LET addresses == IF base = "file" THEN {-p : p \in Pointers} ELSE Pointers
        walked == {s \in ToSet(secs) : /\ s.name # "reloc"
                                       /\ Scanned(s) \/ (s.kind = "code" /\ input.arch = "x86")}
        found(s) == {o \in FileRange(s) : file[o] \in addresses}
    IN UNION {{s.va + o - s.raw : o \in found(s)} : s \in walked}

\* The announced size of .reloc reaches to the next section
Announced(reloc) ==
    LET after == {s.va : s \in {t \in ToSet(secs) : t.va > reloc.va}}
        next == Min(after)
    IN IF after # {} /\ next > AlignUp(reloc.va + input.table, SA)
       THEN next - reloc.va ELSE input.table

\* build_relocation_table: a table that does not fit is an error
BuildTable ==
    LET r == CHOOSE i \in DOMAIN secs : secs[i].name = "reloc"
        fits == input.table <= secs[r].rsize
    IN /\ pc = "table"
       /\ pc' = IF Relocations = {} \/ fits THEN "save" ELSE "failed"
       /\ IF Relocations # {} /\ fits
          THEN /\ table' = Relocations
               /\ secs' = [secs EXCEPT ![r].size = Announced(secs[r]),
                                       ![r].rsize = AlignUp(input.table, FA)]
               /\ dynamic' = TRUE
          ELSE UNCHANGED <<table, secs, dynamic>>
       /\ UNCHANGED <<input, live, soi, base, dumped, hinted, file>>

\* fs::write
Save ==
    /\ Step("save", "done")
    /\ UNCHANGED <<input, live, secs, soi, base, dynamic, dumped, hinted, file, table>>

Next ==
    \/ PatchHeader \/ ShrinkSections \/ ReadImage
    \/ CreatePdata \/ CreateReloc \/ CreateImport
    \/ TrimSections \/ WriteOutput \/ FixAddresses
    \/ PackLayout \/ BuildTable \/ Save

Spec == Init /\ [][Next]_vars

----------------------------------------------------------------------------
(* Properties of the product *)

TypeOK ==
    /\ pc \in {"patch", "shrink", "read", "pdata", "reloc", "import", "trim",
               "write", "fix", "pack", "table", "save", "done", "failed"}
    /\ base \in {"runtime", "file"}
    /\ dynamic \in BOOLEAN /\ hinted \in BOOLEAN
    /\ soi \in Nat /\ dumped \in Nat
    /\ \A i \in DOMAIN secs : /\ secs[i].va \in Nat /\ secs[i].raw \in Nat
                              /\ secs[i].size \in Nat \ {0} /\ secs[i].rsize \in Nat
    /\ \A o \in DOMAIN file : file[o] \in Int
    /\ \A rva \in table : rva \in Nat

\* The loader refuses an image with a hole between two sections: each starts
\* where the one before it ends, and SizeOfImage covers the last.  The layout
\* is decided in five places, two of which shrink what a third relied on.
ImageIsContiguous ==
    pc = "done" =>
        /\ \A i \in 2 .. Len(secs) : secs[i].va = AlignUp(End(secs[i - 1]), SA)
        /\ End(Last(secs)) <= soi

\* A section that lost its trailing zeroes
Trimmed(s) == s.kind # "made" /\ ~Zeroed(s) /\ s.rsize < s.size

\* Two things go wrong when sections are trimmed.  The appended sections were
\* placed behind the last live one rounded up to FileAlignment and are moved
\* down as if it had been to SectionAlignment; and the zeroes of a section
\* behind a trimmed one are looked for in the wrong place of dump_buf.
Sheared(i) ==
    /\ Trimmed(secs[i]) /\ secs[i].size % SA # 0
    /\ i < Len(secs) /\ secs[i + 1].kind = "made"

Misjudged(i) ==
    /\ secs[i].size > Huge /\ secs[i].kind # "made" /\ ~Zeroed(secs[i])
    /\ \E k \in 1 .. i - 1 : Trimmed(secs[k])

TrimmedWell == ~\E i \in DOMAIN secs : Sheared(i) \/ Misjudged(i)

\* No two sections share bytes of the file, whatever was trimmed, moved and
\* packed, unless an image meets one of the two.
FileRangesDisjoint ==
    pc = "done" /\ TrimmedWell =>
        \A i, j \in DOMAIN secs :
            i < j => FileRange(secs[i]) \intersect FileRange(secs[j]) = {}

\* What a unit of a section holds in the product
Intended(s, o) ==
    IF s.kind = "made" THEN {Payload(s.name)}
    ELSE IF input.iat = s.at + o THEN {Hint} ELSE {s.at + o, -(s.at + o)}

\* Every unit of data a section had in memory is in the file, at the place the
\* section table gives it, and so is what was appended: only zeroes were
\* dropped.  (A 32-bit image gives up its bss on purpose.)
DataReachesFile ==
    pc = "done" /\ TrimmedWell =>
        \A s \in {t \in ToSet(secs) : ~Zeroed(t)} :
            \A o \in 0 .. (IF s.kind = "made" THEN s.rsize ELSE s.used) - 1 :
                o < s.rsize /\ file[s.raw + o] \in Intended(s, o)

\* The loader finds every import by walking the slots of the program's own
\* table: they hold the hint RVAs in the file, wherever their section went,
\* and no relocation is applied to them.
ImportsInPlace ==
    pc = "done" /\ TrimmedWell /\ input.import > 0 =>
        LET s == CHOOSE t \in ToSet(secs) :
                    t.kind = "data" /\ input.iat \in t.at .. t.at + t.size - 1
        IN file[s.raw + input.iat - s.at] = Hint /\ s.va + input.iat - s.at \notin table

\* A dump only fails because the scan that sized the reservation saw less
\* than the table took: the rounding, the trimming and the packing in between
\* leave the reservation as it was.
ReservationHolds ==
    pc = "failed" => input.estimate < input.table

\* The product is one the loader takes, and one that is there at all
ProductIsWhole ==
    TypeOK /\ ImageIsContiguous /\ FileRangesDisjoint /\ ReservationHolds

\* What the program had in memory is where the product looks for it
NothingLost == DataReachesFile /\ ImportsInPlace

\* Every pointer in the product is for the base its header names, and if the
\* product may be moved then its relocation table has them all.
PointersFollowTheBase ==
    pc = "done" =>
        \A i \in DOMAIN secs : \A o \in FileRange(secs[i]) :
            (Kept(secs[i]) /\ file[o] \in Pointers \union {-p : p \in Pointers}) =>
                /\ (file[o] < 0) <=> (base = "file")
                /\ dynamic => secs[i].va + o - secs[i].raw \in table

\* On x64 it is so.
PointersFollowTheBase64 == input.arch = "x64" => PointersFollowTheBase
=============================================================================
