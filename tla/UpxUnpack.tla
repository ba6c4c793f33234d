------------------------------ MODULE UpxUnpack ------------------------------
(***************************************************************************)
(* unpack_static: the static unpacker for UPX.  It finds the PackHeader,   *)
(* decodes the stream, undoes the call-trick filter, rebuilds imports,     *)
(* relocations and resources from what the packer left at the tail of the  *)
(* decoded image, and assembles the file.                                  *)
(*                                                                         *)
(* Each phase works on a part of the image of its own ("work"), which is   *)
(* chosen when the phase begins: what UPX may have made of a program.      *)
(***************************************************************************)
EXTENDS Integers, SequencesExt

CONSTANTS
    Codes,          \* the code sections that were filtered, as bytes
    Byte,           \* how many values a byte has (256)
    Mark,           \* filter_cto
    CodeBase,       \* codebase - rvamin
    ImportLists,    \* sequences of [len, items]: a DLL's name and its imports
    Place,          \* how far apart the packer has set the places of the names
    RelocStreams,   \* sequences of deltas
    RelocLimit,     \* where the delta stream begins
    Page,           \* size of a page of relocations (4096)
    Trees,          \* resource trees
    SectionTables   \* sequences of [size, raw], in units of the file alignment

\* Types, names and languages, with an id or a name of so many units
ASSUME TreeAssumption ==
    Trees \subseteq
        Seq([key : Nat, name : Nat,
             sub : Seq([key : Nat, name : Nat, sub : Seq([key : Nat, name : Nat, sub : {"moved", "kept"}])])])

\* A name fits into the place the packer has set for it
ASSUME ImportAssumption ==
    /\ Place \in Nat
    /\ \A dlls \in ImportLists :
          /\ dlls \in Seq([len : Nat, items : Seq(Nat \cup {-1})])
          /\ \A d \in DOMAIN dlls :
                /\ dlls[d].len < Place
                /\ \A i \in DOMAIN dlls[d].items : dlls[d].items[i] + 2 < Place

ASSUME RelocAssumption ==
    /\ Page \in Nat \ {0} /\ RelocLimit \in Nat
    /\ \A deltas \in RelocStreams : deltas \in Seq(Int)

\* An address in the section fits into what a call leaves of its displacement
\* beside the mark; the bytes the filters look for are bytes
ASSUME FilterAssumption ==
    /\ Byte \in Nat \ 0 .. 15
    /\ CodeBase \in Nat /\ Mark \in 0 .. Byte - 1
    /\ \A code \in Codes :
          code \in Seq(0 .. Byte - 1) /\ Len(code) + CodeBase <= Byte

VARIABLES
    phase,      \* the phase of unpack_static that is next
    file,       \* what the headers of the packed file say
    oh,         \* the original header, as far as it is patched
    work        \* what the phase works on

upxVars == <<phase, file, oh, work>>

Go(next) == phase' = next

Fail == Go("failed") /\ work' = {} /\ UNCHANGED <<file, oh>>

Total(seq) ==
    LET sum[k \in 0 .. Len(seq)] == IF k = 0 THEN 0 ELSE sum[k - 1] + seq[k]
    IN sum[Len(seq)]

----------------------------------------------------------------------------
(* The header and the stream *)

Hits == {"stray", "old version", "unknown method", "foreign format",
         "bad lengths", "bad checksum", "good"}

\* find_pack_header: the first hit of the magic that passes every test
Headers == BoundedSeq(Hits, 2)

FirstGood(hits) == {i \in DOMAIN hits : hits[i] = "good" /\ \A j \in 1 .. i - 1 : hits[j] # "good"}

\* A directory of the original header: imports, relocations (of which an empty
\* list is one of its own), resources
Files ==
    [hits : Headers, bits : {32, 64}, method : {"N2b", "N2d", "N2e", "lzma"},
     filter : {"none", "cto", "ctok", "unknown"}, stripped : BOOLEAN, objects : {2, 3},
     imports : BOOLEAN, relocs : {"none", "empty", "list"}, resources : BOOLEAN]

UpxInit == phase = "off" /\ file = {} /\ oh = {} /\ work = {}

\* A file is unusual in one respect at a time: in where its header is, in its
\* method, in its filter, or in its directories
BeginUpx ==
    /\ phase = "off" /\ Go("header")
    /\ \E made \in Files :
          LET found == made.hits = <<"good">>
              packed == made.method = "N2e"
              plain == made.filter = "none"
              usual == made.bits = 64 /\ ~made.stripped /\ made.objects = 3 /\ made.imports
                       /\ made.relocs = "list" /\ made.resources
          IN /\ \/ found /\ packed /\ plain
                \/ usual /\ found /\ packed
                \/ usual /\ found /\ plain
                \/ usual /\ packed /\ plain
             /\ file' = made
    /\ oh' = [nddirs |-> 16, chars |-> FALSE, dirs |-> {}, written |-> FALSE]
    /\ UNCHANGED work

FindHeader ==
    /\ phase = "header"
    /\ IF FirstGood(file.hits) = {} THEN Fail
       ELSE Go("decode") /\ UNCHANGED <<file, oh, work>>

----------------------------------------------------------------------------
(* NRV2B, NRV2D, NRV2E: a match is an offset and a length.  D and E take the *)
(* first bit of the length from the offset, or read it when they use the     *)
(* last offset again ("seed").                                               *)

BitStrings == BoundedSeq({0, 1}, 6)

\* extended(): bits in turn with stop bits
IsExtended(bits) ==
    /\ bits # <<>> /\ Len(bits) % 2 = 0
    /\ \A k \in 1 .. Len(bits) \div 2 : bits[2 * k] = (IF 2 * k = Len(bits) THEN 1 ELSE 0)

Extended(bits) ==
    LET rounds == Len(bits) \div 2
        len[k \in 0 .. rounds] == IF k = 0 THEN 1 ELSE 2 * len[k - 1] + bits[2 * k - 1]
    IN len[rounds]

\* The offset: the same with B; the others put one more bit between two rounds,
\* after a decrement.  2 stands for the last offset.
OffsetOf(method, bits) ==
    LET rounds == (Len(bits) + 1) \div 3
        offset[k \in 0 .. rounds] ==
            IF k = 0 THEN 1
            ELSE 2 * (IF k = 1 THEN 1 ELSE 2 * (offset[k - 1] - 1) + bits[3 * k - 3]) + bits[3 * k - 2]
    IN CASE method = "N2b" -> IF IsExtended(bits) THEN Extended(bits) ELSE -1
         [] method # "N2b" /\ Len(bits) % 3 = 2
                 /\ \A k \in 1 .. rounds : bits[3 * k - 1] = (IF k = rounds THEN 1 ELSE 0)
              -> offset[rounds]
         [] OTHER -> -1

\* The length without the bytes every match has; "-1" where the bits are no code
LengthOfE3(method, seed, bits) ==
    LET tail(n) == SubSeq(bits, n + 1, Len(bits))
        long(n, plus) == IF IsExtended(tail(n)) THEN Extended(tail(n)) + plus ELSE -1
    IN CASE method = "N2b" /\ Len(bits) = 2 /\ bits # <<0, 0>> -> 2 * bits[1] + bits[2]
         [] method = "N2b" /\ Len(bits) > 2 /\ SubSeq(bits, 1, 2) = <<0, 0>> -> long(2, 2)
         [] method = "N2d" /\ Len(bits) = 1 /\ <<seed, bits[1]>> # <<0, 0>> -> 2 * seed + bits[1]
         [] method = "N2d" /\ Len(bits) > 1 /\ <<seed, bits[1]>> = <<0, 0>> -> long(1, 2)
         [] method = "N2e" /\ seed = 1 /\ Len(bits) = 1 -> 1 + bits[1]
         [] method = "N2e" /\ seed = 0 /\ Len(bits) = 2 /\ bits[1] = 1 -> 3 + bits[2]
         [] method = "N2e" /\ seed = 0 /\ Len(bits) > 1 /\ bits[1] = 0 -> long(1, 2)
         [] OTHER -> -1

LengthOf(method, seed, bits) ==
    LET tail(n) == SubSeq(bits, n + 1, Len(bits))
        long(n, plus) == IF IsExtended(tail(n)) THEN Extended(tail(n)) + plus ELSE -1
    IN CASE method = "N2b" /\ Len(bits) = 2 /\ bits # <<0, 0>> -> 2 * bits[1] + bits[2]
         [] method = "N2b" /\ Len(bits) > 2 /\ SubSeq(bits, 1, 2) = <<0, 0>> -> long(2, 2)
         [] method = "N2d" /\ Len(bits) = 1 /\ <<seed, bits[1]>> # <<0, 0>> -> 2 * seed + bits[1]
         [] method = "N2d" /\ Len(bits) > 1 /\ <<seed, bits[1]>> = <<0, 0>> -> long(1, 2)
         [] method = "N2e" /\ seed = 1 /\ Len(bits) = 1 -> 1 + bits[1]
         [] method = "N2e" /\ seed = 0 /\ Len(bits) = 2 /\ bits[1] = 1 -> 3 + bits[2]
         [] method = "N2e" /\ seed = 0 /\ Len(bits) > 1 /\ bits[1] = 0 -> long(1, 3)
         [] OTHER -> -1

\* The bytes of a match are copied one by one: it may overlap what it makes
Copied(out, offset, n) ==
    LET copy[k \in 0 .. n] ==
            IF k = 0 THEN out ELSE Append(copy[k - 1], copy[k - 1][Len(out) + k - offset])
    IN copy[n]


----------------------------------------------------------------------------
(* The call-trick filters.  A displacement has two bytes; "opcode" stands    *)
(* for E8 and E9, "escape" for 0F, "jcc" for 80 to 8F                        *)

Opcode == 8
Escape == 15
Jcc == 3

Disp(region, ic) == region[ic + 2] + Byte * region[ic + 3]

SetDisp(region, ic, first, second) ==
    [region EXCEPT ![ic + 2] = first, ![ic + 3] = second]

\* The condition of cto.h, and the one of ctok.h.  The byte before the region
\* is no escape here.
CallSiteForgetful(filter, region, ic, lastcall) ==
    \/ region[ic + 1] = Opcode
    \/ filter = "ctok" /\ ic > 0 /\ region[ic] = Escape /\ region[ic + 1] = Jcc

CallSite(filter, region, ic, lastcall) ==
    \/ region[ic + 1] = Opcode
    \/ /\ filter = "ctok" /\ lastcall # ic
       /\ ic > 0 /\ region[ic] = Escape /\ region[ic + 1] = Jcc

Walk(region, Visit(_)) ==
    LET at[n \in 0 .. Len(region)] ==
            IF n = 0 THEN [code |-> region, ic |-> 0, lastcall |-> 0, ok |-> TRUE]
            ELSE LET w == at[n - 1] IN IF w.ic + 3 < Len(region) THEN Visit(w) ELSE w
    IN at

\* What UPX does when it packs: the target of a call becomes absolute, and the
\* mark must follow no call site that is left alone
FilterByte(filter, w) ==
    LET target == (Disp(w.code, w.ic) + w.ic + 1) % (Byte * Byte)
    IN IF ~CallSite(filter, w.code, w.ic, w.lastcall) THEN [w EXCEPT !.ic = @ + 1]
       ELSE IF target < Len(w.code)
       THEN [w EXCEPT !.code = SetDisp(@, w.ic, Mark, target + CodeBase),
                      !.ic = @ + 3, !.lastcall = w.ic + 3]
       ELSE [w EXCEPT !.ic = @ + 1, !.ok = @ /\ w.code[w.ic + 2] # Mark]

FilterWalk(filter, original) == Walk(original, LAMBDA w : FilterByte(filter, w))

Filtered(filter, original) == FilterWalk(filter, original)[Len(original)]

\* unfilter_cto and unfilter_ctok, one round of their loop
UnfilterByte(filter, w) ==
    LET rel == (w.code[w.ic + 3] - CodeBase - w.ic - 1) % (Byte * Byte)
    IN IF CallSite(filter, w.code, w.ic, w.lastcall) /\ w.code[w.ic + 2] = Mark
       THEN [w EXCEPT !.code = SetDisp(@, w.ic, rel % Byte, rel \div Byte),
                      !.ic = @ + 3, !.lastcall = w.ic + 3]
       ELSE [w EXCEPT !.ic = @ + 1]

UnfilterWalk(filter, region) == Walk(region, LAMBDA w : UnfilterByte(filter, w))

Unfiltered(filter, region) == UnfilterWalk(filter, region)[Len(region)]

\* Both checksums cover what lies between them, and the lengths must agree; the
\* tail of the decoded image may still not be one UPX made.  NumberOfRvaAndSizes
\* is read where a 64-bit header has it: in a 32-bit one that is the size of the
\* import directory.
Decode ==
    /\ phase = "decode"
    /\ \/ Fail
       \/ /\ Go("filter")
          /\ oh' = [oh EXCEPT !.nddirs = IF file.bits = 64 \/ file.imports THEN 16 ELSE 0,
                              !.chars = file.stripped]
          /\ IF file.filter \in {"cto", "ctok"}
             THEN \E original \in Codes :
                     LET f == Filtered(file.filter, original)
                     IN f.ok /\ work' = [code |-> f.code, was |-> original]
             ELSE work' = {}
          /\ UNCHANGED file

Unfilter ==
    /\ phase = "filter"
    /\ IF file.filter = "unknown" THEN Fail
       ELSE /\ Go("filtered")
            /\ work' = IF file.filter = "none" THEN {}
                       ELSE [work EXCEPT !.code = Unfiltered(file.filter, @).code]
            /\ UNCHANGED <<file, oh>>

----------------------------------------------------------------------------
(* The imports.  The dll names come first in their area, the names of the    *)
(* functions behind them, each after a hint of two bytes at an even place.   *)
(* An item is the length of a name, 0 for an ordinal, -1 for a bound entry.  *)

Nul == <<0, 0, 0>>
Spelled(d, i, len) == [k \in 1 .. len + 1 |-> IF k <= len THEN <<d, i, k>> ELSE Nul]

PutAt(area, at, seq) ==
    [p \in DOMAIN area |-> IF p \in at .. at + Len(seq) - 1 THEN seq[p - at + 1] ELSE area[p]]

Even(n) == n + (n % 2)

DllNames(dlls) == Total([d \in DOMAIN dlls |-> dlls[d].len + 1])

\* The first slot of a DLL; a terminator follows the slots of each
IatAt(dlls, d) == Total([k \in 1 .. d - 1 |-> Len(dlls[k].items) + 1])

Room(dll) == Total([i \in DOMAIN dll.items |-> 4 + Max({dll.items[i], 0})])

AreaSize(dlls) == Even(DllNames(dlls)) + Total([d \in DOMAIN dlls |-> Room(dlls[d])])

\* Without inamespos the packer has set every pointer to a place of its own
ImportWork(dlls, preset) ==
    LET slots == IatAt(dlls, Len(dlls) + 1)
        size == IF preset THEN Place * (slots + 1) ELSE AreaSize(dlls)
    IN [dlls |-> dlls, preset |-> preset, next |-> 1, dllPos |-> 0,
        start |-> Even(DllNames(dlls)), namePos |-> Even(DllNames(dlls)),
        area |-> [p \in 0 .. size - 1 |-> Nul],
        names |-> [d \in DOMAIN dlls |-> IF preset THEN Place * IatAt(dlls, d) ELSE 0],
        slots |-> [s \in 0 .. slots - 1 |->
            IF preset THEN <<"at", Place * (s + 1)>> ELSE <<"unset", 0>>]]

\* One import; the cursor advances with every one of them, and a name that
\* would begin at an odd place begins on the terminator of the one before
Item(acc, d, i) ==
    LET n == work.dlls[d].items[i]
        here == IF (acc.namePos - work.start) % 2 = 1 THEN acc.namePos - 1 ELSE acc.namePos
        target == acc.slots[acc.newiat][2]
        next == [acc EXCEPT !.newiat = @ + 1]
    IN CASE n > 0 /\ ~work.preset ->
              [next EXCEPT !.area = PutAt(@, here + 2, Spelled(d, i, n)),
                           !.slots[acc.newiat] = <<"at", here>>,
                           !.namePos = here + 2 + n + 1]
         [] n > 0 /\ work.preset -> [next EXCEPT !.area = PutAt(@, target + 2, Spelled(d, i, n))]
         [] n = 0 -> [next EXCEPT !.slots[acc.newiat] = <<"ordinal", i>>]
         [] OTHER -> [next EXCEPT !.slots[acc.newiat] = <<"bound", i>>]

Items(d, begin) ==
    LET acc[i \in 0 .. Len(work.dlls[d].items)] ==
            IF i = 0 THEN begin ELSE Item(acc[i - 1], d, i)
    IN acc[Len(work.dlls[d].items)]

BeginImports ==
    /\ phase = "imports"
    /\ oh' = [oh EXCEPT !.dirs = IF oh.nddirs > 0 /\ file.imports THEN {"imports"} ELSE {}]
    /\ UNCHANGED file
    /\ IF ~file.imports THEN Go("relocs") /\ work' = {}
       ELSE IF file.objects = 2 THEN Go("failed") /\ work' = {}
       ELSE /\ Go("dll")
            /\ \E dlls \in ImportLists, preset \in BOOLEAN : work' = ImportWork(dlls, preset)

\* One round of rebuild_imports
RebuildDll ==
    /\ phase = "dll" /\ work.next <= Len(work.dlls)
    /\ LET d == work.next
           at == IF work.preset THEN work.names[d] ELSE work.dllPos
           acc == Items(d, [area |-> PutAt(work.area, at, Spelled(d, 0, work.dlls[d].len)),
                            slots |-> work.slots, namePos |-> work.namePos,
                            newiat |-> IatAt(work.dlls, d)])
       IN work' = [work EXCEPT !.next = @ + 1, !.names[d] = at,
                               !.dllPos = @ + work.dlls[d].len + 1,
                               !.area = acc.area, !.namePos = acc.namePos,
                               !.slots = [acc.slots EXCEPT ![acc.newiat] = <<"end", 0>>]]
    /\ UNCHANGED <<phase, file, oh>>


----------------------------------------------------------------------------
(* The relocations: deltas that begin at -4, each value of the image in the *)
(* byte order of the other kind                                             *)

Width == IF file.bits = 64 THEN 8 ELSE 4

\* The type of the entries, HIGHLOW or DIR64, and of the two lists of 16 bits
\* that may follow
Low == 2
High == 1
EntryType == IF file.bits = 64 THEN 10 ELSE 3

BeginRelocs ==
    /\ phase = "relocs"
    /\ oh' = [oh EXCEPT !.dirs = IF oh.nddirs > 0 /\ file.relocs # "none" /\ ~oh.chars
                                 THEN @ \cup {"relocs"} ELSE @]
    /\ UNCHANGED file
    /\ IF "relocs" \notin oh'.dirs \/ file.relocs = "empty" THEN Go("resources") /\ work' = {}
       ELSE /\ Go("deltas")
            /\ \E deltas \in RelocStreams, more \in SUBSET {Low, High} :
                  work' = [deltas |-> deltas, more |-> more, pc |-> -4, entries |-> <<>>, blocks |-> <<>>]

\* unoptimize: a fixup may neither overlap the one before nor leave the image
DecodeDelta ==
    /\ phase = "deltas" /\ work.deltas # <<>>
    /\ LET pc == work.pc + Head(work.deltas)
       IN IF Head(work.deltas) < 4 \/ pc + Width > RelocLimit THEN Fail
          ELSE /\ work' = [work EXCEPT !.deltas = Tail(@), !.pc = pc,
                                       !.entries = Append(@, <<pc, EntryType>>)]
               /\ UNCHANGED <<phase, file, oh>>

\* Reloc::finish: the size of a block covers the padding of its entries
Word(kind, value, type) == [kind |-> kind, value |-> value, type |-> type]

EntryWords(entries) == [k \in DOMAIN entries |-> Word("entry", entries[k][1] % Page, entries[k][2])]

BlockUnpadded(page, entries) ==
    LET pad == IF Len(entries) % 2 = 1 THEN <<Word("entry", 0, 0)>> ELSE <<>>
    IN <<Word("page", page, 0), Word("size", 8 + 2 * Len(entries), 0)>> \o EntryWords(entries) \o pad

Block(page, entries) ==
    LET padded == IF Len(entries) % 2 = 1 THEN Append(EntryWords(entries), Word("entry", 0, 0))
                  ELSE EntryWords(entries)
    IN <<Word("page", page, 0), Word("size", 8 + 2 * Len(padded), 0)>> \o padded

\* sort_unstable, by place and then by type
NotAfter(a, b) == a[1] < b[1] \/ (a[1] = b[1] /\ a[2] <= b[2])

Ordered(entries) ==
    LET order == CHOOSE p \in [DOMAIN entries -> DOMAIN entries] :
                    /\ \A i \in DOMAIN entries : \E k \in DOMAIN entries : p[k] = i
                    /\ \A i, j \in DOMAIN entries : i <= j => NotAfter(entries[p[i]], entries[p[j]])
    IN [k \in DOMAIN entries |-> entries[order[k]]]

\* What is closed, and the block that is open with its page
Closed(acc) == IF acc.open = <<>> THEN acc.out ELSE acc.out \o Block(acc.page, acc.open)

Enter(acc, e) ==
    IF acc.open # <<>> /\ e[1] - acc.page < Page THEN [acc EXCEPT !.open = Append(@, e)]
    ELSE [out |-> Closed(acc), page |-> Page * (e[1] \div Page), open |-> <<e>>]

Blocks(entries) ==
    LET ordered == Ordered(entries)
        acc[k \in 0 .. Len(entries)] ==
            IF k = 0 THEN [out |-> <<>>, page |-> 0, open |-> <<>>]
            ELSE Enter(acc[k - 1], ordered[k])
    IN Closed(acc[Len(entries)])

\* A list of 16 bits has one entry here, at the end of the image
BuildBlocks ==
    /\ phase = "deltas" /\ work.deltas = <<>>
    /\ Go("blocks")
    /\ LET all == work.entries \o (IF Low \in work.more THEN <<<<RelocLimit, Low>>>> ELSE <<>>)
                               \o (IF High \in work.more THEN <<<<1, High>>>> ELSE <<>>)
       IN work' = [work EXCEPT !.entries = all, !.blocks = Blocks(all)]
    /\ UNCHANGED <<file, oh>>


----------------------------------------------------------------------------
(* The resources, in units of eight bytes: a directory has a header of two    *)
(* and an entry of one for each child, a leaf has two.  A node is             *)
(* [key, name, sub]: the length of its name (0 for an id) and its children;   *)
(* on the third level "sub" tells whether the packer moved the data.          *)

GroupIcon == 14

\* A directory with what is below it: a header, its entries and their children;
\* one without an entry counts for nothing
DirOf(nodes, below) == IF nodes = <<>> THEN 0 ELSE 2 + Len(nodes) + Total(below)

LanguageDir(node) == DirOf(node.sub, [k \in DOMAIN node.sub |-> 2])

NameDir(node) == DirOf(node.sub, [k \in DOMAIN node.sub |-> LanguageDir(node.sub[k])])

NamesOfOne(node) == node.name + Total([k \in DOMAIN node.sub |-> node.sub[k].name])

NamesOfType(node) == node.name + Total([k \in DOMAIN node.sub |-> NamesOfOne(node.sub[k])])

DirUnits(tree) ==
    [dirs |-> DirOf(tree, [k \in DOMAIN tree |-> NameDir(tree[k])]),
     names |-> Total([k \in DOMAIN tree |-> NamesOfType(tree[k])])]

\* The children of a directory; the table they are entered in stays where it is
\* while bpos moves on
Pending(nodes, base, level, type) ==
    [k \in DOMAIN nodes |-> [node |-> nodes[k], slot |-> base + k - 1, level |-> level,
                             type |-> IF level > 0 THEN type ELSE IF nodes[k].name = 0 THEN nodes[k].key ELSE 0]]

Unit(kind, key, at) == [kind |-> kind, key |-> key, at |-> at]

\* res_dir_size and res_names_size come first, then the root
TreeWork(tree, icons) ==
    LET size == DirUnits(tree)
    IN [tree |-> tree, todo |-> Pending(tree, 2, 0, 0), counted |-> icons, icons |-> icons,
        patched |-> <<>>, moved |-> <<>>, bpos |-> 2 + Len(tree), spos |-> size.dirs,
        newdir |-> [u \in 0 .. size.dirs + size.names - 1 |->
                       IF u = 0 THEN Unit("dir", Len(tree), 0) ELSE Unit("none", 0, 0)]]

BeginResources ==
    /\ phase = "resources"
    /\ oh' = [oh EXCEPT !.dirs = IF oh.nddirs > 0 /\ file.resources THEN @ \cup {"resources"} ELSE @]
    /\ UNCHANGED file
    /\ IF "resources" \notin oh'.dirs THEN Go("assemble") /\ work' = {}
       ELSE IF file.objects = 2 THEN Go("failed") /\ work' = {}
       ELSE \E tree \in Trees, icons \in {0, 1} :
               IF tree = <<>> THEN Go("failed") /\ work' = {} ELSE Go("tree") /\ work' = TreeWork(tree, icons)

\* res_build for one node: its entry in the table of its parent, its name, and
\* its own header or data.  Only the first group of icons has its count patched.
BuildNode ==
    /\ phase = "tree" /\ work.todo # <<>>
    /\ LET head == Head(work.todo)
           node == head.node
           entry == Unit("entry", IF node.name = 0 THEN <<"id", node.key>> ELSE <<"name", work.spos>>,
                         work.bpos)
           linked == [u \in DOMAIN work.newdir |->
                        CASE u = head.slot -> entry
                          [] u \in work.spos .. work.spos + node.name - 1 -> Unit("name", node.key, u - work.spos)
                          [] u = work.bpos /\ head.level < 2 -> Unit("dir", Len(node.sub), 0)
                          [] u = work.bpos /\ head.level = 2 -> Unit("data", 0, node.sub)
                          [] OTHER -> work.newdir[u]]
           rest == [work EXCEPT !.newdir = linked, !.spos = @ + node.name]
       IN IF head.level = 2
          THEN LET patch == node.sub = "moved" /\ work.icons # 0 /\ head.type = GroupIcon
               IN work' = [rest EXCEPT !.todo = Tail(@), !.bpos = @ + 2,
                              !.moved = IF node.sub = "moved" THEN Append(@, work.bpos) ELSE @,
                              !.patched = IF patch THEN Append(@, work.bpos) ELSE @,
                              !.icons = IF patch THEN 0 ELSE @]
               /\ UNCHANGED <<phase, file, oh>>
          ELSE IF node.sub = <<>> THEN Fail
          ELSE /\ work' = [rest EXCEPT !.bpos = @ + 2 + Len(node.sub),
                              !.todo = Pending(node.sub, work.bpos + 2, head.level + 1, head.type) \o Tail(@)]
               /\ UNCHANGED <<phase, file, oh>>


\* A phase is over when nothing of its work is left; the next follows
PhaseOver ==
    \/ phase = "filtered" /\ Go("imports")
    \/ phase = "dll" /\ work.next > Len(work.dlls) /\ Go("relocs")
    \/ phase = "blocks" /\ Go("resources")
    \/ phase = "tree" /\ work.todo = <<>> /\ Go("assemble")

PhaseDone == PhaseOver /\ work' = {} /\ UNCHANGED <<file, oh>>

----------------------------------------------------------------------------
(* The file: headers, sections, and what followed the sections of the packed *)
(* file.  oh.chars is never put back into the header.                        *)

Appended(table) == SelectSeq([k \in DOMAIN table |-> [section |-> k] @@ table[k]],
                             LAMBDA s : s.raw # 0)

Assemble ==
    /\ phase = "assemble"
    /\ UNCHANGED file
    /\ \E table \in SectionTables :
          LET parts == Appended(table)
              first == IF parts = <<>> THEN 0 ELSE Head(parts).raw
          IN IF first < 1 THEN Go("failed") /\ work' = {} /\ UNCHANGED oh
             ELSE /\ Go("done")
                  /\ oh' = [oh EXCEPT !.written = TRUE]
                  /\ work' = [table |-> table,
                              out |-> [k \in DOMAIN parts |->
                                         <<parts[k].section,
                                           first + Total([j \in 1 .. k - 1 |-> parts[j].size])>>]]

UpxNext ==
    \/ FindHeader
    \/ Decode
    \/ Unfilter
    \/ BeginImports
    \/ RebuildDll
    \/ BeginRelocs
    \/ DecodeDelta
    \/ BuildBlocks
    \/ BeginResources
    \/ BuildNode
    \/ PhaseDone
    \/ Assemble

----------------------------------------------------------------------------
(* Properties *)

\* Every offset and every length has one code and no other, whatever the method:
\* with D and E, a length has one for one value of the bit that comes from the
\* offset; and what a match copies repeats the last bytes, be it longer than
\* its offset.  (nrv.rs)
EveryMatchHasOneCode ==
    phase = "decode" /\ file.method # "lzma" =>
        /\ \A len \in 1 .. 7 :
              Cardinality({code \in (IF file.method = "N2b" THEN {0} ELSE {0, 1}) \X BitStrings :
                              LengthOf(file.method, code[1], code[2]) = len}) = 1
        /\ \A offset \in 2 .. 9 :
              Cardinality({bits \in BitStrings : OffsetOf(file.method, bits) = offset}) = 1
        /\ \A offset \in 1 .. 3, n \in 1 .. 5 : \A k \in 1 .. n :
              Copied(<<"a", "b", "c">>, offset, n)[3 + k] = <<"a", "b", "c">>[4 - offset + ((k - 1) % offset)]

\* The filter is undone to the byte, whatever bytes the code is made of: what
\* looks like a call, an escape or a mark in the middle of a displacement too.
\* (filter.rs)
UnfilterRestores ==
    phase = "filtered" /\ file.filter \in {"cto", "ctok"} => work.code = work.was

\* The loader finds the imports of the program: each descriptor leads to the name
\* of its DLL, each slot to the name, the ordinal or the bound address of its
\* function, in order, with a terminator behind the last; no name has been
\* written over another.  (rebuild_imports)
ImportsLeadToNames ==
    phase = "dll" /\ work.next > Len(work.dlls) =>
        \A d \in DOMAIN work.dlls :
            LET dll == work.dlls[d]
                Reads(at, text) == \A k \in DOMAIN text :
                    at + k - 1 \in DOMAIN work.area /\ work.area[at + k - 1] = text[k]
            IN /\ Reads(work.names[d], Spelled(d, 0, dll.len))
               /\ work.slots[IatAt(work.dlls, d) + Len(dll.items)] = <<"end", 0>>
               /\ \A i \in DOMAIN dll.items :
                     LET slot == work.slots[IatAt(work.dlls, d) + i - 1]
                     IN CASE dll.items[i] > 0 -> slot[1] = "at" /\ Reads(slot[2] + 2, Spelled(d, i, dll.items[i]))
                          [] dll.items[i] = 0 -> slot = <<"ordinal", i>>
                          [] OTHER -> slot = <<"bound", i>>

\* The loader walks the blocks by their sizes to their end and finds the
\* relocations of the program, no more and no fewer, padding aside.
\* (reloc::build_blocks)
RelocsReadBack ==
    phase = "blocks" =>
        LET w == work.blocks
            Size(i) == (w[i + 1].value - 8) \div 2
            Whole(i) == i + 1 <= Len(w) /\ w[i].kind = "page" /\ i + 1 + Size(i) <= Len(w)
            Listed(i) == {<<w[i].value + w[k].value, w[k].type>> :
                             k \in {j \in i + 2 .. i + 1 + Size(i) : w[j].type # 0}}
            walk[n \in 0 .. Len(w)] ==
                IF n = 0 THEN [at |-> 1, found |-> {}]
                ELSE LET v == walk[n - 1]
                     IN IF ~Whole(v.at) THEN v
                        ELSE [at |-> v.at + 2 + Size(v.at), found |-> v.found \cup Listed(v.at)]
        IN walk[Len(w)] = [at |-> Len(w) + 1,
                           found |-> {work.entries[k] : k \in DOMAIN work.entries}]

\* The loader finds in the rebuilt directory the tree the packer was given: at
\* each level as many entries, with their ids or their names, leading to their
\* children; and the count of icons is patched in the first group of icons that
\* was moved, and nowhere else.  (rebuild_resources)
ResourcesReadBack ==
    phase = "tree" /\ work.todo = <<>> =>
        LET dir == work.newdir
            Named(entry, node) ==
                IF node.name = 0 THEN entry.key = <<"id", node.key>>
                ELSE /\ entry.key[1] = "name"
                     /\ \A u \in 0 .. node.name - 1 :
                           dir[entry.key[2] + u] = Unit("name", node.key, u)
            Lists(at, nodes, Child(_, _)) ==
                /\ dir[at].kind = "dir" /\ dir[at].key = Len(nodes)
                /\ \A k \in DOMAIN nodes :
                      LET entry == dir[at + 1 + k]
                      IN entry.kind = "entry" /\ Named(entry, nodes[k]) /\ Child(entry.at, nodes[k])
            Leaf(at, node) == dir[at].kind = "data" /\ dir[at].at = node.sub
            Language(at, node) == Lists(at, node.sub, Leaf)
            Name(at, node) == Lists(at, node.sub, Language)
            icons == {u \in DOMAIN dir : dir[u].kind = "data" /\ dir[u].at = "moved" /\
                         \E k \in DOMAIN work.tree : work.tree[k].name = 0
                             /\ work.tree[k].key = GroupIcon /\ dir[1 + k].at < u
                             /\ (k < Len(work.tree) => u < dir[2 + k].at)}
        IN /\ Lists(0, work.tree, Name)
           /\ work.patched = IF work.counted = 0 \/ icons = {} THEN <<>> ELSE <<Min(icons)>>

\* Whatever the unpacker rebuilds, the loader reads back as the packer was given it.
TablesReadBack == ImportsLeadToNames /\ RelocsReadBack /\ ResourcesReadBack

\* What the header says of the program's directories is not lost on the way to
\* the product (OrigHeader::parse: "data directory sizes differ per magic").  It
\* does not hold: the count of a PE32 header is read where PE32+ has it.
DirectoriesHonoured ==
    phase = "done" =>
        /\ file.resources => "resources" \in oh.dirs
        /\ file.relocs # "none" /\ ~oh.chars => "relocs" \in oh.dirs

=============================================================================
