---------------------------- MODULE IatDiscovery ----------------------------
(***************************************************************************)
(* Finding the import table of the unpacked program and repairing it:      *)
(* determine_iat_address looks in the code for an instruction that reads a *)
(* slot of the table, scan_iat_boundaries grows the table around that slot *)
(* by what its neighbours hold, and fix_iat replaces the shell's stubs.    *)
(*                                                                         *)
(* Code is a sequence of instructions, of which the search tells apart a   *)
(* few.  A slot is a number and holds one of a few kinds of value:         *)
(*   zero   padding                  api    an address in a system module  *)
(*   tramp  a stub of the shell      rva    an address that was never      *)
(*   heap   some other pointer              relocated, of code             *)
(*   data   the same, of data        image  a pointer to the image's code  *)
(***************************************************************************)
EXTENDS Integers, Sequences, FiniteSets, FiniteSetsExt

CONSTANTS
    Text,           \* length of the code
    Slots,          \* slots the code may refer to
    SectionOf,      \* their sections, "gap" for none
    DelphiSkip,     \* the jump at which Delphi's code is taken to begin (3)
    FollowDepth,    \* how deep calls are followed (32)
    InstrLimit,     \* instructions looked at in one function (200)
    Kinds,          \* what the slots around the reference may hold
    Reads,          \* how many slots the read of the table may return
    Lead,           \* slots read before the reference (a quarter, 1280)
    MaxSlots,       \* MAX_IAT_SIZE in slots (5120)
    ZeroRun,        \* CONSECUTIVE_ZERO_THRESHOLD (64)
    BackwardCap,    \* MAX_IAT_SLOTS_BACKWARD (512)
    ForwardGap,     \* MAX_FORWARD_GAP_SLOTS (48)
    BackwardGap,    \* MAX_BACKWARD_GAP_SLOTS (64)
    EarlierGap,     \* MAX_EARLIER_REF_GAP, in bytes (0x800)
    BackwardHead    \* MAX_BACKWARD_HEAD, in bytes (0x1000)

\* A walk back over x64 slots, two units each, stays within BackwardHead
ASSUME DiscoveryAssumption ==
    /\ Text \in Nat \ {0}
    /\ Slots \subseteq Nat \ {0}
    /\ {DelphiSkip, FollowDepth, InstrLimit} \subseteq Nat
    /\ {Lead, MaxSlots, ZeroRun, BackwardCap} \subseteq Nat
    /\ {ForwardGap, BackwardGap, EarlierGap, BackwardHead} \subseteq Nat
    /\ ZeroRun < BackwardCap
    /\ 2 * BackwardCap <= BackwardHead
    /\ Reads \subseteq 0 .. MaxSlots

VARIABLES
    pc,         \* the step determine_iat_address or its caller takes next
    layout,     \* of the image: x86, x64 high (relocated) or x64 low
    code,       \* the code and what is known about it
    held,       \* what the slots the code refers to hold
    ref,        \* iat_ref, 0 for none
    table,      \* iat_data: the slots read around the reference
    loc,        \* the IatLocation
    slots       \* what the located slots hold, and held before the repair

vars == <<pc, layout, code, held, ref, table, loc, slots>>

----------------------------------------------------------------------------
(* Addresses.  An x86 system module lies above the image; on x64 it shares *)
(* its range with an image that was relocated.                             *)

\* is_likely_api_address and is_within_image, which are the same function
Plausible(kind) ==
    kind = "api" \/ (kind \in {"tramp", "image"} /\ layout = "x64high")

InImage(kind) == kind \in {"tramp", "image"}

\* Beyond the end of .text
AboveText(kind) == kind \in {"api", "tramp"} \/ (kind = "heap" /\ layout = "x86")

Bytes(n) == n * (IF layout = "x86" THEN 1 ELSE 2)

----------------------------------------------------------------------------
(* The search of the code *)

\* A call out of the code ends the walk like a return
Instructions(compiler) ==
    LET operand(ops) == {[op |-> o, to |-> s] : o \in ops, s \in Slots}
        plain == {[op |-> o, to |-> 0] : o \in {"nop", "ret"}}
    IN CASE compiler = "Msvc" -> plain \union operand({"call_mem"})
                \union {[op |-> "call", to |-> p] : p \in 1 .. Text}
         [] compiler = "Delphi" -> plain \union operand({"call_mem", "jmp_mem"})
         [] compiler = "Go" -> plain \union operand({"call_mem", "mov_call"})

Indirect(i) == code.text[i].op \in {"call_mem", "jmp_mem"}

\* The operand's slot cannot be read, or what it holds lies beyond .text
Accepted(slot) == held[slot] = "unreadable" \/ AboveText(held[slot])

FrameAt(p) == [at |-> p, count |-> 0]

\* One instruction of find_iat_ref_inner.  The innermost function is the last
\* of "stack"; a call that finds nothing goes on behind the call.
Returned(s) ==
    LET outer == SubSeq(s.stack, 1, Len(s.stack) - 1)
    IN [s EXCEPT !.stack =
          IF outer = <<>> THEN <<>>
          ELSE [outer EXCEPT ![Len(outer)] = [at |-> @.at + 1, count |-> @.count + 1]]]

Passed(s) ==
    [s EXCEPT !.stack[Len(s.stack)] = [at |-> @.at + 1, count |-> @.count + 1]]

EnteredUnmarked(s, p) ==
    IF Len(s.stack) > FollowDepth THEN Passed(s)
    ELSE [s EXCEPT !.stack = Append(@, FrameAt(p))]

\* A function is entered once in a search, and not too deep
Entered(s, p) ==
    IF Len(s.stack) > FollowDepth \/ p \in s.visited THEN Passed(s)
    ELSE [s EXCEPT !.stack = Append(@, FrameAt(p)), !.visited = @ \union {p}]

Decoded(s, ignoreBoundary) ==
    LET frame == s.stack[Len(s.stack)]
        insn == code.text[frame.at]
    IN IF frame.at > Text \/ (frame.count >= InstrLimit /\ ~ignoreBoundary)
       THEN Returned(s)
       ELSE IF Indirect(frame.at) /\ Accepted(insn.to) THEN [s EXCEPT !.found = insn.to]
       ELSE IF ignoreBoundary THEN Passed(s)
       ELSE CASE insn.op = "call" -> Entered(s, insn.to)
              [] insn.op = "ret" -> Returned(s)
              [] OTHER -> Passed(s)

\* Every instruction is decoded at most once for each function it is part of
SearchSteps == Text * (Text + 2)

Begun(start) == [stack |-> <<FrameAt(start)>>, visited |-> {start}, found |-> 0]

Ended(s) == s.stack = <<>> \/ s.found # 0

SearchRun(start, ignoreBoundary) ==
    LET run[n \in 0 .. SearchSteps] ==
            IF n = 0 THEN Begun(start)
            ELSE LET s == run[n - 1]
                 IN IF Ended(s) THEN s ELSE Decoded(s, ignoreBoundary)
    IN run

SearchState(start, ignoreBoundary) == SearchRun(start, ignoreBoundary)[SearchSteps]

\* find_iat_ref_from_address
FindRef(start, ignoreBoundary) == SearchState(start, ignoreBoundary).found

\* find_delphi_call: the third jump, or the beginning
DelphiStart ==
    LET jumps == {i \in 1 .. Text : code.text[i].op = "jmp_mem"}
        third == {i \in jumps : Cardinality({j \in jumps : j <= i}) = DelphiSkip}
    IN IF third = {} THEN 1 ELSE Min(third)

\* find_go_api_call, which falls back to the other scan
GoStart == IF code.buildId THEN 2 ELSE 1

GoRef ==
    LET loads == {i \in GoStart .. Text :
                    code.text[i].op = "mov_call" /\ Plausible(held[code.text[i].to])}
    IN IF loads # {} THEN code.text[Min(loads)].to ELSE FindRef(GoStart, TRUE)

\* The match over the compiler in determine_iat_address
FirstRef ==
    LET start == IF code.vm THEN 1 ELSE code.oep
        found == FindRef(start, code.vm)
    IN CASE code.compiler = "Go" /\ ~code.buildId -> found
         [] code.compiler = "Go" -> GoRef
         [] code.compiler = "Delphi" -> FindRef(DelphiStart, TRUE)
         [] OTHER -> IF found = 0 /\ ~code.vm THEN FindRef(1, TRUE) ELSE found

\* find_earliest_iat_ref.  It takes every operand for a relative one, so that
\* those of x86 code name nothing in the image.
EarliestRef ==
    LET refs == {code.text[i].to : i \in {j \in 1 .. Text : Indirect(j)}}
        valid == {s \in refs : held[s] # "unreadable" /\ AboveText(held[s])}
    IN IF layout = "x86" \/ valid = {} THEN 0 ELSE Min(valid)

\* iat_ref_from_guard_addrs and scan_data_for_pointer: the import the guarded
\* call reached is looked for in the data
GuardRef(guard) ==
    LET holders == {s \in Slots : held[s] = "api"}
    IN IF guard = "call" /\ holders # {} THEN Min(holders) ELSE 0

Codes ==
    UNION {[compiler : {c}, text : [1 .. Text -> Instructions(c)],
            vm : BOOLEAN, oep : {1, Text}, buildId : BOOLEAN] : c \in {"Msvc", "Delphi", "Go"}}

\* A gap between sections is mapped and reads as zeroes
Contents ==
    {h \in [Slots -> {"unreadable", "zero", "api", "tramp"}] :
        \A s \in Slots : SectionOf[s] = "gap" => h[s] = "zero"}

\* What makes no difference to a program is fixed
Init ==
    /\ layout \in {"x86", "x64high", "x64low"}
    /\ code \in Codes
    /\ (code.compiler # "Go" => ~code.buildId)
    /\ (code.compiler = "Delphi" => ~code.vm)
    /\ (code.vm \/ code.compiler = "Delphi" => code.oep = 1)
    /\ held \in Contents
    /\ pc = "scan"
    /\ ref = 0
    /\ table = <<>>
    /\ loc = [start |-> 0, count |-> 0]
    /\ slots = {}

Scan ==
    /\ pc = "scan"
    /\ ref' = FirstRef
    /\ pc' = IF ref' = 0 THEN "rescan" ELSE "earlier"
    /\ UNCHANGED <<layout, code, held, table, loc, slots>>

\* Once the search is over only the reference and what it holds are kept
NoCode == [compiler |-> "none"]

Fail(what) == pc' = what /\ UNCHANGED <<layout, code, held, ref, table, loc, slots>>

\* No reference so far: the whole code, then the guarded addresses
Rescan ==
    /\ pc = "rescan"
    /\ \E guard \in {"none", "unreadable", "call", "other"} :
       LET found == IF EarliestRef # 0
                    THEN IF SectionOf[EarliestRef] # "gap" THEN EarliestRef ELSE 0
                    ELSE GuardRef(guard)
       IN IF EarliestRef = 0 /\ guard = "unreadable" THEN Fail("error")
          ELSE IF found = 0 THEN Fail("notfound")
          ELSE /\ ref' = found
               /\ pc' = "read"
               /\ code' = NoCode
               /\ UNCHANGED <<layout, held, table, loc, slots>>

\* A reference was found: an earlier one close to it is preferred
AdoptEarlier ==
    /\ pc = "earlier"
    /\ LET same == SectionOf[EarliestRef] = SectionOf[ref]
                     \/ "gap" \in {SectionOf[EarliestRef], SectionOf[ref]}
           adopt == /\ EarliestRef # 0 /\ EarliestRef < ref
                    /\ same /\ Bytes(ref - EarliestRef) <= EarlierGap
       IN ref' = IF adopt THEN EarliestRef ELSE ref
    /\ pc' = "read"
    /\ code' = NoCode
    /\ UNCHANGED <<layout, held, table, loc, slots>>

----------------------------------------------------------------------------
(* The boundaries.  Index 0 is the first slot that was read. *)

RefIndex == Lead
Read == Cardinality(DOMAIN table)

ReadTable ==
    /\ pc = "read"
    /\ IF held[ref] = "unreadable"
       THEN /\ pc' = "error"
            /\ UNCHANGED table
       ELSE \E n \in Reads :
               /\ table' \in {t \in [0 .. n - 1 -> Kinds] : Lead < n => t[Lead] = held[ref]}
               /\ pc' = IF n < 2 \/ n <= Lead THEN "notfound" ELSE "bound"
    /\ held' = [s \in Slots |-> "zero"]
    /\ ref' = 0
    /\ UNCHANGED <<layout, code, loc, slots>>

Barrier(i) == table[i] # "zero" /\ ~Plausible(table[i])

\* More than ZeroRun zeroes from i up to the reference
LongRun(i) == i + ZeroRun <= RefIndex /\ \A j \in i .. i + ZeroRun : table[j] = "zero"

\* Where the backward walk stops, and where it says the table starts
WalkStop ==
    Max({i \in 0 .. RefIndex :
            Barrier(i) \/ LongRun(i) \/ RefIndex - i = BackwardCap \/ i = 0})

WalkStart ==
    LET entries == {i \in WalkStop .. RefIndex : Plausible(table[i])}
    IN CASE LongRun(WalkStop) -> Min({WalkStop + ZeroRun + 2, Read - 1})
         [] Barrier(WalkStop) -> WalkStop + 1
         [] OTHER -> IF entries = {} THEN -1 ELSE Min(entries)

\* Padding and, on x64, addresses outside the image are trimmed off the head
OutsideApiAny(i) == Plausible(table[i])

OutsideApi(i) == Plausible(table[i]) /\ ~InImage(table[i])

Trimmable(i) == table[i] = "zero" \/ (layout # "x86" /\ OutsideApi(i))

TrimmedStart ==
    LET kept == {i \in WalkStart .. Read - 1 : ~Trimmable(i)}
    IN IF kept = {} THEN WalkStart ELSE Min(kept)

\* discover_iat_blocks: runs of zeroes and plausible values, by their start
Valid(i) == i \in 0 .. Read - 1 /\ ~Barrier(i)
Blocks == {i \in 0 .. Read - 1 : Valid(i) /\ ~Valid(i - 1)}
BlockEnd(b) == Min({i \in b .. Read : ~Valid(i)})

\* select_primary_block, asked only for an index that lies in no block; of
\* equally long ones max_by_key keeps the last
LargestBlock ==
    Max({b \in Blocks : \A c \in Blocks : BlockEnd(c) - c <= BlockEnd(b) - b})

\* The first block that reaches past the walk's answer, or the largest
PrimaryBlock ==
    LET after == {b \in Blocks : BlockEnd(b) > TrimmedStart}
    IN IF after # {} THEN Min(after) ELSE LargestBlock

GapBefore(b) == b - Max({BlockEnd(c) : c \in {d \in Blocks : d < b}})

\* Later blocks are merged up to the first wide gap.  No gap is all zeroes:
\* zeroes belong to the blocks.
MergedEndAll == BlockEnd(Max(Blocks))

MergedEnd ==
    LET merged == {b \in Blocks : /\ b >= PrimaryBlock
                                  /\ \A c \in Blocks : c > PrimaryBlock /\ c <= b
                                                         => GapBefore(c) <= ForwardGap}
    IN BlockEnd(Max(merged))

\* The block before is merged if the walk ended close to the reference
OwnStart == Max({PrimaryBlock, TrimmedStart})

MergedStart ==
    LET before == {b \in Blocks : b < PrimaryBlock}
        head == {i \in Max(before) .. OwnStart - 1 : table[i] # "zero" /\ ~OutsideApi(i)}
        first == IF head = {} THEN OwnStart ELSE Min(head)
    IN IF /\ Bytes(RefIndex - TrimmedStart) <= EarlierGap
          /\ before # {}
          /\ GapBefore(OwnStart) <= BackwardGap
       THEN Max({first, TrimmedStart})
       ELSE OwnStart

Clamped == Bytes(RefIndex - MergedStart) > BackwardHead

\* scan_iat_boundaries; without a block its fallback finds nothing either
Bound ==
    /\ pc = "bound"
    /\ IF WalkStart = -1 \/ Blocks = {} \/ MergedEnd <= MergedStart
       THEN pc' = "notfound" /\ UNCHANGED loc
       ELSE /\ loc' = [start |-> IF Clamped THEN RefIndex ELSE MergedStart,
                       count |-> MergedEnd - MergedStart]
            /\ pc' = "located"
    /\ UNCHANGED <<layout, code, held, ref, table, slots>>

Located == loc.start .. loc.start + loc.count - 1

----------------------------------------------------------------------------
(* The repair.  Every slot is repaired on its own, so that it is enough to *)
(* follow one of each kind; "stub" is the code at the address it holds.    *)

\* classify_iat_slot: a relocated pointer into the image counts as resolved
Classify(kind) ==
    CASE kind = "zero" -> "Separator"
      [] kind = "tramp" -> "Trace"
      [] Plausible(kind) -> "Resolved"
      [] kind = "image" -> "Trace"
      [] kind = "rva" -> "TraceRva"
      [] kind = "data" -> "NotAnImport"
      [] OTHER -> "Trash"

Stubs == {"unreadable", "jmp_mem", "jmp_mem_zero", "jmp_api", "jmp_in", "mov_jmp", "other"}

\* resolve_v1_jumper and resolve_v2_stub: "-" for None
ResolveV1(stub) ==
    CASE stub = "jmp_mem" -> "target"
      [] stub \in {"jmp_api", "mov_jmp"} -> "api"
      [] OTHER -> "-"

\* A stub that cannot be read is an error here
ResolveV2(stub) ==
    CASE stub = "unreadable" -> "error"
      [] stub \in {"jmp_mem", "jmp_api", "mov_jmp"} -> "api"
      [] OTHER -> "-"

Enter ==
    /\ pc = "located"
    /\ pc' = "fix"
    /\ slots' = {[was |-> table[i], is |-> table[i]] :
                    i \in {j \in Located : j < Read}}
    /\ table' = <<>>
    /\ loc' = [start |-> 0, count |-> 0]
    /\ UNCHANGED <<layout, code, held, ref>>

Held == {s.was : s \in slots}

Write(new) ==
    /\ slots' = {[was |-> s.was, is |-> IF new[s.was] = "-" THEN s.is ELSE new[s.was]] :
                    s \in slots}
    /\ pc' = "done"
    /\ UNCHANGED <<layout, code, held, ref, table, loc>>

\* fix_iat_v1: whatever the slot holds is taken for a jumper
FixV1 ==
    /\ pc = "fix"
    /\ \E kind \in Held \ {"zero"}, stub \in Stubs :
          Write([k \in Held |-> IF k # kind THEN "-" ELSE ResolveV1(stub)])

\* fix_iat_v2: stubs of the shell only, and nothing is written on an error
FixV2 ==
    /\ pc = "fix"
    /\ \E stub \in Stubs :
          IF ResolveV2(stub) = "error" /\ \E s \in slots : s.was = "tramp"
          THEN Fail("error")
          ELSE Write([k \in Held |-> IF k # "tramp" THEN "-" ELSE ResolveV2(stub)])

\* fix_iat_v3 traces what is to be traced, with or without success
FixV3 ==
    /\ pc = "fix"
    /\ \E traced \in {"api", "-"} :
          Write([k \in Held |-> IF Classify(k) \in {"Trace", "TraceRva"} THEN traced ELSE "-"])

Over == pc \in {"done", "error", "notfound"} /\ UNCHANGED vars

Next ==
    \/ Scan \/ Rescan \/ AdoptEarlier \/ ReadTable \/ Bound
    \/ Enter \/ FixV1 \/ FixV2 \/ FixV3 \/ Over

Spec == Init /\ [][Next]_vars

----------------------------------------------------------------------------
(* Properties *)

\* Whatever calls whatever, in a cycle or not, the search comes to an end
\* after it has decoded every instruction at most once for each function
\* (the visited set of find_iat_ref_inner, behind FOLLOW_DEPTH).
SearchIsBounded ==
    pc = "scan" =>
        Ended(SearchState(code.oep, FALSE))

\* The reference that the boundaries are grown from is an operand of the code,
\* or holds the import the guard saw called, and is never a slot of padding.
ReferenceHoldsAnImport ==
    pc = "read" => held[ref] \in {"unreadable", "api", "tramp"}

\* The search ends, with a place to begin at that the program imports through.
SearchFindsAnImport == SearchIsBounded /\ ReferenceHoldsAnImport

\* The located table lies in what was read: its start never leaves the head
\* it was merged with, so that count, which the last clamp of
\* scan_iat_boundaries does not adjust, still ends it inside the buffer.
TableInsideRead == pc = "located" => loc.start + loc.count <= Read

Together(i, j) ==
    /\ layout = "x64high"
    /\ \A k \in Min({i, j}) .. Max({i, j}) : table[k] = "tramp"

AfterPadding(i) == i > ZeroRun /\ \A j \in i - ZeroRun - 1 .. i - 1 : table[j] = "zero"

\* Every stub next to the reference, before it as far as the walk of
\* scan_iat_boundaries goes or behind it, lies in the table: one left out
\* keeps its call into the shell.  The first entry behind a run of padding is
\* the exception, see EntryBehindPaddingKept.
NeighbouringStubsKept ==
    pc = "located" =>
        \A i \in 0 .. Read - 1 :
            Together(i, RefIndex) /\ RefIndex - i <= BackwardCap /\ ~AfterPadding(i)
                => i \in Located

\* "A run of more than CONSECUTIVE_ZERO_THRESHOLD zero slots is table padding,
\* so the start is the first slot after it" (boundaries.rs:203).  The code adds
\* one too many and starts at the second.
EntryBehindPaddingKept ==
    pc = "located" =>
        \A i \in 0 .. Read - 1 :
            Together(i, RefIndex) /\ RefIndex - i <= BackwardCap /\ AfterPadding(i)
                => i \in Located

\* A run of values that are no imports is never wider inside the table than
\* the gap that one of the two merges may bridge.
GapsInTableAreShort ==
    pc = "located" =>
        \A i, j \in Located :
            i <= j /\ (\A k \in i .. j : Barrier(k))
                => j - i < Max({ForwardGap, BackwardGap})

\* What is taken for the table was read, and is a table throughout.
TableIsTight == TableInsideRead /\ GapsInTableAreShort
=============================================================================
