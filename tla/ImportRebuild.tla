---------------------------- MODULE ImportRebuild ----------------------------
(***************************************************************************)
(* Rebuilding the import directory from the live import table: the export  *)
(* tables of the loaded modules are read, every slot collects the modules  *)
(* it may stand for, the slots between two zeroes vote on one, the classic *)
(* path regroups and normalises the result, and the descriptors and hints  *)
(* are written so that the loader of the product finds them.               *)
(*                                                                         *)
(* Modules are numbers in the order of their base addresses, names are     *)
(* numbers in alphabetical order, and a slot is the number of a pointer.   *)
(***************************************************************************)
EXTENDS Integers, SequencesExt

CONSTANTS
    Modules,        \* the loaded modules, without the program itself
    Worlds,         \* what their export tables may have together
    Home,           \* the module whose range an address lies in, 0 for none
    Priority,       \* of a forwarding module: kernel32 before kernelbase
    Score,          \* preference_score of a module
    Values,         \* what a slot of the live table may hold
    TableSlots,     \* slots of the table
    MaxGap          \* MAX_GAP_SLOTS

\* An entry with "ord" has no name but an ordinal.  "fwd" is what its string
\* forwards to, "stub" the address its code jumps to through a pointer.
ASSUME RebuildAssumption ==
    /\ Modules \subseteq Nat \ {0} /\ IsFiniteSet(Modules)
    /\ TableSlots \in Nat \ {0} /\ MaxGap \in Nat
    /\ \A w \in Worlds : IsFiniteSet(w)
    /\ \A w \in Worlds : \A e, f \in w :
        /\ e.mod \in Modules /\ e.at # 0 /\ e.ord \in BOOLEAN
        /\ e.mod = f.mod /\ e.name = f.name /\ e.ord = f.ord => e = f
        /\ e.stub = f.stub /\ e.stub # 0 => e = f

VARIABLES
    stage,      \* the step of the rebuild that is taken next
    world,      \* the export tables of the loaded modules
    known,      \* the snapshot of them
    classic,    \* DumpOptions.classic_imports
    live,       \* the table in the debuggee
    iat,        \* iat_data
    candidates, \* the resolutions of every slot
    next,       \* the slot the vote looks at next
    builder,    \* ImportTableBuilder: modules with their thunks
    output      \* the slots in the dump, and then in the product

rebuildVars == <<stage, world, known, classic, live, iat, candidates, next, builder, output>>

None == <<>>

\* A set of modules or of slots in ascending order
Ascending(set) ==
    [i \in 1 .. Cardinality(set) |->
        CHOOSE x \in set : Cardinality({y \in set : y <= x}) = i]

----------------------------------------------------------------------------
(* The export tables, as gather_module_exports_from_remote reads them *)

\* A later name of the same address replaces an earlier one, and an entry
\* without a name replaces both
Seen(w) ==
    {e \in w :
        LET here == {f \in w : f.mod = e.mod /\ f.at = e.at}
        IN IF e.ord THEN \A f \in here : f.ord => f.name <= e.name
           ELSE \A f \in here : ~f.ord /\ f.name <= e.name}

Snapshot == Seen(world)

NameAt(m, a) == {e \in known : e.mod = m /\ e.at = a}

\* is_api_address asks the module in whose range the address lies
IsApiAddress(a) == a # 0 /\ \E e \in Snapshot : e.mod = Home[a] /\ e.at = a

\* determine_iat_size: up to the first wide gap behind a valid slot
ScannedSize(t) ==
    LET last[i \in 0 .. TableSlots] ==
            IF i = 0 THEN 0
            ELSE IF last[i - 1] # 0 /\ i - 1 >= last[i - 1] + MaxGap THEN last[i - 1]
            ELSE IF IsApiAddress(t[i]) THEN i - 1 ELSE last[i - 1]
    IN last[TableSlots] + 1

----------------------------------------------------------------------------
(* Pass 1: what a slot may stand for *)

\* The entry a forwarding one names, among entries k
TargetIn(k, e) ==
    IF e.fwd = None THEN {}
    ELSE {t \in k : t.mod = e.fwd[1] /\ t.name = e.fwd[2] /\ ~t.ord}

ForwardTarget(e) == TargetIn(known, e)

\* forward_map: the export that forwards to the address
ForwardMap(a) ==
    LET sources == {e \in known : \E t \in ForwardTarget(e) : t.at = a}
        best == {e \in sources : \A f \in sources :
                    \/ Priority[f.mod] < Priority[e.mod]
                    \/ Priority[f.mod] = Priority[e.mod] /\ e.mod <= f.mod}
    IN IF best = {} THEN {} ELSE {CHOOSE e \in best : TRUE}

\* forward_string_map: where the string at the address forwards to
StringMap(a) == UNION {ForwardTarget(e) : e \in {f \in known : f.at = a}}

Candidates(v) ==
    LET choice(ms) == [i \in DOMAIN ms |-> [mod |-> ms[i], at |-> v]]
        forwarding == Ascending({e.mod : e \in ForwardMap(v)})
        exporting == Ascending({e.mod : e \in {f \in known : f.at = v}})
        real == SetToSeq({[mod |-> t.mod, at |-> t.at] : t \in StringMap(v)})
    IN IF v = 0 THEN <<>>
       ELSE choice(forwarding) \o choice(exporting) \o real

----------------------------------------------------------------------------
(* Pass 2: the slots between two zeroes vote *)

GroupAt(i) == {j \in i .. Len(iat) - 1 : \A k \in i .. j : iat[k + 1] # 0}

CandidateOf(j) == candidates[j + 1]

Votes(group, m) ==
    MapThenSumSet(LAMBDA j : Cardinality({k \in DOMAIN CandidateOf(j) : CandidateOf(j)[k].mod = m}),
                  group)

\* The most votes, then the best score; the order of a HashMap decides the rest
Winners(group) ==
    LET voted == {m \in Modules : Votes(group, m) > 0}
        most == {m \in voted : \A k \in voted : Votes(group, k) <= Votes(group, m)}
    IN {m \in most : \A k \in most : Score[k] <= Score[m]}

\* The winner's candidate, or the slot's own best
Chosen(j, winner) ==
    LET own == {k \in DOMAIN CandidateOf(j) : CandidateOf(j)[k].mod = winner}
    IN CandidateOf(j)[IF own = {} THEN 1 ELSE Min(own)]

\* A module that does not export the address itself forwards to it
ThunkAt(j, c) ==
    LET names == IF NameAt(c.mod, c.at) # {} THEN NameAt(c.mod, c.at) ELSE ForwardMap(c.at)
        e == CHOOSE e \in names : TRUE
    IN [slot |-> j, ord |-> e.ord, name |-> e.name]

\* One bucket for each module, from slots with a module and a thunk.  The order
\* in which validate_and_regroup meets them is lost in the normalisation.
Bucketed(pairs) ==
    LET mods == Ascending({pairs[s].mod : s \in DOMAIN pairs})
        slots(m) == Ascending({s \in DOMAIN pairs : pairs[s].mod = m})
    IN [i \in DOMAIN mods |->
          [mod |-> mods[i],
           thunks |-> [k \in DOMAIN slots(mods[i]) |-> pairs[slots(mods[i])[k]].thunk]]]

Buckets(choice) ==
    Bucketed([j \in DOMAIN choice |-> [mod |-> choice[j].mod, thunk |-> ThunkAt(j, choice[j])]])

----------------------------------------------------------------------------
(* The classic path *)

SlotsOf(module) == {module.thunks[k].slot : k \in DOMAIN module.thunks}

ThunkIn(module, s) ==
    module.thunks[CHOOSE k \in DOMAIN module.thunks : module.thunks[k].slot = s]

OwnedBy(b) == UNION {SlotsOf(b[i]) : i \in DOMAIN b}

\* Of two thunks for one slot the first is kept
Pairs(b) ==
    [s \in OwnedBy(b) |->
        LET i == Min({i \in DOMAIN b : s \in SlotsOf(b[i])})
        IN [mod |-> b[i].mod, thunk |-> ThunkIn(b[i], s)]]

\* build_stub_target_map: the export whose code jumps out of its module to a
StubFor(a) == {e \in known : e.stub = a /\ a # 0 /\ Home[a] \notin {0, e.mod}}

Resolve(a) ==
    LET here == {e \in known : e.at = a} IN {e \in here : \A f \in here : e.mod <= f.mod}

\* The names in a module's export map; an ordinal passes for the name "#n"
HasName(m, p) == \E e \in known : e.mod = m /\ e.name = p.thunk.name /\ ~e.ord

As(p, e) ==
    [mod |-> e.mod,
     thunk |-> [slot |-> p.thunk.slot, ord |-> FALSE, name |-> IF e.ord THEN -e.name ELSE e.name]]

\* validate_and_regroup for one thunk.  What it is moved to is always a name,
\* "#n" (here: -n) where the export has none.
Rehomed(p) ==
    LET derived == StubFor(iat[p.thunk.slot + 1])
        found == Resolve(iat[p.thunk.slot + 1])
    IN CASE derived # {} -> As(p, CHOOSE e \in derived : TRUE)
         [] derived = {} /\ ~p.thunk.ord /\ HasName(p.mod, p) -> p
         [] OTHER -> IF found = {} THEN p ELSE As(p, CHOOSE e \in found : TRUE)

\* normalize_module_runs: neighbouring slots make a cluster
Cluster(pairs, s) == {j \in DOMAIN pairs : j >= s /\ s .. j \subseteq DOMAIN pairs}

CoveringFirst(pairs, cluster) == {pairs[Min(cluster)].mod}

\* The modules under which every name of a cluster is valid.  A cluster of
\* one module stays with it.
Covering(pairs, cluster) ==
    LET mods == {pairs[s].mod : s \in cluster}
        valid(m, p) == IF p.thunk.ord THEN p.mod = m
                       ELSE \E e \in known : e.mod = m /\
                              p.thunk.name = (IF e.ord THEN -e.name ELSE e.name)
        first(m) == Min({s \in cluster : pairs[s].mod = m})
        fit == IF Cardinality(mods) = 1 THEN mods
               ELSE {m \in mods : \A s \in cluster : valid(m, pairs[s])}
    IN {m \in fit : \A k \in fit : first(m) <= first(k)}

\* Where the clusters begin that one module covers
Covered(pairs) ==
    {s \in DOMAIN pairs : s - 1 \notin DOMAIN pairs /\ Covering(pairs, Cluster(pairs, s)) # {}}

Normalised(pairs) ==
    LET first == Ascending(Covered(pairs))
    IN [i \in DOMAIN first |->
          [mod |-> CHOOSE m \in Covering(pairs, Cluster(pairs, first[i])) : TRUE,
           thunks |-> [k \in 1 .. Cardinality(Cluster(pairs, first[i])) |->
                         pairs[first[i] + k - 1].thunk]]]

----------------------------------------------------------------------------
(* The section and the slots *)

ThunkValue(t) == <<"thunk", t.ord, t.name>>
Zero == <<"zero">>

DenseUnterminated(i) ==
    LET sum[k \in 0 .. Len(builder)] ==
            IF k = 0 THEN 0 ELSE sum[k - 1] + Len(builder[k].thunks)
    IN sum[i - 1]

\* Each module before takes its thunks and a terminator
Dense(i) ==
    LET sum[k \in 0 .. Len(builder)] ==
            IF k = 0 THEN 0 ELSE sum[k - 1] + Len(builder[k].thunks) + 1
    IN sum[i - 1]

\* Where a descriptor says its slots begin (build_import_section_no_iat)
FirstThunk(i) == IF classic THEN Min(SlotsOf(builder[i])) ELSE Dense(i)

Owned == OwnedBy(builder)

TerminatedLate(slots, module) ==
    LET mine == SlotsOf(module)
    IN [s \in DOMAIN slots |->
          IF s = Max(mine \union {0}) + 2 THEN Zero
          ELSE IF s \in mine THEN ThunkValue(ThunkIn(module, s))
          ELSE slots[s]]

\* write_iat_lookup_to_dump_buf for one module: its slots, the gaps between
\* them that nobody owns, and the terminator
LookupWritten(slots, module) ==
    LET mine == SlotsOf(module)
        last == Max(mine \union {0})
        gap == {s \in Min(mine) .. last : classic /\ s \notin Owned}
    IN [s \in DOMAIN slots |->
          IF s = last + 1 \/ s \in gap THEN Zero
          ELSE IF s \in mine THEN ThunkValue(ThunkIn(module, s))
          ELSE slots[s]]

\* write_iat_to_output: every slot again, wherever a terminator went
OutputNotWritten(slots, module) == slots

OutputWritten(slots, module) ==
    [s \in DOMAIN slots |->
        IF s \in SlotsOf(module) THEN ThunkValue(ThunkIn(module, s)) ELSE slots[s]]

\* Both take the modules one after the other
AllLookups(slots) ==
    LET written[n \in 0 .. Len(builder)] ==
            IF n = 0 THEN slots ELSE LookupWritten(written[n - 1], builder[n])
    IN written[Len(builder)]

AllOutputs(slots) ==
    LET written[n \in 0 .. Len(builder)] ==
            IF n = 0 THEN slots ELSE OutputWritten(written[n - 1], builder[n])
    IN written[Len(builder)]

----------------------------------------------------------------------------
(* The steps *)

\* Behind the table lies other data of the section
Dumped ==
    [s \in 0 .. 2 * TableSlots |->
        IF s >= TableSlots THEN <<"other">>
        ELSE IF live[s + 1] = 0 THEN Zero ELSE <<"live", live[s + 1]>>]

\* rebuild_import_table_complete: the located table, or what the header names
ReadTableOf(located) ==
    /\ stage = "read"
    /\ known' = Snapshot
    /\ iat' = SubSeq(live, 1, IF located > 0 THEN located ELSE ScannedSize(live))
    /\ stage' = "collect"
    /\ UNCHANGED <<world, classic, live, candidates, next, builder, output>>

\* rebuild_import_table_inner, pass 1
Collect ==
    /\ stage = "collect"
    /\ candidates' = [i \in DOMAIN iat |-> Candidates(iat[i])]
    /\ stage' = "vote"
    /\ UNCHANGED <<world, known, classic, live, iat, next, builder, output>>

SkipZero ==
    /\ stage = "vote"
    /\ next < Len(iat)
    /\ iat[next + 1] = 0
    /\ next' = next + 1
    /\ UNCHANGED <<stage, world, known, classic, live, iat, candidates, builder, output>>

\* A slot without a candidate gets no thunk, and a group without one no module
Vote ==
    /\ stage = "vote"
    /\ next < Len(iat)
    /\ iat[next + 1] # 0
    /\ LET group == GroupAt(next)
           resolved == {j \in group : CandidateOf(j) # <<>>}
       IN /\ next' = Max(group) + 1
          /\ IF resolved = {} THEN UNCHANGED <<iat, builder>>
             ELSE \E winner \in Winners(group) :
                     LET choice == [j \in resolved |-> Chosen(j, winner)]
                     IN /\ builder' = builder \o Buckets(choice)
                        /\ iat' = [i \in DOMAIN iat |->
                                     IF i - 1 \in resolved THEN choice[i - 1].at ELSE iat[i]]
    /\ UNCHANGED <<stage, world, known, classic, live, candidates, output>>

\* validate_and_regroup
Regroup ==
    /\ stage = "vote" /\ next = Len(iat) /\ classic
    /\ stage' = "normalise"
    /\ builder' = Bucketed([s \in Owned |-> Rehomed(Pairs(builder)[s])])
    /\ UNCHANGED <<world, known, classic, live, iat, candidates, next, output>>

Normalise ==
    /\ stage = "normalise"
    /\ stage' = "section"
    /\ builder' = Normalised(Pairs(builder))
    /\ UNCHANGED <<world, known, classic, live, iat, candidates, next, output>>

VoteDone ==
    /\ stage = "vote" /\ next = Len(iat) /\ ~classic
    /\ stage' = "section"
    /\ UNCHANGED <<world, known, classic, live, iat, candidates, next, builder, output>>

\* Nothing was found: the table of the file on disk, whose thunks have no slot.
\* Their hints go to the header of the dump, which the product does not take
\* over, and their terminators behind the first slot.
FallBack ==
    /\ stage = "section" /\ builder = <<>>
    /\ \E found \in BOOLEAN :
          /\ stage' = IF found THEN "fallen back" ELSE "done"
          /\ output' = IF found THEN [Dumped EXCEPT ![1] = Zero] ELSE Dumped
    /\ UNCHANGED <<world, known, classic, live, iat, candidates, next, builder>>

CreateSection ==
    /\ stage = "section" /\ builder # <<>>
    /\ stage' = "write"
    /\ output' = AllLookups(Dumped)
    /\ UNCHANGED <<world, known, classic, live, iat, candidates, next, builder>>

WriteSlots ==
    /\ stage = "write"
    /\ stage' = "done"
    /\ output' = AllOutputs(output)
    /\ UNCHANGED <<world, known, classic, live, iat, candidates, next, builder>>

RebuildNext ==
    \/ \E located \in {0, TableSlots} : ReadTableOf(located)
    \/ Collect \/ SkipZero \/ Vote \/ VoteDone \/ Regroup \/ Normalise
    \/ FallBack \/ CreateSection \/ WriteSlots

----------------------------------------------------------------------------
(* Properties *)

\* The slots the loader walks under a descriptor
Walk(i) == {s \in DOMAIN output : s >= FirstThunk(i) /\ \A k \in FirstThunk(i) .. s : output[k] # Zero}

\* The function an entry leads to, with what it forwards to among entries k
Reached(k, e) ==
    IF TargetIn(k, e) = {} THEN e.at ELSE (CHOOSE t \in TargetIn(k, e) : TRUE).at

\* What the loader finds for a thunk: a name or an ordinal, forwarded or not
LoaderFinds(m, value) ==
    {Reached(known, e) : e \in {f \in world : f.mod = m /\ f.ord = value[2] /\ f.name = value[3]}}

\* The function behind a live value: a string stands for what it forwards to
Meant(v) == IF StringMap(v) = {} THEN v ELSE (CHOOSE t \in StringMap(v) : TRUE).at

\* Modules that agree: every export has a name, one name and one address mean
\* one function in all of them, and a forwarder string is only that: its entry
\* has no code, and nothing forwards to it or jumps to it
Agreeing(k) ==
    /\ \A e, f \in k : ~e.ord /\ (e.name = f.name \/ e.at = f.at => Reached(k, e) = Reached(k, f))
    /\ \A e \in {s \in k : Reached(k, s) # s.at} :
          e.stub = 0 /\ \A f \in k : f.stub # e.at /\ e \notin TargetIn(k, f)

\* Every slot the loader walks under a classic descriptor is a thunk that its
\* module exports, and that leads to the function the slot led to in the
\* debuggee or to the stub in front of it: voting, regrouping and normalising
\* never pair a name with a module that does not have it.  It takes modules
\* that agree (Agreeing), which the code does not look into.
LoaderFindsTheSame ==
    stage = "done" /\ classic =>
        \A i \in DOMAIN builder : \A s \in Walk(i) :
            /\ output[s][1] = "thunk"
            /\ LET found == LoaderFinds(builder[i].mod, output[s])
               IN /\ found # {}
                  /\ \A a \in found : a = Meant(live[s + 1]) \/
                        \E e \in StubFor(Meant(live[s + 1])) : e.at = a

\* No terminator and no gap of another descriptor is left where a thunk is:
\* each has its own value in its own slot of the product.
ThunksInTheirSlots ==
    stage = "done" =>
        \A i \in DOMAIN builder : \A k \in DOMAIN builder[i].thunks :
            output[builder[i].thunks[k].slot] = ThunkValue(builder[i].thunks[k])

\* The dense descriptors of the V3 path are right where "buckets are
\* address-contiguous and back-to-back": one module for each group, no slot
\* left out, one zero between two groups and none before the first.
BackToBack ==
    /\ \A i \in DOMAIN builder :
          LET mine == SlotsOf(builder[i])
          IN /\ mine = Min(mine) .. Max(mine)
             /\ i = 1 => Min(mine) = 0
             /\ i > 1 => Min(mine) = Max(SlotsOf(builder[i - 1])) + 2
    /\ \A s \in 0 .. Max(Owned \union {0}) : s \in Owned \/ live[s + 1] = 0

DenseTablesAreRead ==
    stage = "done" /\ ~classic /\ BackToBack =>
        \A i \in DOMAIN builder : Walk(i) = SlotsOf(builder[i])

\* What no module covers keeps the address it had, and the loader never comes
\* across it: the program still works with it until the next boot.
UndescribedUntouched ==
    stage = "done" /\ classic =>
        \A s \in 0 .. Len(iat) - 1 :
            Resolve(live[s + 1]) # {} /\ s \notin Owned =>
                /\ output[s] = <<"live", live[s + 1]>>
                /\ \A i \in DOMAIN builder : s \notin Walk(i)

\* "None for ordinal-only imports" (import_table.rs:18): what the vote found
\* to be imported by ordinal is still an ordinal when its slot is written.  It
\* does not hold where a module has such an export (MCOrdinalWorlds): the name
\* "#n" is written for it.
OrdinalsSurvive ==
    stage = "done" =>
        \A i \in DOMAIN builder : \A k \in DOMAIN builder[i].thunks : builder[i].thunks[k].name > 0
=============================================================================
