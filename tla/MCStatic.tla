------------------------------ MODULE MCStatic ------------------------------
(***************************************************************************)
(* Small instances for Static: code of seven bytes that look like calls,    *)
(* escapes and marks, two DLLs, three relocations, two levels of names.     *)
(***************************************************************************)
EXTENDS Static

\* Sections of VMProtect, of UPX inside VMProtect, and of Themida
MCSectionSets ==
    SUBSET {".text", ".rdata0", ".rdata2", ".fptable"} \cup SUBSET {".text", "UPX0", "UPX1", ".vmp0"}
    \cup SUBSET {".text lost", "winlicen", "unnamed", ".rdata0"}

MCFile(sections, packHeader, entry, resources) ==
    [sections |-> sections, packHeader |-> packHeader, readable |-> TRUE,
     entryInFirst |-> entry, resources |-> resources]

MCResources ==
    {[id |-> 131, whole |-> TRUE, decodes |-> TRUE], [id |-> 132, whole |-> TRUE, decodes |-> FALSE],
     [id |-> 132, whole |-> FALSE, decodes |-> FALSE]}

MCTargets ==
    {MCFile(s, p, e, {}) : s \in MCSectionSets, p \in BOOLEAN, e \in BOOLEAN}
    \cup {MCFile({".vmp0"}, FALSE, FALSE, r) : r \in SUBSET MCResources}
    \cup {[MCFile({}, FALSE, FALSE, {}) EXCEPT !.readable = FALSE]}

MCTypedTokens ==
    {"-o", "--packer", "vmp", "-v", "--data-sections", "--shrink", "--no-shrink", "--no-scylla",
     "--wait", "--extract", "--odd", "out.exe", "ref.exe"}

MCCodes == [1 .. 7 -> {0, 3, 8, 15}]

MCItems == {<<>>, <<2>>, <<1, 1>>, <<2, 1>>, <<1, 0, 2>>, <<0, 1, -1>>}

MCDll(len, items) == [len |-> len, items |-> items]

MCImportLists ==
    {<<>>} \cup {<<MCDll(n, i)>> : n \in {1, 2}, i \in MCItems}
    \cup {<<MCDll(n, i), MCDll(2, j)>> : n \in {1, 2}, i \in MCItems, j \in MCItems}

MCRelocStreams == BoundedSeq({3, 8, 12, 20}, 3)

MCNode(key, name, sub) == [key |-> key, name |-> name, sub |-> sub]

MCLanguages ==
    {<<>>, <<MCNode(7, 0, "moved")>>, <<MCNode(7, 0, "kept")>>,
     <<MCNode(7, 0, "kept"), MCNode(9, 0, "moved")>>}

MCOneName == <<MCNode(1, 2, <<MCNode(7, 0, "moved")>>)>>

MCNames ==
    {<<MCNode(1, n, l)>> : n \in {0, 1}, l \in MCLanguages}
    \cup {MCOneName \o <<MCNode(3, n, l)>> : n \in {0, 1}, l \in MCLanguages}

MCTrees ==
    {<<>>}
    \cup {<<MCNode(k, n, s)>> : k \in {3, 14}, n \in {0, 1}, s \in MCNames}
    \cup {<<MCNode(3, 1, MCOneName), MCNode(14, 0, t)>> : t \in MCNames}

MCTables ==
    {<<[size |-> 2, raw |-> 1], [size |-> 0, raw |-> 0], [size |-> 1, raw |-> 3]>>, <<[size |-> 1, raw |-> 0]>>}

MCPayloads ==
    {[pages |-> {1, 2}, id |-> 131, transform |-> TRUE], [pages |-> {3}, id |-> 132, transform |-> FALSE]}

=============================================================================
