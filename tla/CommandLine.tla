----------------------------- MODULE CommandLine -----------------------------
(***************************************************************************)
(* mida-cli from its arguments to the code that does the work: the parser, *)
(* the guided mode that builds a command from answers, the packer gate of  *)
(* /unpack, and /analyze.  A front-end (GUI, MCP server) starts the same   *)
(* program with arguments made from its options.                           *)
(*                                                                         *)
(* A token of a command line, a path and an answer are strings; of the     *)
(* file under work only the kinds of its sections, its packer's marks and  *)
(* its resources count.                                                    *)
(***************************************************************************)
EXTENDS Integers, SequencesExt

CONSTANTS
    Inputs,         \* paths of files that exist
    Spaced,         \* those of them that have a space in them
    TypedTokens,    \* what a user types after the command and the first operand
    TypedLimit,     \* bound: how many of these
    Targets         \* the files under work

VARIABLES
    request,    \* what a front-end asked for, until the command is known
    argv,       \* the arguments, without the name of the program
    cmd,        \* the command
    stage,      \* where the program is, or the question of the guided mode
    home,       \* who runs commands: the program itself or the guided mode
    target,     \* the file under work
    result      \* what became of the command

cliVars == <<request, argv, cmd, stage, home, target, result>>

Nothing == [do |-> "nothing"]

Error == [do |-> "error"]

Awaited == [route |-> "none"]

----------------------------------------------------------------------------
(* The file under work *)

SectionKinds == {".text", ".text lost", ".vmp0", ".fptable", ".rdata0", ".rdata2",
                 "UPX0", "UPX1", "winlicen", "unnamed"}

Executable == SectionKinds \ {".fptable"}
NotPaged == {".vmp0", ".rdata0", ".rdata2"}
InFile == {".text", ".vmp0", ".fptable", ".rdata2", "UPX1", "winlicen", "unnamed"}

\* VmProtectDetector::detect
IsVmp(file) ==
    \/ ".vmp0" \in file.sections
    \/ /\ file.sections \cap NotPaged \cap Executable # {}
       /\ ".fptable" \in file.sections \/ file.sections \cap NotPaged \cap InFile # {}

\* UpxDetector::detect: the header and a section
IsUpx(file) == file.packHeader /\ file.sections \cap {"UPX0", "UPX1"} # {}

\* is_themida_section: by name, unnamed, or executable with nothing in the file
\* and much in memory, which UPX0 and VMProtect's sections can be as well
ThemidaSections(file) == file.sections \cap ({"winlicen", "unnamed"} \cup (Executable \ InFile))

----------------------------------------------------------------------------
(* The parser *)

Packers == [x \in {"auto", "themida", "vmprotect", "vmp", "upx"} |-> IF x = "vmp" THEN "vmprotect" ELSE x]

Unpack(input) ==
    [do |-> "unpack", input |-> input, output |-> "default", data |-> FALSE, shrink |-> TRUE,
     verbose |-> FALSE, packer |-> "auto", noScylla |-> FALSE]

IsOption(tok) == tok \in {"-o", "--packer", "--data-sections", "--shrink", "--no-shrink",
                          "--no-scylla", "-v", "--extract", "--wait", "--odd"}

\* One round of the loop of parse_unpack: acc.due is the option whose value comes
UnpackToken(acc, tok) ==
    LET set == [due |-> "none", cmd |-> acc.cmd]
    IN CASE acc.cmd = Error -> acc
         [] acc.due = "-o" -> [set EXCEPT !.cmd.output = tok]
         [] acc.due = "--packer" ->
              IF tok \in DOMAIN Packers THEN [set EXCEPT !.cmd.packer = Packers[tok]]
              ELSE [set EXCEPT !.cmd = Error]
         [] acc.due = "none" /\ tok \in {"-o", "--packer"} -> [set EXCEPT !.due = tok]
         [] acc.due = "none" /\ tok = "--data-sections" -> [set EXCEPT !.cmd.data = TRUE]
         [] acc.due = "none" /\ tok = "--shrink" -> [set EXCEPT !.cmd.shrink = TRUE]
         [] acc.due = "none" /\ tok = "--no-shrink" -> [set EXCEPT !.cmd.shrink = FALSE]
         [] acc.due = "none" /\ tok = "--no-scylla" -> [set EXCEPT !.cmd.noScylla = TRUE]
         [] acc.due = "none" /\ tok = "-v" -> [set EXCEPT !.cmd.verbose = TRUE]
         [] acc.due = "none" /\ ~IsOption(tok) /\ acc.cmd.output = "default" -> [set EXCEPT !.cmd.output = tok]
         [] OTHER -> [set EXCEPT !.cmd = Error]

AnalyzeToken(acc, tok) ==
    LET set == [due |-> "none", cmd |-> acc.cmd]
    IN CASE acc.cmd = Error -> acc
         [] acc.due = "--extract" -> [set EXCEPT !.cmd.extract = tok]
         [] acc.due = "none" /\ tok = "--extract" -> [set EXCEPT !.due = tok]
         [] acc.due = "none" /\ tok = "-v" -> [set EXCEPT !.cmd.verbose = TRUE]
         [] OTHER -> [set EXCEPT !.cmd = Error]

\* An option at the end that lacks its value is an error
Complete(acc) == IF acc.due = "none" THEN acc.cmd ELSE Error

\* One token after the other, whichever command they belong to
Token(word, acc, tok) ==
    IF word = "/unpack" THEN UnpackToken(acc, tok) ELSE AnalyzeToken(acc, tok)

TokenRun(word, command, toks) ==
    LET acc[n \in 0 .. Len(toks)] ==
            IF n = 0 THEN [due |-> "none", cmd |-> command] ELSE Token(word, acc[n - 1], toks[n])
    IN acc

UnpackOptions(command, toks) == Complete(TokenRun("/unpack", command, toks)[Len(toks)])

AnalyzeOptions(command, toks) == Complete(TokenRun("/analyze", command, toks)[Len(toks)])

IsPid(tok) == tok = "4711"

ParseWord(args) ==
    LET rest == SubSeq(args, 3, Len(args))
        more == SubSeq(args, 4, Len(args))
    IN CASE args[1] = "/unpack" /\ Len(args) >= 2 /\ args[2] \in Inputs -> UnpackOptions(Unpack(args[2]), rest)
         [] args[1] = "/analyze" /\ Len(args) >= 2 /\ args[2] \in Inputs ->
              AnalyzeOptions([do |-> "analyze", input |-> args[2], extract |-> "none", verbose |-> FALSE], rest)
         [] args[1] = "/dump-process" /\ Len(args) >= 3 /\ IsPid(args[2]) -> [do |-> "dump-process", output |-> args[3]]
         [] args[1] = "/dump-image" /\ Len(args) >= 3 /\ IsPid(args[2]) ->
              [do |-> "dump-image", output |-> args[3], wait |-> \E i \in DOMAIN more : more[i] = "--wait"]
         [] args[1] = "/verify" /\ Len(args) >= 3 /\ args[2] \in Inputs /\ args[3] \in Inputs ->
              [do |-> "verify", unpacked |-> args[2], reference |-> args[3]]
         [] args[1] = "interactive" -> [do |-> "interactive", forced |-> TRUE]
         [] args[1] \in {"/version", "/help"} -> [do |-> "help"]
         [] OTHER -> Error

ParseFrom(args) == IF args = <<>> THEN [do |-> "interactive", forced |-> FALSE] ELSE ParseWord(args)

----------------------------------------------------------------------------
(* What a front-end asks for, and what a user types *)

SpawnOptions == [verbose : BOOLEAN, packer : {"auto", "themida", "vmprotect", "upx"},
                 data : BOOLEAN, shrink : BOOLEAN]

If(condition, toks) == IF condition THEN toks ELSE <<>>

\* unpack_args: what differs from the defaults of the command
UnpackArgsTerse(input, output, opts) ==
    <<"/unpack", input, "-o", output>>
    \o If(opts.packer # "auto", <<"--packer", opts.packer>>)
    \o If(opts.data, <<"--data-sections">>)
    \o If(opts.verbose, <<"-v">>)

UnpackArgs(input, output, opts) ==
    <<"/unpack", input, "-o", output>>
    \o If(opts.packer # "auto", <<"--packer", opts.packer>>)
    \o If(opts.data, <<"--data-sections">>)
    \o If(~opts.shrink, <<"--no-shrink">>)
    \o If(opts.verbose, <<"-v">>)

TypedLines ==
    {<<>>} \cup {<<word, operand>> \o more :
        word \in {"/unpack", "/analyze", "/dump-process", "/dump-image", "/verify", "interactive", "/help", "unpak"},
        operand \in Inputs \cup {"4711", "missing.exe"}, more \in BoundedSeq(TypedTokens, TypedLimit)}

CliInit ==
    /\ \/ \E opts \in SpawnOptions, input \in Inputs :
             request = opts /\ argv = UnpackArgs(input, "out.exe", opts)
       \/ request = Nothing /\ argv \in TypedLines
    /\ cmd = Nothing /\ stage = "arguments" /\ home = "program"
    /\ target = Nothing /\ result = Awaited

----------------------------------------------------------------------------
(* The guided mode *)

\* is_themida_section alone would take UPX0 for Themida's
VerdictThemidaFirst(file) ==
    CASE ThemidaSections(file) # {} -> "themida"
      [] ThemidaSections(file) = {} /\ IsVmp(file) -> "vmprotect"
      [] ThemidaSections(file) = {} /\ ~IsVmp(file) /\ IsUpx(file) -> "upx"
      [] OTHER -> "unknown"

Verdict(file) ==
    CASE IsVmp(file) -> "vmprotect"
      [] ~IsVmp(file) /\ IsUpx(file) -> "upx"
      [] ~IsVmp(file) /\ ~IsUpx(file) /\ ThemidaSections(file) # {} -> "themida"
      [] OTHER -> "unknown"

DefaultOutput(input) == IF input \in Spaced THEN "my defaultU.exe" ELSE "default"

\* plan_for, and the command built from the answer to [2/3]
Suggested(file, input, answer) ==
    LET path == IF answer = "" THEN DefaultOutput(input) ELSE answer
    IN IF Verdict(file) \in {"upx", "themida"}
       THEN [Unpack(input) EXCEPT !.output = path, !.packer = IF Verdict(file) = "upx" THEN "upx" ELSE "auto"]
       ELSE [do |-> "analyze", input |-> input, extract |-> path, verbose |-> FALSE]

\* How a shell splits a path into arguments
Words(path) == IF path \in Spaced THEN <<"my", path>> ELSE <<path>>

\* describe
Described(c) ==
    CASE c.do = "unpack" -> <<"/unpack">> \o Words(c.input) \o If(c.packer # "auto", <<"--packer", c.packer>>)
                            \o <<"-o">> \o Words(c.output)
      [] c.do = "analyze" -> <<"/analyze">> \o Words(c.input) \o <<"--extract">> \o Words(c.extract)
      [] c.do = "verify" -> <<"/verify">> \o Words(c.unpacked) \o Words(c.reference)

Leave(ok) == /\ stage' = "exit" /\ result' = [route |-> "exit", ok |-> ok]
             /\ cmd' = Nothing /\ target' = Nothing /\ home' = "program" /\ UNCHANGED <<request, argv>>

Ask(question) == stage' = question /\ UNCHANGED <<request, argv, home, result>>

\* The input ends at any question: the program leaves, with success
EndOfInput == stage \in {"mode", "file", "path", "confirm", "again", "unpacked", "reference"} /\ Leave(TRUE)

AnswerMode ==
    /\ stage = "mode"
    /\ \/ Leave(TRUE)                                               \* q
       \/ Ask("unpacked") /\ UNCHANGED <<cmd, target>>              \* 2
       \/ Ask("file") /\ UNCHANGED <<cmd, target>>

\* ask_path asks again until there is such a file; what it is is found out before
\* the next question
AnswerFile ==
    /\ stage = "file"
    /\ \/ Leave(TRUE)                                               \* q
       \/ \E input \in Inputs, file \in Targets :
             IF file.readable
             THEN Ask("path") /\ target' = file /\ cmd' = [do |-> "chosen", input |-> input]
             ELSE Ask("again") /\ UNCHANGED <<cmd, target>>

\* Here "q" is a path like any other
AnswerPath ==
    /\ stage = "path"
    /\ \E answer \in {"", "out.exe", "q"} : cmd' = Suggested(target, cmd.input, answer)
    /\ Ask("confirm") /\ UNCHANGED target

AnswerUnpacked ==
    /\ stage = "unpacked"
    /\ \/ Leave(TRUE)
       \/ \E path \in Inputs : Ask("reference") /\ cmd' = [do |-> "chosen", input |-> path] /\ UNCHANGED target

AnswerReference ==
    /\ stage = "reference"
    /\ \/ Leave(TRUE)
       \/ \E path \in Inputs :
             Ask("confirm") /\ cmd' = [do |-> "verify", unpacked |-> cmd.input, reference |-> path] /\ UNCHANGED target

\* Anything but yes and no is asked again
AnswerConfirm ==
    /\ stage = "confirm"
    /\ \/ Ask("again") /\ cmd' = Nothing /\ target' = Nothing
       \/ Ask("dispatch") /\ UNCHANGED <<cmd, target>>

AnswerAgain ==
    /\ stage = "again"
    /\ \/ Leave(TRUE)
       \/ Ask("mode") /\ UNCHANGED <<cmd, target>>

----------------------------------------------------------------------------
(* Running a command *)

Parse ==
    /\ stage = "arguments"
    /\ cmd' = ParseFrom(argv)
    /\ stage' = "dispatch" /\ argv' = <<>>
    /\ UNCHANGED <<request, home, target, result>>

Run(command, file, verdict) ==
    /\ stage' = "running" /\ cmd' = command /\ target' = file /\ result' = verdict
    /\ request' = Nothing /\ UNCHANGED <<argv, home>>

\* The file, which the guided mode has looked at already
Candidates == IF home = "wizard" THEN {target} ELSE Targets

\* The profile for ScyllaHide goes by the kind that was detected, or by Themida
Live(kind) == [route |-> "live", profile |-> CASE kind = "themida" -> "Magicmida"
                                               [] kind = "vmprotect" -> "VMProtect x86/x64"
                                               [] kind = "upx" -> "Disabled"]

Detected(file) == IF IsVmp(file) THEN "vmprotect" ELSE IF IsUpx(file) THEN "upx" ELSE "none"

\* The gate of unpack
Gate(packer, file) ==
    CASE packer = "upx" \/ (packer = "auto" /\ Detected(file) = "upx") -> [route |-> "static"]
      [] packer = "auto" /\ Detected(file) = "vmprotect" -> [route |-> "refused"]
      [] packer = "vmprotect" /\ Detected(file) # "none" -> Live(Detected(file))
      [] packer = "vmprotect" /\ Detected(file) = "none" -> [route |-> "refused"]
      [] OTHER -> Live("themida")

\* init_pe_details refuses a file that is entered in its first section
DispatchUnpack ==
    /\ stage = "dispatch" /\ cmd.do = "unpack"
    /\ \E file \in Candidates :
          LET gate == Gate(cmd.packer, file)
          IN Run([do |-> "unpack", packer |-> cmd.packer], file,
                 CASE ~file.readable -> [route |-> "unreadable"]
                   [] file.readable /\ gate.route = "live" /\ file.entryInFirst -> [route |-> "not themida"]
                   [] OTHER -> gate)

\* extract_payloads: what lies in the file as a whole is written, and decoded as
\* well when a transform is known and yields an image
Extracted(file) == {r.id : r \in {q \in file.resources : q.whole}}
DecodedFiles(file) == {r.id : r \in {q \in file.resources : q.whole /\ q.decodes}}

Report(kind, ok, files, decoded) ==
    [route |-> "report", kind |-> kind, ok |-> ok, files |-> files, decoded |-> decoded]

Analysis(file, extract) ==
    CASE IsVmp(file) /\ extract -> Report("vmprotect", Extracted(file) # {}, Extracted(file), DecodedFiles(file))
      [] IsVmp(file) /\ ~extract -> Report("vmprotect", TRUE, {}, {})
      [] ~IsVmp(file) /\ IsUpx(file) -> Report("upx", ~extract /\ "UPX1" \in file.sections, {}, {})
      [] ~IsVmp(file) /\ ~IsUpx(file) /\ ThemidaSections(file) # {} -> Report("themida", ~extract, {}, {})
      [] OTHER -> Report("unknown", FALSE, {}, {})

DispatchAnalyze ==
    /\ stage = "dispatch" /\ cmd.do = "analyze"
    /\ \E file \in Candidates :
          Run([do |-> "analyze"], file,
              IF file.readable THEN Analysis(file, cmd.extract # "none") ELSE [route |-> "unreadable"])

\* /dump-image, /dump-process and /verify do not look at a packer
DispatchOther ==
    /\ stage = "dispatch" /\ cmd.do \in {"dump-image", "dump-process", "verify", "help"}
    /\ Run(cmd, Nothing, [route |-> cmd.do])

DispatchError == stage = "dispatch" /\ cmd.do = "error" /\ Leave(FALSE)

\* Without a terminal and without being asked for, the guided mode prints the
\* help and leaves
DispatchInteractive ==
    /\ stage = "dispatch" /\ cmd.do = "interactive"
    /\ \/ ~cmd.forced /\ Leave(TRUE)
       \/ stage' = "mode" /\ home' = "wizard" /\ cmd' = Nothing /\ request' = Nothing
            /\ UNCHANGED <<argv, target, result>>

\* The exit code of the program is that of its command; the guided mode goes on
Finish(ok) ==
    IF home = "wizard"
    THEN /\ stage' = "again" /\ result' = Awaited /\ cmd' = Nothing /\ target' = Nothing
         /\ UNCHANGED <<request, argv, home>>
    ELSE Leave(ok)

RunEnds ==
    /\ stage = "running" /\ result.route \notin {"static", "dump-image"}
    /\ \/ result.route = "report" /\ Finish(result.ok)
       \/ result.route \in {"live", "dump-process", "verify"} /\ \E ok \in BOOLEAN : Finish(ok)
       \/ result.route \in {"refused", "unreadable", "not themida"} /\ Finish(FALSE)
       \/ result.route = "help" /\ Finish(TRUE)

CliNext ==
    \/ Parse
    \/ DispatchUnpack
    \/ DispatchAnalyze
    \/ DispatchOther
    \/ DispatchError
    \/ DispatchInteractive
    \/ RunEnds
    \/ EndOfInput
    \/ AnswerMode
    \/ AnswerFile
    \/ AnswerPath
    \/ AnswerUnpacked
    \/ AnswerReference
    \/ AnswerConfirm
    \/ AnswerAgain

----------------------------------------------------------------------------
(* Properties *)

\* What a front-end asks for is what the program does: the arguments that say
\* only what differs from the defaults are read back as the same options, also
\* the one whose default is to be switched off.  (job.rs unpack_args against
\* args.rs parse_unpack)
RequestArrives ==
    stage = "dispatch" /\ request # Nothing =>
        /\ cmd.do = "unpack" /\ cmd.output = "out.exe" /\ ~cmd.noScylla
        /\ [verbose |-> cmd.verbose, packer |-> cmd.packer, data |-> cmd.data, shrink |-> cmd.shrink] = request

\* The line the guided mode shows before it asks for a confirmation does, typed
\* into a shell, what the guided mode does ("copy-pasting one out of the wizard
\* keeps working verbatim", interactive.rs).
ShownLineIsTheCommand == stage = "confirm" => ParseFrom(Described(cmd)) = cmd

\* Both, for files whose names have no space: one with a space is shown unquoted
\* and read back as two (interactive.rs:345-384).
CommandsAreReadBack ==
    RequestArrives /\ (Spaced = {} => ShownLineIsTheCommand)

\* The guided mode suggests no /unpack that the packer gate then turns away, and
\* the gate takes the file for the packer it was shown to be: two lists of checks
\* in an order of their own.  (verdict_of_pe, plan_for against unpack)
SuggestionPassesTheGate ==
    stage = "running" /\ home = "wizard" /\ cmd.do = "unpack" =>
        /\ result.route \notin {"refused", "unreadable"}
        /\ result.route = "static" <=> IsUpx(target)

=============================================================================
