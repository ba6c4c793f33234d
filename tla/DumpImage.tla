------------------------------ MODULE DumpImage ------------------------------
(***************************************************************************)
(* dump_image and dump_image_stable: flatten the image of a running process *)
(* without debugging it.  The process decrypts its payloads in place and    *)
(* may end at any time, also between two pages of one sample; the sampler   *)
(* reads page by page and accepts an image when two samples in a row agree  *)
(* and every payload has left the form it has in the file.                  *)
(*                                                                         *)
(* The content of a page is a number: 0 for zeros, 1 for what the file has, *)
(* more for what the packer makes of it, FinalForm at last.                 *)
(***************************************************************************)
EXTENDS Integers, Sequences, FiniteSets

CONSTANTS
    PageCount,      \* pages of the image
    Payloads,       \* the large resources: records [pages, id, transform]
    FinalForm,      \* the last form of a page of a payload
    MaxSamples      \* bound: after so many samples 30 s have passed

ASSUME SamplerAssumption == PageCount \in Nat \ {0}

VARIABLES
    mem,        \* the pages of the process
    committed,  \* the pages that can be read
    alive,      \* the process has not exited
    dump,       \* the sampler
    taken       \* history: the last sample that was read to its end

dumpVars == <<mem, committed, alive, dump, taken>>

Pages == 1 .. PageCount
PayloadPages == UNION {p.pages : p \in Payloads}

Before == mem.first

Content(p) == IF alive /\ p \in committed THEN mem.now[p] ELSE 0

DumpInit ==
    /\ mem = [first |-> <<>>, now |-> <<>>]
    /\ committed = Pages /\ alive = TRUE
    /\ dump = [pc |-> "off"] /\ taken = <<>>

----------------------------------------------------------------------------
(* The process *)

Decrypt ==
    /\ alive /\ dump.pc \in {"idle", "read"}
    /\ \E p \in PayloadPages :
          /\ mem.now[p] < FinalForm
          /\ mem' = [mem EXCEPT !.now[p] = IF @ = 0 THEN 2 ELSE @ + 1]
    /\ UNCHANGED <<committed, alive, dump, taken>>

Commit ==
    /\ alive /\ dump.pc \in {"idle", "read"} /\ committed # Pages
    /\ committed' = Pages
    /\ UNCHANGED <<mem, alive, dump, taken>>

Exit ==
    /\ alive /\ dump.pc \in {"idle", "read"}
    /\ alive' = FALSE
    /\ UNCHANGED <<mem, committed, dump, taken>>

----------------------------------------------------------------------------
(* The sampler *)

\* A payload may be absent from the file, and then it begins as zeros; "known":
\* the file can be read and parsed, so that the forms before decryption
\* are known
BeginDump(wait) ==
    /\ dump.pc = "off"
    /\ \E known \in BOOLEAN :
          dump' = [pc |-> "idle", wait |-> wait, known |-> known, n |-> 0, k |-> 0,
                   cur |-> <<>>, prev |-> <<>>, same |-> 0,
                   between |-> <<>>, whole |-> FALSE, outcome |-> "none"]
    /\ \E inFile \in BOOLEAN :
          LET first == [p \in Pages |-> IF p \in PayloadPages /\ ~inFile THEN 0 ELSE 1]
          IN mem' = [first |-> first, now |-> first]
    /\ committed' \in {Pages, Pages \ {PageCount}}
    /\ taken' = <<>>
    /\ UNCHANGED alive

\* read_image asks for the path and the base of the module first, which only a
\* process that lives is sure to answer
BeginSample ==
    /\ dump.pc = "idle" /\ alive
    /\ dump' = [dump EXCEPT !.pc = "read", !.k = 1, !.cur = <<>>, !.n = @ + 1,
                            !.between = [p \in Pages |-> Content(p)]]
    /\ UNCHANGED <<mem, committed, alive, taken>>

\* A page that cannot be read is filled with zeros (read_region)
ReadPage ==
    /\ dump.pc = "read" /\ dump.k <= PageCount
    /\ dump' = [dump EXCEPT !.cur = Append(@, Content(dump.k)), !.k = @ + 1]
    /\ taken' = IF dump.k = PageCount THEN dump'.cur ELSE taken
    /\ UNCHANGED <<mem, committed, alive>>

Write(outcome, image) ==
    [dump EXCEPT !.pc = "carve", !.outcome = outcome, !.prev = image, !.cur = <<>>,
                 !.k = 0, !.n = 0, !.same = 0]

\* The first sample that cannot be had ends the sampling: with an error when
\* there is none before it
SampleFails ==
    /\ dump.pc = "idle"
    /\ dump' = IF dump.prev = <<>> THEN [dump EXCEPT !.pc = "over", !.outcome = "error"]
               ELSE Write("gone", dump.prev)
    /\ UNCHANGED <<mem, committed, alive, taken>>

\* payloads_moved
Moved(image) ==
    dump.known => \A payload \in Payloads : \E p \in payload.pages : image[p] # Before[p]

\* "same" counts the samples that were equal to the one before, in a row
SameSinceEver(image) == IF dump.prev = image THEN dump.same + 1 ELSE dump.same

Same(image) ==
    CASE dump.prev = <<>> -> dump.same
      [] dump.prev = image -> dump.same + 1
      [] OTHER -> 0

SampleDoneUnkept ==
    /\ dump.pc = "read" /\ dump.k > PageCount
    /\ \/ dump' = [Write("once", dump.cur) EXCEPT !.whole = alive] /\ ~dump.wait
       \/ dump.wait /\ Moved(dump.cur) /\ Same(dump.cur) >= 1
            /\ dump' = [Write("settled", dump.cur) EXCEPT !.whole = alive]
       \/ dump.wait /\ ~(Moved(dump.cur) /\ Same(dump.cur) >= 1) /\ dump.n < MaxSamples
            /\ dump' = [dump EXCEPT !.pc = "idle", !.cur = <<>>, !.k = 0, !.same = Same(dump.cur),
                                    !.prev = IF Moved(dump.cur) THEN dump.cur ELSE @]
    /\ UNCHANGED <<mem, committed, alive, taken>>

SampleDone ==
    /\ dump.pc = "read" /\ dump.k > PageCount
    /\ \/ dump' = [Write("once", dump.cur) EXCEPT !.whole = alive] /\ ~dump.wait
       \/ dump.wait /\ Moved(dump.cur) /\ Same(dump.cur) >= 1
            /\ dump' = [Write("settled", dump.cur) EXCEPT !.whole = alive]
       \/ dump.wait /\ ~(Moved(dump.cur) /\ Same(dump.cur) >= 1)
            /\ \/ dump' = [Write("timeout", dump.cur) EXCEPT !.whole = alive]
               \/ dump.n < MaxSamples
                    /\ dump' = [dump EXCEPT !.pc = "idle", !.prev = dump.cur, !.cur = <<>>, !.k = 0,
                                            !.same = Same(dump.cur), !.whole = alive]
    /\ UNCHANGED <<mem, committed, alive, taken>>

----------------------------------------------------------------------------
(* The payloads.  Their files are named after their ids alone, not their      *)
(* types or languages; what a known transform yields is accepted when it has  *)
(* the header of an image, which takes the first page.                        *)

FileOf(payload) == payload.id
FirstPage(payload) == CHOOSE p \in payload.pages : \A q \in payload.pages : p <= q

Carve ==
    /\ dump.pc = "carve"
    /\ dump' = [dump EXCEPT !.pc = "over", !.between = <<>>,
                 !.cur = [files |-> {FileOf(p) : p \in Payloads},
                          decoded |-> {FileOf(p) : p \in {q \in Payloads :
                                q.transform /\ dump.prev[FirstPage(q)] = FinalForm}}]]
    /\ taken' = <<>>
    /\ UNCHANGED <<mem, committed, alive>>

DumpNext ==
    \/ Decrypt
    \/ Commit
    \/ Exit
    \/ BeginSample
    \/ ReadPage
    \/ SampleFails
    \/ SampleDone
    \/ Carve

----------------------------------------------------------------------------
(* Properties *)

\* An image that has settled is one the process really had at one moment: pages
\* of it do not stem from before and from after a step of the decryption.  This
\* is what two equal samples in a row are for.  It takes a process that lived to
\* the end of the second: the zeros read after its end can agree with zeros read
\* before the decryption.  (dump_stable_inner)
SettledIsASnapshot ==
    dump.pc = "carve" /\ dump.outcome = "settled" /\ dump.whole =>
        dump.prev = [p \in Pages |-> dump.between[p]]

\* No sample is lost, whatever comes between it and the failure of a later one
\* ("a sample already in hand beats no product at all"): the command fails only
\* when none was ever read to its end, and what is written is the last that was.
\* (dump_stable_inner)
SampleInHandIsWritten ==
    /\ dump.pc = "over" /\ dump.outcome = "error" => taken = <<>>
    /\ dump.pc = "carve" => taken # <<>> /\ dump.prev = taken

\* "The process went away between samples; writing the last complete image
\* instead": what is written then was read from a process that lived to the end
\* of the sample.  It does not hold: only finding the module can fail a sample,
\* the pages a process takes with it when it goes are read as zeros.
LastCompleteImage == dump.pc = "carve" /\ dump.outcome = "gone" => dump.whole

=============================================================================
