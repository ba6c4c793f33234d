------------------------ MODULE HwBreakpoints_proofs ------------------------
(***************************************************************************)
(* What HwBreakpoints promises, for any set of threads.  The breakpoints   *)
(* of the staging are hit in the order of the stages, because no thread    *)
(* keeps one the table has dropped (RegsInv); the kernel's queue keeps     *)
(* that order (QueueInv, OrderInv), so that when a hit is handled the      *)
(* stage it belongs to is not yet behind (StageInv).                       *)
(***************************************************************************)
EXTENDS HwBreakpoints, TLAPS

(* The queue of the kernel: who has raised what is in it once, or was      *)
(* taken from it and is not answered yet.                                  *)
QueueInv ==
    /\ \A i, j \in 1 .. Len(order) : order[i] = order[j] => i = j
    /\ \A i \in 1 .. Len(order) : raised[order[i]] # "none" /\ order[i] # pending
    /\ \A t \in Threads :
          raised[t] # "none" => t = pending \/ \E i \in 1 .. Len(order) : order[i] = t
    /\ pending # NoThread => raised[pending] # "none"

RegsInv ==
    /\ Main \in reach /\ Main \in known /\ life[Main] = "live"
    /\ dr[Main] = table
    /\ \A t \in Threads : life[t] = "live" =>
          /\ \A s \in Slots : dr[t][s] \in {"none", table[s]}
          /\ t \notin reach => dr[t] = Empty
          /\ t \notin known => dr[t] = Empty \/ (what[t] = "exit_thread" /\ pending = t)
    /\ \A t \in Threads : raised[t] # "none" => life[t] = "live"
    /\ what[Main] \notin {"create_thread", "exit_thread"}
    /\ \A t \in Threads : raised[t] = "notification" <=>
          raised[t] # "none" /\ what[t] \in {"load_dll", "create_thread", "exit_thread"}

Loader(t) == raised[t] = "breakpoint"
Close(t) == raised[t] = "single_step" /\ what[t] = "close"
Wrote(t) == raised[t] = "single_step" /\ what[t] = "elsewhere"
Alloc(t) == raised[t] = "single_step" /\ what[t] = "alloc"

(* t's event is delivered before u's.                                      *)
Before(t, u) ==
    \/ pending = t /\ u # t /\ raised[u] # "none"
    \/ \E i, j \in 1 .. Len(order) : i < j /\ order[i] = t /\ order[j] = u

InOrder(t, u) ==
    /\ Close(t) => ~Loader(u)
    /\ Wrote(t) => ~Loader(u) /\ ~Close(u)
    /\ Alloc(t) => ~Loader(u) /\ ~Close(u) /\ ~Wrote(u)

OrderInv == Undisturbed => \A t, u \in Threads : Before(t, u) => InOrder(t, u)

(* The stage the breakpoints are at, and what it says of the main thread.  *)
Staging ==
    /\ ~bpSet => table[0] = "none" /\ ~guard /\ (gone \/ raised[Main] # "none")
    /\ ~guard /\ table[0] = "none" => ~bpSet
    /\ guard => table[0] = "none"
    /\ classic => table[0] \in {"none", "close"}
    /\ table[0] # "cor" /\ table[3] = "none"
    /\ ~loaded => passed = 0 /\ ~guard /\ table[0] \in {"none", "close"}
    /\ loaded => bpSet
    /\ guard /\ ~classic => written
    /\ table[0] = "alloc" => written
    /\ passed >= 1 => guard \/ table[0] \in {"write", "alloc"}
    /\ passed >= 2 => guard \/ table[0] = "alloc" \/ Wrote(Main) \/ gone
    /\ passed = 3 => guard

(* The stages at which a trap of t may still be on its way.                *)
TrapAt(t) ==
    /\ ~loaded => ~Loader(t) /\ raised[t] # "single_step"
    /\ Loader(t) => ~guard /\ table[0] \in {"none", "close"} /\ what[t] = "elsewhere"
    /\ Close(t) => IF classic THEN guard \/ table[0] = "close"
                              ELSE ~guard /\ table[0] \in {"close", "write"}
    /\ Wrote(t) => ~classic /\ written /\ ~guard /\ table[0] \in {"write", "alloc"}
    /\ Alloc(t) => ~classic /\ written /\ (guard \/ table[0] = "alloc")
    /\ raised[t] = "single_step" => Close(t) \/ Wrote(t) \/ Alloc(t)

StageInv == Undisturbed => Staging /\ \A t \in Threads : TrapAt(t)

HwInv == QueueInv /\ RegsInv /\ OrderInv /\ StageInv

-----------------------------------------------------------------------------
(* Whichever way the table changes, the registered threads that can be     *)
(* written have nothing armed but what it holds, the main thread has all   *)
(* of it, and the others keep what they had.                               *)
LEMMA TableMoves ==
    ASSUME TypeOK, Main \in known, Main \in reach, dr[Main] = table,
           \A t \in Threads : life[t] = "live" =>
               \A s \in Slots : dr[t][s] \in {"none", table[s]},
           NEW slot \in Slots, NEW bp \in Bps,
           \/ ClearBp(slot)
           \/ ReplaceBp(slot, bp)
           \/ SetBp(slot, bp)
    PROVE  /\ table' \in [Slots -> Bps]
           /\ dr' \in [Threads -> [Slots -> Bps]]
           /\ dr'[Main] = table'
           /\ \A t \in Threads : t \notin known \cap reach => dr'[t] = dr[t]
           /\ \A t \in Threads : life[t] = "live" /\ t \in known \cap reach =>
                 \A s \in Slots : dr'[t][s] \in {"none", table'[s]}
<1>1. Main \in Threads BY PortAssumption
<1>2. "none" \in Bps BY DEF Bps
<1>3. CASE ClearBp(slot)
  <2>1. /\ table' = [table EXCEPT ![slot] = "none"]
        /\ dr' = [t \in Threads |-> IF t \in known \cap known \cap reach THEN table'
                                                                  ELSE dr[t]]
      BY <1>3 DEF ClearBp, Apply
  <2>2. table' \in [Slots -> Bps] BY <1>2, <2>1 DEF TypeOK
  <2> QED BY <1>1, <2>1, <2>2 DEF TypeOK
<1>4. ASSUME NEW who, Main \in who, who \subseteq Threads,
             table' = [table EXCEPT ![slot] = bp],
             NEW regs \in [Threads -> [Slots -> Bps]],
             \A t \in Threads : t \notin known \cap reach => regs[t] = dr[t],
             \A t \in Threads : life[t] = "live" /\ t \in known \cap reach =>
                 \A s \in Slots : regs[t][s] \in {"none", table'[s]},
             dr' = [t \in Threads |-> IF t \in who \cap known \cap reach
                                     THEN table' ELSE regs[t]]
      PROVE  /\ table' \in [Slots -> Bps]
             /\ dr' \in [Threads -> [Slots -> Bps]]
             /\ dr'[Main] = table'
             /\ \A t \in Threads : t \notin known \cap reach => dr'[t] = dr[t]
             /\ \A t \in Threads : life[t] = "live" /\ t \in known \cap reach =>
                   \A s \in Slots : dr'[t][s] \in {"none", table'[s]}
  <2>1. table' \in [Slots -> Bps] BY <1>4 DEF TypeOK
  <2> QED BY <1>1, <1>4, <2>1 DEF TypeOK
<1>5. Main \in Installed(table') /\ Installed(table') \subseteq Threads
    BY <1>1 DEF Installed, TypeOK
<1>6. CASE ReplaceBp(slot, bp)
  <2> DEFINE empty == [table EXCEPT ![slot] = "none"]
             regs == [t \in Threads |-> IF t \in known \cap known \cap reach THEN empty
                                                                   ELSE dr[t]]
  <2>1. /\ table' = [table EXCEPT ![slot] = bp]
        /\ dr' = [t \in Threads |-> IF t \in Installed(table') \cap known \cap reach
                                   THEN table' ELSE regs[t]]
      BY <1>6 DEF ReplaceBp, Apply
  <2>2. empty \in [Slots -> Bps] BY <1>2 DEF TypeOK
  <2>3. regs \in [Threads -> [Slots -> Bps]] BY <2>2 DEF TypeOK
  <2>4. \A t \in Threads : t \notin known \cap reach => regs[t] = dr[t] OBVIOUS
  <2>5. \A s \in Slots : empty[s] \in {"none", table'[s]} BY <2>1 DEF TypeOK
  <2>6. \A t \in Threads : t \in known \cap reach => regs[t] = empty OBVIOUS
  <2> HIDE DEF regs, empty
  <2>7. \A t \in Threads : life[t] = "live" /\ t \in known \cap reach =>
            \A s \in Slots : regs[t][s] \in {"none", table'[s]}
      BY <2>5, <2>6
  <2> QED BY <1>4, <1>5, <2>1, <2>3, <2>4, <2>7
<1>7. CASE SetBp(slot, bp)
  <2>1. /\ table[slot] = "none"
        /\ table' = [table EXCEPT ![slot] = bp]
        /\ dr' = [t \in Threads |-> IF t \in Installed(table') \cap known \cap reach
                                   THEN table' ELSE dr[t]]
      BY <1>7 DEF SetBp, Apply
  <2>2. \A s \in Slots : table[s] \in {"none", table'[s]} BY <2>1 DEF TypeOK
  <2>3. \A t \in Threads : life[t] = "live" =>
            \A s \in Slots : dr[t][s] \in {"none", table'[s]}
      BY <2>2
  <2>4. dr \in [Threads -> [Slots -> Bps]] BY DEF TypeOK
  <2> QED BY <1>4, <1>5, <2>1, <2>3, <2>4
<1> QED BY <1>3, <1>6, <1>7

LEMMA TrapMoves ==
    ASSUME TypeOK, RegsInv, NEW t \in Threads, Trap(t),
           OnTrap(t) \/ OnTrapLast(t)
    PROVE  /\ table' \in [Slots -> Bps]
           /\ dr' \in [Threads -> [Slots -> Bps]]
           /\ dr'[Main] = table'
           /\ \A u \in Threads : u \notin known \cap reach => dr'[u] = dr[u]
           /\ \A u \in Threads : life[u] = "live" /\ u \in known \cap reach =>
                 \A s \in Slots : dr'[u][s] \in {"none", table'[s]}
<1>1. 0 \in Slots /\ 3 \in Slots BY DEF Slots
<1>2. {"write", "alloc"} \subseteq Bps BY DEF Bps, Instructions
<1>3. CASE UNCHANGED <<table, dr>> BY <1>3 DEF TypeOK, RegsInv
<1>4. CASE ClearBp(0) \/ ClearBp(3)
    BY <1>1, <1>2, <1>4, TableMoves DEF RegsInv
<1>5. CASE ReplaceBp(0, "write") \/ ReplaceBp(0, "alloc")
    BY <1>1, <1>2, <1>5, TableMoves DEF RegsInv
<1> QED BY <1>3, <1>4, <1>5 DEF OnTrap, OnTrapLast, HandleHwBreakpoint, InstallGuard

LEMMA LoadMoves ==
    ASSUME TypeOK, RegsInv, NEW t \in Threads, OnLoadDll(t)
    PROVE  /\ table' \in [Slots -> Bps]
           /\ dr' \in [Threads -> [Slots -> Bps]]
           /\ dr'[Main] = table'
           /\ \A u \in Threads : u \notin known \cap reach => dr'[u] = dr[u]
           /\ \A u \in Threads : life[u] = "live" /\ u \in known \cap reach =>
                 \A s \in Slots : dr'[u][s] \in {"none", table'[s]}
<1>1. 0 \in Slots BY DEF Slots
<1>2. "close" \in Bps BY DEF Bps, Instructions
<1>3. CASE UNCHANGED <<table, dr>> BY <1>3 DEF TypeOK, RegsInv
<1>4. CASE SetBp(0, "close") BY <1>1, <1>2, <1>4, TableMoves DEF RegsInv
<1> QED BY <1>3, <1>4 DEF OnLoadDll

LEMMA TypeStep == TypeOK /\ RegsInv /\ [Next]_vars => TypeOK'
<1> SUFFICES ASSUME TypeOK, RegsInv, [Next]_vars PROVE TypeOK'
    OBVIOUS
<1> USE DEF TypeOK, PortTypeOK, unpacker, program, given, portVars
<1>1. ASSUME NEW t \in Threads, NEW kind, NEW topic, Report(t, kind, topic),
             kind \in Kinds, topic \in Topics
      PROVE  PortTypeOK' /\ what' \in [Threads -> Topics] /\ order' \in Seq(Threads)
  <2>1. Append(order, t) \in Seq(Threads) OBVIOUS
  <2> QED BY <1>1, <2>1 DEF Report, Raise
<1>2. {"single_step", "breakpoint", "notification", "exit_process"} \subseteq Kinds
    BY DEF Kinds
<1>3. /\ Instructions \subseteq Topics
      /\ {"none", "elsewhere", "load_dll", "create_thread", "exit_thread"} \subseteq Topics
    BY DEF Topics
<1>4. ASSUME NEW t \in Threads, Answer(t)
      PROVE  /\ PortTypeOK' /\ what' \in [Threads -> Topics]
             /\ UNCHANGED <<known, reach, order, at, loaded, written, passed, strays,
                           classic, dotnet>>
    BY <1>3, <1>4 DEF Answer, ContinueEvent
<1>5. ASSUME NEW t \in Threads, NEW i, Milestone(t, i) PROVE passed' \in 0 .. 3
    BY <1>5 DEF Milestone
<1>6. Empty \in [Slots -> Bps] BY DEF Empty, Bps
<1>7. CASE LoaderBreakpoint
    BY <1>1, <1>2, <1>3, <1>7, PortAssumption DEF LoaderBreakpoint, Report
<1>8. ASSUME NEW t \in Threads, NEW i \in Instructions, Execute(t, i) PROVE TypeOK'
    BY <1>5, <1>8 DEF Execute
<1>9. ASSUME NEW t \in Threads, NEW i \in Instructions, HitExecute(t, i) PROVE TypeOK'
    BY <1>1, <1>2, <1>3, <1>9 DEF HitExecute, Report
<1>10. ASSUME NEW t \in Threads, HitWrite(t) PROVE TypeOK'
    BY <1>1, <1>2, <1>3, <1>5, <1>10 DEF HitWrite, Report
<1>11. ASSUME NEW t \in Threads,
              StrayTrap(t, "single_step") \/ StrayTrap(t, "breakpoint")
       PROVE  TypeOK'
    BY <1>1, <1>2, <1>3, <1>11, StrayAssumption DEF StrayTrap, Report
<1>12. ASSUME NEW t \in Threads, LoadsDll(t) PROVE TypeOK'
    BY <1>1, <1>2, <1>3, <1>12 DEF LoadsDll, Report
<1>13. ASSUME NEW t \in Threads, Starts(t) PROVE TypeOK'
    BY <1>1, <1>2, <1>3, <1>6, <1>13 DEF Starts, Report
<1>14. ASSUME NEW t \in Threads, Ends(t) PROVE TypeOK'
    BY <1>1, <1>2, <1>3, <1>14 DEF Ends, Report
<1>15. ASSUME NEW t \in Threads, Exits(t) PROVE TypeOK'
    BY <1>2, <1>3, <1>15 DEF Exits, RaiseExit
<1>16. ASSUME NEW t \in Threads, Wait(t) PROVE TypeOK'
  <2>1. Tail(order) \in Seq(Threads) BY <1>16 DEF Wait
  <2>2. PortTypeOK' BY <1>16 DEF Wait, WaitReturns
  <2>3. known' \subseteq Threads BY <1>16 DEF Wait
  <2>4. dr' \in [Threads -> [Slots -> Bps]] BY <1>16 DEF Wait
  <2> QED BY <1>16, <2>1, <2>2, <2>3, <2>4 DEF Wait
<1>17. ASSUME NEW t \in Threads, OnLoadDll(t) PROVE TypeOK'
  <2>1. Answer(t) BY <1>17 DEF OnLoadDll
  <2> QED BY <1>4, <1>17, <2>1, LoadMoves DEF OnLoadDll
<1>18. ASSUME NEW t \in Threads, OnThread(t) PROVE TypeOK'
  <2>1. Answer(t) BY <1>18 DEF OnThread
  <2> QED BY <1>4, <1>18, <2>1 DEF OnThread
<1>19. ASSUME NEW t \in Threads, OnTrap(t) PROVE TypeOK'
  <2>1. Answer(t) /\ Trap(t) BY <1>19 DEF OnTrap
  <2>2. guard' \in BOOLEAN /\ pc' \in {"loop", "mapped", "dotnet", "exit", "failed"}
      BY <1>19 DEF OnTrap, HandleHwBreakpoint, InstallGuard
  <2> QED BY <1>4, <1>19, <2>1, <2>2, TrapMoves DEF OnTrap
<1>20. ASSUME NEW t \in Threads, OnTrapLast(t) PROVE TypeOK'
  <2>1. Trap(t) BY <1>20 DEF OnTrapLast
  <2>2. guard' \in BOOLEAN
      BY <1>20 DEF OnTrapLast, HandleHwBreakpoint, InstallGuard
  <2> QED BY <1>20, <2>1, <2>2, TrapMoves DEF OnTrapLast
<1>21. ASSUME NEW t \in Threads, OnExit(t) PROVE TypeOK'
    BY <1>21 DEF OnExit
<1>22. CASE UNCHANGED vars BY <1>22 DEF vars
<1> QED
    BY <1>7, <1>8, <1>9, <1>10, <1>11, <1>12, <1>13, <1>14, <1>15, <1>16, <1>17, <1>18,
       <1>19, <1>20, <1>21, <1>22 DEF Next, Debuggee, Loop

LEMMA RegsStep == TypeOK /\ QueueInv /\ RegsInv /\ [Next]_vars => RegsInv'
<1> SUFFICES ASSUME TypeOK, QueueInv, RegsInv, [Next]_vars PROVE RegsInv'
    OBVIOUS
<1> USE DEF unpacker, program, given, portVars
<1>1. Main \in Threads BY PortAssumption
<1>2. ASSUME NEW t \in Threads, NEW kind, NEW topic, Report(t, kind, topic),
             kind # "none", life[t] = "live", UNCHANGED <<dr, life>>,
             kind = "notification" <=> topic \in {"load_dll", "create_thread", "exit_thread"},
             t = Main => topic \notin {"create_thread", "exit_thread"}
      PROVE  RegsInv'
  <2>1. /\ raised[t] = "none" /\ pending = NoThread
        /\ raised' = [raised EXCEPT ![t] = kind]
        /\ what' = [what EXCEPT ![t] = topic]
        /\ UNCHANGED <<table, known, reach, pending>>
      BY <1>2 DEF Report, Raise, CanRun, Frozen
  <2>2. \A u \in Threads : u # pending BY <2>1, PortAssumption
  <2> QED BY <1>1, <1>2, <2>1, <2>2 DEF RegsInv, TypeOK, PortTypeOK
<1>3. ASSUME NEW t \in Threads, Answer(t)
      PROVE  /\ pending = t /\ pending' = NoThread
             /\ raised' = [raised EXCEPT ![t] = "none"]
             /\ what' = [what EXCEPT ![t] = "none"]
             /\ UNCHANGED <<known, reach>>
    BY <1>3 DEF Answer, ContinueEvent
<1>4. ASSUME NEW t \in Threads, Answer(t), life' = life, what[t] # "exit_thread",
             dr'[Main] = table',
             \A u \in Threads : u \notin known \cap reach => dr'[u] = dr[u],
             \A u \in Threads : life[u] = "live" /\ u \in known \cap reach =>
                 \A s \in Slots : dr'[u][s] \in {"none", table'[s]}
      PROVE  RegsInv'
  <2>1. /\ pending = t /\ pending' = NoThread
        /\ raised' = [raised EXCEPT ![t] = "none"]
        /\ what' = [what EXCEPT ![t] = "none"]
        /\ UNCHANGED <<known, reach, life>>
      BY <1>3, <1>4
  <2>2. \A u \in Threads : life[u] = "live" /\ u \notin known \cap reach => dr'[u] = Empty
      BY <1>4, <2>1 DEF RegsInv
  <2>3. \A s \in Slots : Empty[s] = "none" BY DEF Empty
  <2>4. \A u \in Threads : life[u] = "live" =>
            \A s \in Slots : dr'[u][s] \in {"none", table'[s]}
      BY <1>4, <2>2, <2>3
  <2> QED BY <1>1, <1>4, <2>1, <2>2, <2>4 DEF RegsInv, TypeOK, PortTypeOK
<1>5. CASE LoaderBreakpoint
    BY <1>1, <1>2, <1>5 DEF LoaderBreakpoint, Runs
<1>6. ASSUME NEW t \in Threads, NEW i \in Instructions, Execute(t, i) PROVE RegsInv'
    BY <1>6 DEF Execute, RegsInv
<1>7. ASSUME NEW t \in Threads, NEW i \in Instructions, HitExecute(t, i) PROVE RegsInv'
  <2>1. i \notin {"load_dll", "create_thread", "exit_thread"} BY DEF Instructions
  <2> QED BY <1>2, <1>7, <2>1 DEF HitExecute, Executes, Runs
<1>8. ASSUME NEW t \in Threads, HitWrite(t) PROVE RegsInv'
    BY <1>2, <1>8 DEF HitWrite, Executes, Runs
<1>9. ASSUME NEW t \in Threads,
             StrayTrap(t, "single_step") \/ StrayTrap(t, "breakpoint")
      PROVE  RegsInv'
    BY <1>2, <1>9 DEF StrayTrap, Runs
<1>10. ASSUME NEW t \in Threads, LoadsDll(t) PROVE RegsInv'
    BY <1>2, <1>10 DEF LoadsDll, Runs
<1>11. ASSUME NEW t \in Threads, Starts(t) PROVE RegsInv'
  <2>1. /\ t # Main /\ life' = [life EXCEPT ![t] = "live"]
        /\ dr' = [dr EXCEPT ![t] = Empty]
        /\ raised' = [raised EXCEPT ![t] = "notification"]
        /\ what' = [what EXCEPT ![t] = "create_thread"]
        /\ UNCHANGED <<table, known, reach, pending>>
        /\ pending = NoThread
      BY <1>11 DEF Starts, Report, Raise, CanRun, Frozen
  <2>2. \A s \in Slots : Empty[s] = "none" BY DEF Empty
  <2>3. \A u \in Threads : u # pending BY <2>1, PortAssumption
  <2> QED BY <1>1, <2>1, <2>2, <2>3 DEF RegsInv, TypeOK, PortTypeOK
<1>12. ASSUME NEW t \in Threads, Ends(t) PROVE RegsInv'
    BY <1>2, <1>12 DEF Ends, Runs
<1>13. ASSUME NEW t \in Threads, Exits(t) PROVE RegsInv'
  <2>1. /\ life[t] = "live" /\ pending = NoThread
        /\ raised' = [u \in Threads |-> IF u = t THEN "exit_process" ELSE "none"]
        /\ what' = [what EXCEPT ![t] = "elsewhere"]
        /\ UNCHANGED <<table, known, reach, pending, dr, life>>
      BY <1>13 DEF Exits, Runs, CanRun, Frozen, RaiseExit
  <2>2. \A u \in Threads : u # pending BY <2>1, PortAssumption
  <2> QED BY <1>1, <2>1, <2>2 DEF RegsInv, TypeOK
<1>14. ASSUME NEW t \in Threads, Wait(t) PROVE RegsInv'
  <2>1. /\ pending = NoThread /\ pending' = t /\ raised[t] # "none"
        /\ UNCHANGED <<raised, table, life, reach, what>>
      BY <1>14 DEF Wait, WaitReturns, Frozen
  <2>2. \A u \in Threads : u # pending BY <2>1, PortAssumption
  <2>3. CASE what[t] = "create_thread"
    <3>1. /\ known' = known \cup {t}
          /\ dr' = (IF table # Empty THEN [dr EXCEPT ![t] = IF t \in reach THEN table ELSE @]
                                     ELSE dr)
        BY <1>14, <2>3 DEF Wait
    <3>2. table # Empty \/ table = Empty OBVIOUS
    <3> QED BY <1>1, <2>1, <2>2, <2>3, <3>1 DEF RegsInv, TypeOK
  <2>4. CASE what[t] = "exit_thread"
    <3>1. known' = known \ {t} /\ dr' = dr BY <1>14, <2>4 DEF Wait
    <3>2. t # Main BY <2>4 DEF RegsInv
    <3> QED BY <1>1, <2>1, <2>2, <2>4, <3>1, <3>2 DEF RegsInv, TypeOK
  <2>5. CASE what[t] \notin {"create_thread", "exit_thread"}
    <3>1. known' = known /\ dr' = dr BY <1>14, <2>5 DEF Wait
    <3> QED BY <1>1, <2>1, <2>2, <3>1 DEF RegsInv, TypeOK
  <2> QED BY <2>3, <2>4, <2>5
<1>15. ASSUME NEW t \in Threads, OnLoadDll(t) PROVE RegsInv'
    BY <1>4, <1>15, LoadMoves DEF OnLoadDll
<1>16. ASSUME NEW t \in Threads, OnThread(t) PROVE RegsInv'
  <2>1. CASE what[t] = "create_thread"
      BY <1>4, <1>16, <2>1 DEF OnThread, RegsInv, TypeOK
  <2>2. CASE what[t] = "exit_thread"
    <3>1. /\ life' = [life EXCEPT ![t] = "dead"] /\ UNCHANGED <<table, dr>> /\ Answer(t)
        BY <1>16, <2>2 DEF OnThread
    <3>2. /\ pending = t /\ pending' = NoThread
          /\ raised' = [raised EXCEPT ![t] = "none"]
          /\ what' = [what EXCEPT ![t] = "none"]
          /\ UNCHANGED <<known, reach>>
        BY <1>3, <3>1
    <3>3. t # Main BY <2>2 DEF RegsInv
    <3> QED BY <1>1, <3>1, <3>2, <3>3 DEF RegsInv, TypeOK, PortTypeOK
  <2> QED BY <1>16, <2>1, <2>2 DEF OnThread
<1>17. ASSUME NEW t \in Threads, Trap(t) PROVE what[t] # "exit_thread" /\ pending = t
    BY <1>17 DEF Trap, RegsInv
<1>18. ASSUME NEW t \in Threads, OnTrap(t) PROVE RegsInv'
  <2>1. Trap(t) /\ Answer(t) /\ life' = life BY <1>18 DEF OnTrap
  <2> QED BY <1>4, <1>17, <1>18, <2>1, TrapMoves
<1>19. ASSUME NEW t \in Threads, OnTrapLast(t) PROVE RegsInv'
  <2>1. /\ Trap(t) /\ pending = t
        /\ UNCHANGED <<raised, pending, known, reach, life, what>>
      BY <1>17, <1>19 DEF OnTrapLast, Trap
  <2>2. \A u \in Threads : life[u] = "live" /\ u \notin known \cap reach => dr'[u] = Empty
      BY <1>17, <1>19, <2>1, TrapMoves DEF RegsInv
  <2>3. \A s \in Slots : Empty[s] = "none" BY DEF Empty
  <2>4. \A u \in Threads : life[u] = "live" =>
            \A s \in Slots : dr'[u][s] \in {"none", table'[s]}
      BY <1>19, <2>1, <2>2, <2>3, TrapMoves
  <2> QED BY <1>1, <1>19, <2>1, <2>2, <2>4, TrapMoves DEF RegsInv
<1>20. ASSUME NEW t \in Threads, OnExit(t) PROVE RegsInv'
    BY <1>20 DEF OnExit, RegsInv
<1>21. CASE UNCHANGED vars BY <1>21 DEF vars, RegsInv
<1> QED
    BY <1>5, <1>6, <1>7, <1>8, <1>9, <1>10, <1>11, <1>12, <1>13, <1>14, <1>15, <1>16,
       <1>18, <1>19, <1>20, <1>21 DEF Next, Debuggee, Loop

-----------------------------------------------------------------------------
(* The queue: a new event is behind all others, and neither taking the     *)
(* oldest nor answering it changes who is before whom.                     *)
LEMMA Reported ==
    ASSUME TypeOK, QueueInv, NEW t \in Threads, NEW kind, NEW topic,
           Report(t, kind, topic), kind # "none"
    PROVE  /\ QueueInv'
           /\ raised[t] = "none"
           /\ \A u \in Threads : u # t => raised'[u] = raised[u] /\ what'[u] = what[u]
           /\ raised'[t] = kind /\ what'[t] = topic
           /\ \A u, v \in Threads : Before(u, v)' =>
                 Before(u, v) \/ (v = t /\ u # t /\ raised[u] # "none")
<1>1. /\ raised[t] = "none" /\ pending = NoThread /\ pending' = NoThread
      /\ raised' = [raised EXCEPT ![t] = kind]
      /\ what' = [what EXCEPT ![t] = topic]
      /\ order' = Append(order, t)
    BY DEF Report, Raise, CanRun, Frozen
<1>2. /\ raised \in [Threads -> Kinds \cup {"none"}] /\ what \in [Threads -> Topics]
      /\ order \in Seq(Threads)
    BY DEF TypeOK, PortTypeOK
<1>3. /\ Len(order') = Len(order) + 1 /\ order'[Len(order) + 1] = t
      /\ \A i \in 1 .. Len(order) : order'[i] = order[i] /\ order[i] \in Threads
      /\ Len(order) \in Nat
    BY <1>1, <1>2
<1>4. \A i \in 1 .. Len(order) : order[i] # t BY <1>1 DEF QueueInv
<1>5. \A u \in Threads : u # NoThread BY PortAssumption
<1>6. QueueInv'
  <2>1. \A i, j \in 1 .. Len(order') : order'[i] = order'[j] => i = j
      BY <1>3, <1>4 DEF QueueInv
  <2>2. \A i \in 1 .. Len(order') : raised'[order'[i]] # "none" /\ order'[i] # pending'
      BY <1>1, <1>2, <1>3, <1>5 DEF QueueInv
  <2>3. \A u \in Threads :
            raised'[u] # "none" => u = pending' \/ \E i \in 1 .. Len(order') : order'[i] = u
      BY <1>1, <1>2, <1>3, <1>5 DEF QueueInv
  <2> QED BY <1>1, <2>1, <2>2, <2>3 DEF QueueInv
<1>7. ASSUME NEW u \in Threads, NEW v \in Threads, Before(u, v)'
      PROVE  Before(u, v) \/ (v = t /\ u # t /\ raised[u] # "none")
  <2>1. PICK i \in 1 .. Len(order'), j \in 1 .. Len(order') :
            i < j /\ order'[i] = u /\ order'[j] = v
      BY <1>1, <1>5, <1>7 DEF Before
  <2>2. i \in 1 .. Len(order) /\ order[i] = u BY <1>3, <2>1
  <2>3. CASE j \in 1 .. Len(order) BY <1>3, <2>1, <2>2, <2>3 DEF Before
  <2>4. CASE j = Len(order) + 1 BY <1>3, <1>4, <2>1, <2>2, <2>4 DEF QueueInv
  <2> QED BY <1>3, <2>1, <2>3, <2>4
<1> QED BY <1>1, <1>2, <1>6, <1>7

LEMMA Waited ==
    ASSUME TypeOK, QueueInv, NEW t \in Threads, Wait(t)
    PROVE  /\ QueueInv' /\ pending' = t /\ UNCHANGED <<raised, what>>
           /\ \A u, v \in Threads : Before(u, v)' => Before(u, v)
<1>1. /\ pending = NoThread /\ pending' = t /\ UNCHANGED <<raised, what>>
      /\ order # <<>> /\ t = Head(order) /\ order' = Tail(order) /\ raised[t] # "none"
    BY DEF Wait, WaitReturns, Frozen
<1>2. order \in Seq(Threads) BY DEF TypeOK
<1>3. /\ Len(order) \in Nat /\ Len(order) >= 1
      /\ Len(order') = Len(order) - 1 /\ order[1] = t
      /\ \A i \in 1 .. Len(order') : order'[i] = order[i + 1]
    BY <1>1, <1>2
<1>4. \A u \in Threads : u # NoThread BY PortAssumption
<1>5. \A u \in Threads : raised[u] # "none" => \E i \in 1 .. Len(order) : order[i] = u
    BY <1>1, <1>4 DEF QueueInv
<1>6. QueueInv'
  <2>1. \A i, j \in 1 .. Len(order') : order'[i] = order'[j] => i = j
      BY <1>3 DEF QueueInv
  <2>2. \A i \in 1 .. Len(order') : raised'[order'[i]] # "none" /\ order'[i] # pending'
    <3> SUFFICES ASSUME NEW i \in 1 .. Len(order')
                 PROVE  raised'[order'[i]] # "none" /\ order'[i] # pending'
        OBVIOUS
    <3>1. i + 1 \in 1 .. Len(order) /\ 1 \in 1 .. Len(order) /\ i + 1 # 1 BY <1>3
    <3> QED BY <1>1, <1>3, <3>1 DEF QueueInv
  <2>3. \A u \in Threads :
            raised'[u] # "none" => u = pending' \/ \E i \in 1 .. Len(order') : order'[i] = u
    <3> SUFFICES ASSUME NEW u \in Threads, raised[u] # "none", u # t
                 PROVE  \E i \in 1 .. Len(order') : order'[i] = u
        BY <1>1
    <3>1. PICK i \in 1 .. Len(order) : order[i] = u BY <1>5
    <3>2. i - 1 \in 1 .. Len(order') /\ order'[i - 1] = order[i] BY <1>3, <3>1
    <3> QED BY <3>1, <3>2
  <2> QED BY <1>1, <2>1, <2>2, <2>3 DEF QueueInv
<1>7. ASSUME NEW u \in Threads, NEW v \in Threads, Before(u, v)' PROVE Before(u, v)
  <2>1. CASE u = t /\ v # t /\ raised[v] # "none"
    <3>1. PICK j \in 1 .. Len(order) : order[j] = v BY <1>5, <2>1
    <3>2. 1 \in 1 .. Len(order) /\ 1 < j BY <1>3, <2>1, <3>1
    <3> QED BY <1>3, <2>1, <3>1, <3>2 DEF Before
  <2>2. CASE \E i, j \in 1 .. Len(order') : i < j /\ order'[i] = u /\ order'[j] = v
    <3>1. PICK i \in 1 .. Len(order'), j \in 1 .. Len(order') :
              i < j /\ order'[i] = u /\ order'[j] = v
        BY <2>2
    <3>2. i + 1 \in 1 .. Len(order) /\ j + 1 \in 1 .. Len(order) /\ i + 1 < j + 1
        BY <1>3, <3>1
    <3> QED BY <1>3, <3>1, <3>2 DEF Before
  <2> QED BY <1>1, <1>7, <2>1, <2>2 DEF Before
<1> QED BY <1>1, <1>6, <1>7

LEMMA Answered ==
    ASSUME TypeOK, QueueInv, NEW t \in Threads, Answer(t)
    PROVE  /\ QueueInv'
           /\ pending = t /\ raised'[t] = "none"
           /\ \A u \in Threads : u # t => raised'[u] = raised[u] /\ what'[u] = what[u]
           /\ \A u, v \in Threads : Before(u, v)' => Before(u, v)
<1>1. /\ pending = t /\ pending' = NoThread /\ order' = order
      /\ raised' = [raised EXCEPT ![t] = "none"]
      /\ what' = [what EXCEPT ![t] = "none"]
    BY DEF Answer, ContinueEvent
<1>2. /\ raised \in [Threads -> Kinds \cup {"none"}] /\ what \in [Threads -> Topics]
      /\ order \in Seq(Threads)
    BY DEF TypeOK, PortTypeOK
<1>3. \A i \in 1 .. Len(order) : order[i] \in Threads BY <1>2
<1>4. \A u \in Threads : u # NoThread BY PortAssumption
<1>5. QueueInv' BY <1>1, <1>2, <1>3, <1>4 DEF QueueInv
<1>6. ASSUME NEW u \in Threads, NEW v \in Threads, Before(u, v)' PROVE Before(u, v)
    BY <1>1, <1>4, <1>6 DEF Before
<1> QED BY <1>1, <1>2, <1>5, <1>6

LEMMA QueueStep == TypeOK /\ QueueInv /\ [Next]_vars => QueueInv'
<1> SUFFICES ASSUME TypeOK, QueueInv, [Next]_vars PROVE QueueInv'
    OBVIOUS
<1> USE DEF portVars
<1>1. Main \in Threads BY PortAssumption
<1>2. CASE LoaderBreakpoint BY <1>1, <1>2, Reported DEF LoaderBreakpoint
<1>3. ASSUME NEW t \in Threads, NEW i \in Instructions, Execute(t, i) PROVE QueueInv'
    BY <1>3 DEF Execute, QueueInv
<1>4. ASSUME NEW t \in Threads, NEW i \in Instructions, HitExecute(t, i) PROVE QueueInv'
    BY <1>4, Reported DEF HitExecute
<1>5. ASSUME NEW t \in Threads,
             HitWrite(t) \/ StrayTrap(t, "single_step") \/ StrayTrap(t, "breakpoint")
             \/ LoadsDll(t) \/ Starts(t) \/ Ends(t)
      PROVE  QueueInv'
    BY <1>5, Reported DEF HitWrite, StrayTrap, LoadsDll, Starts, Ends
<1>6. ASSUME NEW t \in Threads, Exits(t) PROVE QueueInv'
  <2>1. /\ pending' = NoThread /\ order' = <<t>>
        /\ raised' = [u \in Threads |-> IF u = t THEN "exit_process" ELSE "none"]
      BY <1>6 DEF Exits, Runs, CanRun, Frozen, RaiseExit
  <2>2. Len(order') = 1 /\ order'[1] = t BY <2>1
  <2> QED BY <2>1, <2>2, PortAssumption DEF QueueInv
<1>7. ASSUME NEW t \in Threads, Wait(t) PROVE QueueInv'
    BY <1>7, Waited
<1>8. ASSUME NEW t \in Threads, OnLoadDll(t) \/ OnThread(t) \/ OnTrap(t) PROVE QueueInv'
    BY <1>8, Answered DEF OnLoadDll, OnThread, OnTrap
<1>9. ASSUME NEW t \in Threads, OnTrapLast(t) \/ OnExit(t) PROVE QueueInv'
    BY <1>9 DEF OnTrapLast, OnExit, QueueInv
<1>10. CASE UNCHANGED vars BY <1>10 DEF vars, QueueInv
<1> QED
    BY <1>2, <1>3, <1>4, <1>5, <1>6, <1>7, <1>8, <1>9, <1>10
       DEF Next, Debuggee, Loop

-----------------------------------------------------------------------------
(* Nothing has disturbed the staging after a step unless it had before.    *)
LEMMA UndisturbedBefore == TypeOK /\ [Next]_vars /\ Undisturbed' => Undisturbed
<1> SUFFICES ASSUME TypeOK, [Next]_vars, Undisturbed' PROVE Undisturbed
    OBVIOUS
<1> USE DEF Undisturbed, TypeOK, unpacker, program, given
<1>1. CASE LoaderBreakpoint BY <1>1 DEF LoaderBreakpoint, Report
<1>2. ASSUME NEW t \in Threads, NEW i \in Instructions, Execute(t, i) PROVE Undisturbed
    BY <1>2 DEF Execute
<1>3. ASSUME NEW t \in Threads, NEW i \in Instructions, HitExecute(t, i) PROVE Undisturbed
    BY <1>3 DEF HitExecute, Report
<1>4. ASSUME NEW t \in Threads, StrayTrap(t, "single_step") \/ StrayTrap(t, "breakpoint")
      PROVE  Undisturbed
    BY <1>4, StrayAssumption DEF StrayTrap, Report
<1>5. ASSUME NEW t \in Threads, HitWrite(t) \/ LoadsDll(t) \/ Starts(t) \/ Ends(t)
      PROVE  Undisturbed
    BY <1>5 DEF HitWrite, LoadsDll, Starts, Ends, Report
<1>6. ASSUME NEW t \in Threads, Exits(t) PROVE Undisturbed BY <1>6 DEF Exits
<1>7. ASSUME NEW t \in Threads, Wait(t) PROVE Undisturbed BY <1>7 DEF Wait
<1>8. ASSUME NEW t \in Threads, OnLoadDll(t) \/ OnThread(t) \/ OnTrap(t)
      PROVE  Undisturbed
    BY <1>8 DEF OnLoadDll, OnThread, OnTrap, Answer
<1>9. ASSUME NEW t \in Threads, OnTrapLast(t) \/ OnExit(t) PROVE Undisturbed
    BY <1>9 DEF OnTrapLast, OnExit
<1>10. CASE UNCHANGED vars BY <1>10 DEF vars
<1> QED
    BY <1>1, <1>2, <1>3, <1>4, <1>5, <1>6, <1>7, <1>8, <1>9, <1>10
       DEF Next, Debuggee, Loop

LEMMA Queued ==
    ASSUME QueueInv, NEW u \in Threads, NEW v \in Threads, Before(u, v)
    PROVE  raised[u] # "none" /\ raised[v] # "none"
<1>1. CASE pending = u /\ raised[v] # "none"
    BY <1>1, PortAssumption DEF QueueInv
<1>2. CASE \E i, j \in 1 .. Len(order) : i < j /\ order[i] = u /\ order[j] = v
    BY <1>2 DEF QueueInv
<1> QED BY <1>1, <1>2 DEF Before

(* Only the breakpoint of the present stage can be hit.                    *)
LEMMA ArmedIsCurrent ==
    ASSUME TypeOK, RegsInv, StageInv, Undisturbed, NEW t \in Threads, life[t] = "live",
           NEW i \in Instructions
    PROVE  /\ Armed(t, i) => table[0] = i
           /\ table[0] = i => Armed(Main, i)
<1>1. \A s \in Slots : s = 0 \/ s = 3 BY DEF Slots
<1>2. i # "none" BY DEF Instructions
<1>3. 0 \in Slots BY DEF Slots
<1>4. table[3] = "none" BY DEF StageInv, Staging
<1>5. \A s \in Slots : dr[t][s] \in {"none", table[s]} BY DEF RegsInv
<1>6. Armed(t, i) => table[0] = i BY <1>1, <1>2, <1>4, <1>5 DEF Armed
<1>7. table[0] = i => Armed(Main, i) BY <1>3 DEF Armed, RegsInv
<1> QED BY <1>6, <1>7

LEMMA OrderStep == TypeOK /\ HwInv /\ [Next]_vars => OrderInv'
<1> SUFFICES ASSUME TypeOK, HwInv, [Next]_vars, Undisturbed' PROVE
             \A u, v \in Threads : Before(u, v)' => InOrder(u, v)'
    BY DEF OrderInv
<1> USE DEF unpacker, program, given, portVars
<1>1. Undisturbed BY UndisturbedBefore
<1>stage. Staging /\ \A u \in Threads : TrapAt(u) BY <1>1 DEF HwInv, StageInv
<1>2. \A u, v \in Threads : Before(u, v) =>
          InOrder(u, v) /\ raised[u] # "none" /\ raised[v] # "none"
    BY <1>1, Queued, PortAssumption DEF HwInv, OrderInv
<1>3. Main \in Threads BY PortAssumption
<1>4. ASSUME NEW t \in Threads, NEW kind, NEW topic, Report(t, kind, topic), kind # "none",
             \A u \in Threads : u # t /\ raised[u] # "none" => InOrder(u, t)'
      PROVE  \A u, v \in Threads : Before(u, v)' => InOrder(u, v)'
  <2> SUFFICES ASSUME NEW u \in Threads, NEW v \in Threads, Before(u, v)'
               PROVE  InOrder(u, v)'
      OBVIOUS
  <2>1. CASE Before(u, v)
    <3>1. u # t /\ v # t BY <1>2, <1>4, <2>1, Reported DEF HwInv
    <3> QED BY <1>2, <1>4, <2>1, <3>1, Reported
            DEF HwInv, InOrder, Loader, Close, Wrote, Alloc
  <2>2. CASE v = t /\ u # t /\ raised[u] # "none" BY <1>4, <2>2
  <2> QED BY <1>4, <2>1, <2>2, Reported DEF HwInv
<1>5. ASSUME NEW t \in Threads, Report(t, "notification", "load_dll")
             \/ Report(t, "notification", "create_thread")
             \/ Report(t, "notification", "exit_thread")
      PROVE  \A u, v \in Threads : Before(u, v)' => InOrder(u, v)'
  <2>1. raised'[t] = "notification" BY <1>5, Reported DEF HwInv
  <2>2. \A u \in Threads : InOrder(u, t)'
      BY <2>1 DEF InOrder, Loader, Close, Wrote, Alloc
  <2> QED BY <1>4, <1>5, <2>2
<1>6. CASE LoaderBreakpoint
  <2>1. Report(Main, "breakpoint", "elsewhere") /\ ~loaded BY <1>6 DEF LoaderBreakpoint
  <2>2. \A u \in Threads : raised[u] # "single_step"
      BY <1>stage, <2>1 DEF TrapAt
  <2>3. \A u \in Threads : u # Main => InOrder(u, Main)'
      BY <1>3, <2>1, <2>2, Reported DEF HwInv, InOrder, Close, Wrote, Alloc
  <2> QED BY <1>3, <1>4, <2>1, <2>3
<1>7. ASSUME NEW t \in Threads, NEW i \in Instructions, HitExecute(t, i)
      PROVE  \A u, v \in Threads : Before(u, v)' => InOrder(u, v)'
  <2>1. Report(t, "single_step", i) /\ Armed(t, i) /\ i # "write" /\ life[t] = "live"
      BY <1>7 DEF HitExecute, Executes, Runs
  <2>2. table[0] = i BY <1>1, <2>1, ArmedIsCurrent DEF HwInv
  <2>3. raised'[t] = "single_step" /\ what'[t] = i BY <2>1, Reported DEF HwInv
  <2>4. i # "elsewhere" /\ i # "none" BY DEF Instructions
  <2>5. ASSUME NEW u \in Threads, u # t PROVE InOrder(u, t)'
    <3>1. raised'[u] = raised[u] /\ what'[u] = what[u] BY <2>1, <2>5, Reported DEF HwInv
    <3>2. TrapAt(u) /\ (guard => table[0] = "none") BY <1>stage DEF Staging
    <3> QED BY <2>2, <2>3, <2>4, <3>1, <3>2
            DEF TrapAt, InOrder, Loader, Close, Wrote, Alloc
  <2> QED BY <1>4, <2>1, <2>5
<1>8. ASSUME NEW t \in Threads, HitWrite(t)
      PROVE  \A u, v \in Threads : Before(u, v)' => InOrder(u, v)'
  <2>1. Report(t, "single_step", "elsewhere") /\ Armed(t, "write") /\ life[t] = "live"
      BY <1>8 DEF HitWrite, Executes, Runs
  <2>2. table[0] = "write" BY <1>1, <2>1, ArmedIsCurrent DEF HwInv, Instructions
  <2>3. raised'[t] = "single_step" /\ what'[t] = "elsewhere" BY <2>1, Reported DEF HwInv
  <2>4. ASSUME NEW u \in Threads, u # t PROVE InOrder(u, t)'
    <3>1. raised'[u] = raised[u] /\ what'[u] = what[u] BY <2>1, <2>4, Reported DEF HwInv
    <3>2. TrapAt(u) /\ (guard => table[0] = "none") BY <1>stage DEF Staging
    <3> QED BY <2>2, <2>3, <3>1, <3>2
            DEF TrapAt, InOrder, Loader, Close, Wrote, Alloc
  <2> QED BY <1>4, <2>1, <2>4
<1>9. ASSUME NEW t \in Threads, StrayTrap(t, "single_step") \/ StrayTrap(t, "breakpoint")
      PROVE  FALSE
    BY <1>1, <1>9, StrayAssumption DEF StrayTrap, Undisturbed, TypeOK
<1>10. ASSUME NEW t \in Threads, LoadsDll(t) \/ Starts(t) \/ Ends(t)
       PROVE  \A u, v \in Threads : Before(u, v)' => InOrder(u, v)'
    BY <1>5, <1>10 DEF LoadsDll, Starts, Ends
<1>11. ASSUME NEW t \in Threads, NEW i \in Instructions, Execute(t, i)
       PROVE  \A u, v \in Threads : Before(u, v)' => InOrder(u, v)'
    BY <1>2, <1>11 DEF Execute, Before, InOrder, Loader, Close, Wrote, Alloc
<1>12. ASSUME NEW t \in Threads, Exits(t)
       PROVE  \A u, v \in Threads : Before(u, v)' => InOrder(u, v)'
  <2>1. \A u \in Threads : raised'[u] # "single_step"
      BY <1>12 DEF Exits, RaiseExit
  <2> QED BY <2>1 DEF InOrder, Close, Wrote, Alloc
<1>13. ASSUME NEW t \in Threads, Wait(t)
       PROVE  \A u, v \in Threads : Before(u, v)' => InOrder(u, v)'
    BY <1>2, <1>13, Waited DEF HwInv, InOrder, Loader, Close, Wrote, Alloc
<1>14. ASSUME NEW t \in Threads, OnLoadDll(t) \/ OnThread(t) \/ OnTrap(t)
       PROVE  \A u, v \in Threads : Before(u, v)' => InOrder(u, v)'
  <2>1. Answer(t) BY <1>14 DEF OnLoadDll, OnThread, OnTrap
  <2> SUFFICES ASSUME NEW u \in Threads, NEW v \in Threads, Before(u, v)'
               PROVE  InOrder(u, v)'
      OBVIOUS
  <2>2. InOrder(u, v) BY <1>2, <2>1, Answered DEF HwInv
  <2>3. raised'[t] = "none" BY <2>1, Answered DEF HwInv
  <2>4. CASE u = t \/ v = t
      BY <2>3, <2>4 DEF InOrder, Loader, Close, Wrote, Alloc
  <2>5. CASE u # t /\ v # t
      BY <2>1, <2>2, <2>5, Answered DEF HwInv, InOrder, Loader, Close, Wrote, Alloc
  <2> QED BY <2>4, <2>5
<1>15. ASSUME NEW t \in Threads, OnTrapLast(t) \/ OnExit(t)
       PROVE  \A u, v \in Threads : Before(u, v)' => InOrder(u, v)'
    BY <1>2, <1>15 DEF OnTrapLast, OnExit, Before, InOrder, Loader, Close, Wrote, Alloc
<1>16. ASSUME UNCHANGED vars
       PROVE  \A u, v \in Threads : Before(u, v)' => InOrder(u, v)'
    BY <1>2, <1>16 DEF vars, Before, InOrder, Loader, Close, Wrote, Alloc
<1> QED
    BY <1>6, <1>7, <1>8, <1>9, <1>10, <1>11, <1>12, <1>13, <1>14, <1>15, <1>16
       DEF Next, Debuggee, Loop
(* Where the events leave the table while nothing disturbs the staging.    *)
LEMMA TrapTable ==
    ASSUME TypeOK, StageInv, Undisturbed, NEW t \in Threads, Trap(t),
           OnTrap(t) \/ OnTrapLast(t)
    PROVE  /\ OnTrap(t) => Answer(t)
           /\ OnTrapLast(t) => UNCHANGED portVars /\ UNCHANGED what /\ (classic \/ Loader(t))
           /\ UNCHANGED <<bpSet, program, given>>
           /\ table'[3] = "none"
           /\ Loader(t) => UNCHANGED <<table, guard>>
           /\ Close(t) => IF classic THEN guard' = TRUE /\ table'[0] = "none"
                                     ELSE guard' = guard /\ table'[0] = "write"
           /\ Wrote(t) => guard' = guard /\ table'[0] = "alloc"
           /\ Alloc(t) => guard' = TRUE /\ table'[0] = "none"
           /\ Loader(t) \/ Close(t) \/ Wrote(t) \/ Alloc(t)
<1> USE DEF program, given
<1>1. /\ table[3] = "none" /\ table \in [Slots -> Bps] /\ 0 \in Slots /\ 3 \in Slots
      /\ TrapAt(t)
    BY DEF StageInv, Staging, TypeOK, Slots
<1>2. Loader(t) \/ Close(t) \/ Wrote(t) \/ Alloc(t)
    BY <1>1 DEF Trap, TrapAt, Loader
<1>3. ~DotnetHit(t) BY <1>1 DEF DotnetHit
<1>4. HandleHwBreakpoint(what[t]) BY <1>3 DEF OnTrap, OnTrapLast
<1>5. Loader(t) => what[t] = "elsewhere" /\ table[0] # "write" BY <1>1 DEF TrapAt
<1>6. Wrote(t) => table[0] \in {"write", "alloc"} BY <1>1 DEF TrapAt
<1>7. /\ table'[3] = "none"
      /\ Loader(t) => UNCHANGED <<table, guard>>
      /\ Close(t) => IF classic THEN guard' = TRUE /\ table'[0] = "none"
                                ELSE guard' = guard /\ table'[0] = "write"
      /\ Wrote(t) => guard' = guard /\ table'[0] = "alloc"
      /\ Alloc(t) => guard' = TRUE /\ table'[0] = "none"
    BY <1>1, <1>2, <1>4, <1>5, <1>6
       DEF HandleHwBreakpoint, InstallGuard, ClearBp, ReplaceBp, Loader, Close, Wrote, Alloc
<1>8. /\ OnTrap(t) => Answer(t)
      /\ OnTrapLast(t) => UNCHANGED portVars /\ UNCHANGED what /\ (classic \/ Loader(t))
      /\ UNCHANGED <<bpSet, program, given>>
    BY DEF OnTrap, OnTrapLast, Answer, Loader
<1> QED BY <1>2, <1>7, <1>8

(* While nothing disturbs the staging, the stage of a hit that is handled  *)
(* is not behind the table, and handling it moves the table on.            *)
LEMMA StageStep == TypeOK /\ HwInv /\ [Next]_vars => StageInv'
<1> SUFFICES ASSUME TypeOK, HwInv, [Next]_vars, Undisturbed'
             PROVE  Staging' /\ \A u \in Threads : TrapAt(u)'
    BY DEF StageInv
<1> USE DEF unpacker, program, given, portVars
<1>1. Undisturbed BY UndisturbedBefore
<1>2. Staging /\ \A u \in Threads : TrapAt(u) BY <1>1 DEF HwInv, StageInv
<1>3. Main \in Threads /\ StageInv /\ RegsInv /\ QueueInv BY PortAssumption DEF HwInv
<1>4. ASSUME NEW t \in Threads, NEW kind, NEW topic, Report(t, kind, topic), kind # "none",
             UNCHANGED <<loaded, written, passed>>, TrapAt(t)'
      PROVE  Staging' /\ \A u \in Threads : TrapAt(u)'
  <2>1. /\ UNCHANGED <<table, guard, bpSet, classic, dotnet, gone>>
        /\ raised[t] = "none" /\ raised'[t] = kind
        /\ \A u \in Threads : u # t => raised'[u] = raised[u] /\ what'[u] = what[u]
      BY <1>3, <1>4, Reported DEF Report, Raise
  <2>2. ~Wrote(t) BY <2>1 DEF Wrote
  <2>3. Wrote(Main) => Wrote(Main)' BY <1>3, <2>1, <2>2 DEF Wrote
  <2>4. raised[Main] # "none" => raised'[Main] # "none" BY <1>3, <1>4, <2>1
  <2>5. Staging' BY <1>2, <1>4, <2>1, <2>3, <2>4 DEF Staging
  <2>6. \A u \in Threads : TrapAt(u)'
      BY <1>2, <1>4, <2>1 DEF TrapAt, Loader, Close, Wrote, Alloc
  <2> QED BY <2>5, <2>6
<1>5. CASE LoaderBreakpoint
  <2>1. Report(Main, "breakpoint", "elsewhere") /\ ~loaded /\ loaded'
        /\ UNCHANGED <<table, guard, bpSet, classic, written, passed>>
        /\ raised[Main] = "none" /\ ~gone /\ gone' = gone
      BY <1>5 DEF LoaderBreakpoint, Runs, CanRun, Report, Raise
  <2>2. /\ raised'[Main] = "breakpoint" /\ what'[Main] = "elsewhere"
        /\ \A u \in Threads : u # Main => raised'[u] = raised[u] /\ what'[u] = what[u]
      BY <1>3, <2>1, Reported
  <2>3. Staging' BY <1>2, <2>1, <2>2 DEF Staging
  <2>4. TrapAt(Main)' BY <1>2, <2>1, <2>2 DEF Staging, TrapAt, Loader, Close, Wrote, Alloc
  <2>5. ASSUME NEW u \in Threads, u # Main PROVE TrapAt(u)'
      BY <1>2, <2>1, <2>2, <2>5 DEF TrapAt, Loader, Close, Wrote, Alloc
  <2> QED BY <2>3, <2>4, <2>5
<1>6. ASSUME NEW t \in Threads, NEW i \in Instructions, Execute(t, i)
      PROVE  Staging' /\ \A u \in Threads : TrapAt(u)'
  <2>1. /\ loaded /\ ~Armed(t, i) /\ raised[t] = "none" /\ ~gone
        /\ Milestone(t, i) /\ written' = (written \/ i = "write")
        /\ UNCHANGED <<table, guard, bpSet, classic, loaded, raised, what, gone>>
      BY <1>6 DEF Execute, Executes, Runs, CanRun
  <2>2. \A u \in Threads : TrapAt(u)'
      BY <1>2, <2>1 DEF TrapAt, Loader, Close, Wrote, Alloc
  <2>3. t = Main => table[0] # i /\ ~Wrote(Main)
      BY <1>1, <1>3, <2>1, ArmedIsCurrent DEF RegsInv, Wrote
  <2>4. passed' # passed => t = Main /\ passed < 3 /\ passed' = passed + 1
                           /\ i = <<"close", "write", "alloc">>[passed']
      BY <2>1 DEF Milestone
  <2>5. table[0] \in {"none", "close", "write", "alloc"}
      BY <1>2, <1>3 DEF Staging, TypeOK, Bps, Instructions, Slots
  <2>6. passed \in 0 .. 3 BY DEF TypeOK
  <2>7. /\ passed' >= 1 => guard \/ table[0] \in {"write", "alloc"}
        /\ passed' >= 2 => guard \/ table[0] = "alloc" \/ Wrote(Main) \/ gone
        /\ passed' = 3 => guard
    <3>1. CASE passed' = passed BY <1>2, <3>1 DEF Staging
    <3>2. CASE passed' = 1 /\ passed = 0
        BY <1>2, <2>1, <2>3, <2>4, <2>5, <3>2 DEF Staging
    <3>3. CASE passed' = 2 /\ passed = 1
        BY <1>2, <2>1, <2>3, <2>4, <2>5, <3>3 DEF Staging
    <3>4. CASE passed' = 3 /\ passed = 2
        BY <1>2, <2>1, <2>3, <2>4, <2>5, <3>4 DEF Staging
    <3> QED BY <2>4, <2>6, <3>1, <3>2, <3>3, <3>4
  <2>8. Staging' BY <1>2, <2>1, <2>7 DEF Staging, Wrote
  <2> QED BY <2>2, <2>8
<1>7. ASSUME NEW t \in Threads, NEW i \in Instructions, HitExecute(t, i)
      PROVE  Staging' /\ \A u \in Threads : TrapAt(u)'
  <2>1. /\ Report(t, "single_step", i) /\ Armed(t, i) /\ i # "write" /\ life[t] = "live"
        /\ loaded /\ UNCHANGED <<loaded, written, passed>>
        /\ UNCHANGED <<table, guard, classic>>
      BY <1>7 DEF HitExecute, Executes, Runs, Report
  <2>2. table[0] = i BY <1>1, <1>3, <2>1, ArmedIsCurrent
  <2>3. raised'[t] = "single_step" /\ what'[t] = i BY <1>3, <2>1, Reported
  <2>4. i \in {"close", "alloc"} BY <1>2, <2>1, <2>2 DEF Staging, Instructions
  <2>5. TrapAt(t)'
      BY <1>2, <2>1, <2>2, <2>3, <2>4 DEF Staging, TrapAt, Loader, Close, Wrote, Alloc
  <2> QED BY <1>4, <2>1, <2>5
<1>8. ASSUME NEW t \in Threads, HitWrite(t)
      PROVE  Staging' /\ \A u \in Threads : TrapAt(u)'
  <2>1. /\ Report(t, "single_step", "elsewhere") /\ Armed(t, "write") /\ life[t] = "live"
        /\ loaded /\ loaded' /\ written' /\ Milestone(t, "write")
        /\ UNCHANGED <<table, guard, bpSet, classic, gone>>
      BY <1>8 DEF HitWrite, Executes, Runs, Report, Raise
  <2>2. table[0] = "write" BY <1>1, <1>3, <2>1, ArmedIsCurrent DEF Instructions
  <2>3. /\ raised[t] = "none" /\ raised'[t] = "single_step" /\ what'[t] = "elsewhere"
        /\ \A u \in Threads : u # t => raised'[u] = raised[u] /\ what'[u] = what[u]
      BY <1>3, <2>1, Reported
  <2>4. passed' # passed => t = Main /\ passed = 1 /\ passed' = 2
    <3>1. passed \in 0 .. 3 BY DEF TypeOK
    <3> QED BY <2>1, <3>1 DEF Milestone
  <2>5. Wrote(Main) \/ t = Main => Wrote(Main)' BY <1>3, <2>3 DEF Wrote
  <2>6. Staging' BY <1>2, <2>1, <2>2, <2>4, <2>5 DEF Staging
  <2>7. TrapAt(t)' BY <1>2, <2>1, <2>2, <2>3 DEF Staging, TrapAt, Loader, Close, Wrote, Alloc
  <2>8. ASSUME NEW u \in Threads, u # t PROVE TrapAt(u)'
      BY <1>2, <2>1, <2>3, <2>8 DEF TrapAt, Loader, Close, Wrote, Alloc
  <2> QED BY <2>6, <2>7, <2>8
<1>9. ASSUME NEW t \in Threads, StrayTrap(t, "single_step") \/ StrayTrap(t, "breakpoint")
      PROVE  FALSE
    BY <1>1, <1>9, StrayAssumption DEF StrayTrap, Undisturbed, TypeOK
<1>10. ASSUME NEW t \in Threads, LoadsDll(t) \/ Starts(t) \/ Ends(t)
       PROVE  Staging' /\ \A u \in Threads : TrapAt(u)'
  <2>1. PICK topic \in {"load_dll", "create_thread", "exit_thread"} :
            Report(t, "notification", topic)
      BY <1>10 DEF LoadsDll, Starts, Ends
  <2>2. UNCHANGED <<loaded, written, passed>> BY <1>10 DEF LoadsDll, Starts, Ends
  <2>3. raised'[t] = "notification" BY <1>3, <2>1, Reported
  <2>4. TrapAt(t)' BY <2>3 DEF TrapAt, Loader, Close, Wrote, Alloc
  <2> QED BY <1>4, <2>1, <2>2, <2>4
<1>11. ASSUME NEW t \in Threads, Exits(t)
       PROVE  Staging' /\ \A u \in Threads : TrapAt(u)'
  <2>1. /\ \A u \in Threads : raised'[u] \in {"none", "exit_process"}
        /\ gone' /\ UNCHANGED <<table, guard, bpSet, classic, loaded, written, passed>>
      BY <1>11 DEF Exits, RaiseExit
  <2>2. Staging' BY <1>2, <2>1 DEF Staging
  <2>3. \A u \in Threads : TrapAt(u)' BY <2>1 DEF TrapAt, Loader, Close, Wrote, Alloc
  <2> QED BY <2>2, <2>3
<1>12. ASSUME UNCHANGED <<raised, what, gone, table, guard, bpSet, classic, loaded, written,
                         passed>>
       PROVE  Staging' /\ \A u \in Threads : TrapAt(u)'
    BY <1>2, <1>12 DEF Staging, TrapAt, Loader, Close, Wrote, Alloc
<1>13. ASSUME NEW t \in Threads, Wait(t) \/ OnExit(t)
       PROVE  Staging' /\ \A u \in Threads : TrapAt(u)'
    BY <1>12, <1>13 DEF Wait, WaitReturns, OnExit
<1>14. ASSUME NEW t \in Threads, Answer(t), UNCHANGED guard,
              raised[t] = "notification", t = Main => what[t] = "load_dll",
              \/ bpSet' = bpSet /\ table' = table /\ (t = Main => bpSet)
              \/ ~bpSet /\ bpSet' /\ table'[0] = "close" /\ table'[3] = "none"
       PROVE  Staging' /\ \A u \in Threads : TrapAt(u)'
  <2>1. /\ UNCHANGED <<gone, classic, loaded, written, passed>>
        /\ raised'[t] = "none"
        /\ \A u \in Threads : u # t => raised'[u] = raised[u] /\ what'[u] = what[u]
      BY <1>3, <1>14, Answered DEF Answer, ContinueEvent
  <2>2. Wrote(Main) => Wrote(Main)' BY <1>3, <1>14, <2>1 DEF Wrote
  <2>3. t # Main => raised'[Main] = raised[Main] BY <1>3, <2>1
  <2>4. Staging' BY <1>2, <1>14, <2>1, <2>2, <2>3 DEF Staging
  <2>5. ASSUME NEW u \in Threads PROVE TrapAt(u)'
    <3>1. CASE u = t BY <2>1, <3>1 DEF TrapAt, Loader, Close, Wrote, Alloc
    <3>2. CASE u # t
        BY <1>2, <1>14, <2>1, <3>2 DEF Staging, TrapAt, Loader, Close, Wrote, Alloc
    <3> QED BY <3>1, <3>2
  <2> QED BY <2>4, <2>5
<1>15. ASSUME NEW t \in Threads, OnLoadDll(t)
       PROVE  Staging' /\ \A u \in Threads : TrapAt(u)'
  <2>1. raised[t] = "notification"
    <3>1. pending = t /\ what[t] = "load_dll"
        BY <1>15 DEF OnLoadDll, Answer, ContinueEvent
    <3> QED BY <1>3, <3>1, PortAssumption DEF QueueInv, RegsInv
  <2>2. CASE bpSet BY <1>14, <1>15, <2>1, <2>2 DEF OnLoadDll
  <2>3. CASE ~bpSet
    <3>1. SetBp(0, "close") /\ bpSet' /\ Answer(t) /\ UNCHANGED guard /\ what[t] = "load_dll"
        BY <1>15, <2>3 DEF OnLoadDll
    <3>2. table' = [table EXCEPT ![0] = "close"] BY <3>1 DEF SetBp
    <3>3. table \in [Slots -> Bps] /\ 0 \in Slots /\ 3 \in Slots /\ table[3] = "none"
        BY <1>2 DEF TypeOK, Slots, Staging
    <3>4. table'[0] = "close" /\ table'[3] = "none" BY <3>2, <3>3
    <3> QED BY <1>14, <2>1, <2>3, <3>1, <3>4
  <2> QED BY <2>2, <2>3
<1>16. ASSUME NEW t \in Threads, OnThread(t)
       PROVE  Staging' /\ \A u \in Threads : TrapAt(u)'
  <2>1. /\ Answer(t) /\ UNCHANGED <<guard, bpSet, table>>
        /\ pending = t /\ what[t] \in {"create_thread", "exit_thread"}
      BY <1>16 DEF OnThread, Answer, ContinueEvent
  <2>2. raised[t] = "notification" /\ t # Main
      BY <1>3, <2>1, PortAssumption DEF QueueInv, RegsInv
  <2> QED BY <1>14, <2>1, <2>2
<1>17. ASSUME NEW t \in Threads, OnTrap(t) \/ OnTrapLast(t)
       PROVE  Staging' /\ \A u \in Threads : TrapAt(u)'
  <2>1. Trap(t) /\ pending = t BY <1>17 DEF OnTrap, OnTrapLast, Trap
  <2>2. /\ Loader(t) \/ Close(t) \/ Wrote(t) \/ Alloc(t)
        /\ UNCHANGED <<bpSet, loaded, written, passed, classic>>
        /\ table'[3] = "none"
        /\ Loader(t) => UNCHANGED <<table, guard>>
        /\ Close(t) => IF classic THEN guard' = TRUE /\ table'[0] = "none"
                                  ELSE guard' = guard /\ table'[0] = "write"
        /\ Wrote(t) => guard' = guard /\ table'[0] = "alloc"
        /\ Alloc(t) => guard' = TRUE /\ table'[0] = "none"
      BY <1>1, <1>3, <1>17, <2>1, TrapTable
  <2>3. \A u \in Threads : u # t /\ raised[u] # "none" => InOrder(t, u)
      BY <1>1, <2>1 DEF HwInv, OrderInv, Before
  <2>4. /\ gone' = gone
        /\ \A u \in Threads : u # t => raised'[u] = raised[u] /\ what'[u] = what[u]
        /\ \/ raised'[t] = "none"
           \/ ((classic \/ Loader(t)) /\ raised'[t] = raised[t] /\ what'[t] = what[t])
    <3>1. CASE OnTrap(t)
        BY <1>1, <1>3, <2>1, <3>1, TrapTable, Answered DEF Answer, ContinueEvent
    <3>2. CASE OnTrapLast(t) BY <1>1, <1>3, <2>1, <3>2, TrapTable
    <3> QED BY <1>17, <3>1, <3>2
  <2>5. loaded /\ bpSet /\ TrapAt(t)
      BY <1>2, <2>2 DEF Staging, TrapAt, Loader, Close, Wrote, Alloc
  <2>6. Wrote(Main) => Wrote(Main)' \/ Wrote(t)
      BY <1>3, <2>4 DEF Wrote
  <2>7. Staging'
    <3>1. CASE Loader(t)
        BY <1>2, <2>2, <2>4, <2>5, <2>6, <3>1 DEF Staging, Loader, Wrote
    <3>2. CASE Close(t)
        BY <1>2, <2>2, <2>4, <2>5, <2>6, <3>2 DEF Staging, TrapAt, Close, Wrote
    <3>3. CASE Wrote(t)
        BY <1>2, <2>2, <2>4, <2>5, <2>6, <3>3 DEF Staging, TrapAt
    <3>4. CASE Alloc(t)
        BY <1>2, <2>2, <2>4, <2>5, <2>6, <3>4 DEF Staging, TrapAt, Alloc, Wrote
    <3> QED BY <2>2, <3>1, <3>2, <3>3, <3>4
  <2>8. ASSUME NEW u \in Threads, u # t PROVE TrapAt(u)'
    <3>1. TrapAt(u) /\ raised'[u] = raised[u] /\ what'[u] = what[u]
          /\ (raised[u] # "none" => InOrder(t, u))
          /\ (guard => table[0] = "none")
        BY <1>2, <2>3, <2>4, <2>8 DEF Staging
    <3>2. CASE Loader(t)
        BY <2>2, <2>5, <3>1, <3>2 DEF TrapAt, Loader, Close, Wrote, Alloc
    <3>3. CASE Close(t)
        BY <2>2, <2>5, <3>1, <3>3 DEF TrapAt, InOrder, Loader, Close, Wrote, Alloc
    <3>4. CASE Wrote(t)
        BY <2>2, <2>5, <3>1, <3>4 DEF TrapAt, InOrder, Loader, Close, Wrote, Alloc
    <3>5. CASE Alloc(t)
        BY <2>2, <2>5, <3>1, <3>5 DEF TrapAt, InOrder, Loader, Close, Wrote, Alloc
    <3> QED BY <2>2, <3>2, <3>3, <3>4, <3>5
  <2>9. TrapAt(t)'
    <3>1. CASE raised'[t] = "none" BY <3>1 DEF TrapAt, Loader, Close, Wrote, Alloc
    <3>2. CASE (classic \/ Loader(t)) /\ raised'[t] = raised[t] /\ what'[t] = what[t]
        BY <2>2, <2>5, <3>2 DEF TrapAt, Loader, Close, Wrote, Alloc
    <3> QED BY <2>4, <3>1, <3>2
  <2> QED BY <2>7, <2>8, <2>9
<1>18. CASE UNCHANGED vars BY <1>12, <1>18 DEF vars
<1> QED
    BY <1>5, <1>6, <1>7, <1>8, <1>9, <1>10, <1>11, <1>13, <1>15, <1>16, <1>17, <1>18
       DEF Next, Debuggee, Loop

-----------------------------------------------------------------------------
LEMMA HwInit == Init => TypeOK /\ HwInv
<1> SUFFICES ASSUME Init PROVE TypeOK /\ HwInv
    OBVIOUS
<1>1. Main \in Threads /\ NoThread \notin Threads BY PortAssumption
<1>2. Empty \in [Slots -> Bps] /\ Empty[0] = "none" /\ Empty[3] = "none"
    BY DEF Empty, Bps, Slots
<1>3. "cor" \in Bps /\ 0 \in Slots /\ 3 \in Slots BY DEF Bps, Instructions, Slots
<1>4. table \in [Slots -> Bps] /\ (~dotnet => table = Empty)
    BY <1>2, <1>3 DEF Init
<1>5. /\ dr \in [Threads -> [Slots -> Bps]] /\ dr[Main] = table
      /\ \A t \in Threads : t # Main => dr[t] = Empty
    BY <1>1, <1>2, <1>4 DEF Init
<1>6. order = <<Main>> /\ order \in Seq(Threads) /\ Len(order) = 1 /\ order[1] = Main
    BY <1>1 DEF Init
<1>7. TypeOK
  <2>1. PortTypeOK BY <1>1 DEF Init, PortTypeOK, Kinds
  <2>2. what \in [Threads -> Topics] BY <1>1 DEF Init, Topics
  <2>3. strays \in 0 .. MaxStrays /\ passed \in 0 .. 3 BY StrayAssumption DEF Init
  <2>4. at \in [Threads -> Instructions \cup {"any"}] BY DEF Init
  <2>5. life \in [Threads -> {"unborn", "live", "dead"}] BY DEF Init
  <2> QED BY <1>1, <1>4, <1>5, <1>6, <2>1, <2>2, <2>3, <2>4, <2>5 DEF Init, TypeOK
<1>8. QueueInv
  <2>1. raised[Main] = "notification" /\ pending = NoThread
        /\ \A t \in Threads : t # Main => raised[t] = "none"
      BY <1>1 DEF Init
  <2>2. \A i \in 1 .. Len(order) : i = 1 BY <1>6
  <2> QED BY <1>1, <1>6, <2>1, <2>2 DEF QueueInv
<1>9. \A s \in Slots : Empty[s] = "none" BY DEF Empty
<1>10. /\ raised[Main] = "notification" /\ what[Main] = "load_dll" /\ life[Main] = "live"
       /\ \A t \in Threads : t # Main =>
             raised[t] = "none" /\ what[t] = "none" /\ life[t] = "unborn"
    BY <1>1 DEF Init
<1>11. RegsInv
  <2>1. Main \in reach /\ known = {Main} BY DEF Init
  <2> QED BY <1>1, <1>5, <1>9, <1>10, <2>1 DEF RegsInv
<1>12. OrderInv
  <2>1. \A t \in Threads : raised[t] \in {"none", "notification"} BY <1>10
  <2> QED BY <2>1 DEF OrderInv, InOrder, Loader, Close, Wrote, Alloc
<1>13. StageInv
  <2>1. \A t \in Threads : raised[t] \in {"none", "notification"} BY <1>10
  <2>2. Undisturbed => table[0] = "none" /\ table[3] = "none"
      BY <1>2, <1>4 DEF Undisturbed
  <2>3. ~loaded /\ passed = 0 /\ ~guard /\ ~bpSet BY DEF Init
  <2> QED BY <1>10, <2>1, <2>2, <2>3
          DEF StageInv, Staging, TrapAt, Loader, Close, Wrote, Alloc
<1> QED BY <1>7, <1>8, <1>11, <1>12, <1>13 DEF HwInv

LEMMA HwStep == TypeOK /\ HwInv /\ [Next]_vars => TypeOK' /\ HwInv'
    BY TypeStep, QueueStep, RegsStep, OrderStep, StageStep DEF HwInv

(* Every variable keeps its type.                                          *)
THEOREM TypeCorrect == Spec => []TypeOK
<1>1. TypeOK /\ HwInv => TypeOK OBVIOUS
<1> QED BY <1>1, HwInit, HwStep, PTL DEF Spec

(* No live thread has a breakpoint armed that the table no longer holds,   *)
(* whatever traps the shell raises of its own.                             *)
THEOREM NoStale == Spec => []NoStaleBreakpoint
<1>1. TypeOK /\ HwInv => NoStaleBreakpoint
    BY DEF HwInv, RegsInv, NoStaleBreakpoint
<1> QED BY <1>1, HwInit, HwStep, PTL DEF Spec

(* The main thread does not get past VirtualAlloc without the guard, and   *)
(* the guard does not come before the shell has written .text.             *)
THEOREM GuardInTime == Spec => []GuardOnTime
<1>1. TypeOK /\ HwInv => GuardOnTime
    BY DEF HwInv, StageInv, Staging, GuardedBeforeProgram, GuardAfterDecompression,
           GuardOnTime
<1> QED BY <1>1, HwInit, HwStep, PTL DEF Spec

(* A hit that is handled late puts no earlier breakpoint back.             *)
THEOREM StagesKeepTheirOrder == Spec => StagesInOrder
<1>1. ASSUME TypeOK, HwInv, [Next]_vars, Undisturbed PROVE Stage' >= Stage
  <2> USE DEF unpacker
  <2>1. Staging /\ (\A t \in Threads : TrapAt(t)) /\ StageInv /\ RegsInv
      BY <1>1 DEF HwInv, StageInv
  <2>2. ASSUME UNCHANGED <<table, guard>> PROVE Stage' >= Stage
      BY <2>2 DEF Stage
  <2>3. ASSUME NEW t \in Threads, OnLoadDll(t) PROVE Stage' >= Stage
    <3>1. CASE bpSet BY <2>2, <2>3, <3>1 DEF OnLoadDll
    <3>2. CASE ~bpSet
      <4>1. Stage = 0 BY <2>1, <3>2 DEF Staging, Stage
      <4> QED BY <4>1 DEF Stage
    <3> QED BY <3>1, <3>2
  <2>4. ASSUME NEW t \in Threads, OnTrap(t) \/ OnTrapLast(t) PROVE Stage' >= Stage
    <3>1. Trap(t) BY <2>4 DEF OnTrap, OnTrapLast
    <3>2. /\ Loader(t) \/ Close(t) \/ Wrote(t) \/ Alloc(t)
          /\ Loader(t) => UNCHANGED <<table, guard>>
          /\ Close(t) => IF classic THEN guard' = TRUE /\ table'[0] = "none"
                                    ELSE guard' = guard /\ table'[0] = "write"
          /\ Wrote(t) => guard' = guard /\ table'[0] = "alloc"
          /\ Alloc(t) => guard' = TRUE /\ table'[0] = "none"
        BY <1>1, <2>1, <2>4, <3>1, TrapTable
    <3>3. TrapAt(t) BY <2>1
    <3>4. CASE Loader(t) BY <2>2, <3>2, <3>4
    <3>5. CASE Close(t) BY <3>2, <3>3, <3>5 DEF TrapAt, Stage
    <3>6. CASE Wrote(t) BY <3>2, <3>3, <3>6 DEF TrapAt, Stage
    <3>7. CASE Alloc(t) BY <3>2, <3>7 DEF Stage
    <3> QED BY <3>2, <3>4, <3>5, <3>6, <3>7
  <2>5. CASE Debuggee \/ UNCHANGED vars
    <3>1. UNCHANGED <<table, guard>>
        BY <2>5 DEF Debuggee, LoaderBreakpoint, Execute, HitExecute, HitWrite, StrayTrap,
                    LoadsDll, Starts, Ends, Exits, Report, vars
    <3> QED BY <2>2, <3>1
  <2>6. ASSUME NEW t \in Threads, Wait(t) \/ OnThread(t) \/ OnExit(t) PROVE Stage' >= Stage
    <3>1. UNCHANGED <<table, guard>> BY <2>6 DEF Wait, OnThread, OnExit
    <3> QED BY <2>2, <3>1
  <2> QED BY <1>1, <2>3, <2>4, <2>5, <2>6 DEF Next, Loop
<1>2. TypeOK /\ HwInv /\ [Next]_vars => [Undisturbed => Stage' >= Stage]_vars
    BY <1>1
<1> QED BY <1>2, HwInit, HwStep, PTL DEF Spec, StagesInOrder
=============================================================================
