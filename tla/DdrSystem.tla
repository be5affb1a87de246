----------------------------- MODULE DdrSystem -----------------------------
(* The kernel module and the library over it: some processes use the device by themselves, some
   are programs linked with libddr_manager. *)
EXTENDS DdrKernelModule, LibDdrManager

CONSTANT Direct    \* the processes that use the device without the library

ASSUME SystemAssumption == Direct \cup Programs \subseteq Users

SystemStart == ModuleStart /\ LibraryStart

LibraryOpens(p) == ddr_open_device(p) /\ ddr_open(p)

\* A program that is killed has its file closed.
ProgramKilled(p) ==
  /\ Killed(p)
  /\ IF p \in files THEN ddr_release(p) ELSE UNCHANGED moduleVars

ModuleNext ==
  \/ LoadStep
  \/ \E u \in Direct : UserStep(u)
  \/ WriteDebugfs
  \/ \E k \in Threads : ThreadStep(k)
  \/ ExitStep

SystemNext ==
  \/ ModuleNext /\ UNCHANGED libVars
  \/ \E p \in Programs : ProgramStep(p) /\ UNCHANGED moduleVars
  \/ \E p \in Programs : LibraryOpens(p) \/ ProgramKilled(p)

systemVars == <<moduleVars, libVars>>

SystemSpec == SystemStart /\ [][SystemNext]_systemVars

=============================================================================
