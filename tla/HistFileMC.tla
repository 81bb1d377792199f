----------------------------- MODULE HistFileMC -----------------------------
(* Small instances of HistFile for TLC.                                    *)
EXTENDS HistFile, TLC

ShellSymmetry == Permutations(Shells)

NoFaults == {}
LocalFaults == {"write", "rename", "crash"}
LockTimeout == {"timeout"}
AllButWrites == FaultKinds \ {"write"}
=============================================================================
