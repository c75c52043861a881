----------------------------- MODULE ConfigStore -----------------------------
(***************************************************************************)
(* The configuration file (source/core/config.c): loaded when the process  *)
(* starts, saved by the HTTP thread after each accepted request, through a *)
(* temporary file that is renamed.  A configuration is a version number;   *)
(* what becomes of its values between a save and a load is in ConfigValues.*)
(***************************************************************************)
EXTENDS Integers

CONSTANT MaxSaves   \* bound: configurations that are saved

ASSUME StoreAssumption == MaxSaves \in Nat

VARIABLES
  mem,    \* app->cfg
  disk,   \* config.txt
  tmp,    \* config.txt.tmp
  save    \* config_save: "none", "tmp" or "rename"

store == <<mem, disk, tmp, save>>

Versions == 0 .. MaxSaves
None == -1    \* no file
Torn == -2    \* half a file

StoreInit == mem = 0 /\ disk = 0 /\ tmp = None /\ save = "none"

\* Mutant: the file is written in place.
SaveInPlace ==
  /\ save = "none" /\ mem < MaxSaves
  /\ mem' = mem + 1
  /\ disk' = Torn
  /\ save' = "tmp"
  /\ UNCHANGED tmp

\* A request is applied to app->cfg; config_save opens the temporary file.
SaveBegin ==
  /\ save = "none" /\ mem < MaxSaves
  /\ mem' = mem + 1
  /\ tmp' = Torn
  /\ save' = "tmp"
  /\ UNCHANGED disk

\* fclose succeeds: all is written.
SaveWritten ==
  /\ save = "tmp"
  /\ tmp' = mem
  /\ save' = "rename"
  /\ UNCHANGED <<mem, disk>>

\* fopen, fclose or rename fails: the temporary file is removed.
SaveFails ==
  /\ save # "none"
  /\ tmp' = None
  /\ save' = "none"
  /\ UNCHANGED <<mem, disk>>

SaveRename ==
  /\ save = "rename"
  /\ disk' = tmp
  /\ tmp' = None
  /\ save' = "none"
  /\ UNCHANGED mem

StoreNext == SaveBegin \/ SaveWritten \/ SaveFails \/ SaveRename

\* config_load, in a new process.
Load ==
  /\ mem' = disk
  /\ save' = "none"
  /\ UNCHANGED <<disk, tmp>>

=============================================================================
