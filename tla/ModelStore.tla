------------------------------- MODULE ModelStore -------------------------------
(***************************************************************************)
(* Managed models: concurrent imports into the models directory, and the   *)
(* start of llama-server, which renders the presets of the models it finds *)
(* there.  Imports may fail or crash at any step; the source may change    *)
(* while it is copied.  systemd and llama-server itself are external.      *)
(***************************************************************************)
EXTENDS Integers, FiniteSets

CONSTANTS
    Importers,  \* concurrent "model add" commands
    Names,      \* file names that models may be registered under
    Temporary,  \* stands for the names .model-*.gguf
    Matches,    \* the profiles whose glob matches each name
    MaxImports  \* bound

ASSUME ModelAssumption ==
    /\ Names # {} /\ Temporary \notin Names /\ MaxImports \in Nat
    /\ \A n \in Names \union {Temporary} : IsFiniteSet(Matches[n])

VARIABLES
    model,    \* which import each registered file is from, 0 when there is none
    temp,     \* the temporary file of each import
    orphans,  \* temporary files whose import crashed
    import,   \* the import each command is working on
    imports,  \* how many files were registered
    unserved, \* names whose import ended before it could restart the server
    server,   \* llama-server
    preset    \* the models with a section in the preset file

vars == <<model, temp, orphans, import, imports, unserved, server, preset>>

-----------------------------------------------------------------------------
(* States. *)

Copies == {"none", "partial", "whole"}
Phases == {"idle", "create", "copy", "settle", "rename", "restart"}

\* whole: the model behind a registered name is a whole copy of its source.
Model == [from : 0..MaxImports, whole : BOOLEAN]
Import == [phase : Phases, name : Names, looked : 0..MaxImports]

NoModel == [from |-> 0, whole |-> FALSE]
NoImport == [phase |-> "idle", name |-> CHOOSE n \in Names : TRUE, looked |-> 0]

Registered == {n \in Names : model[n] # NoModel}
Entries == Registered \union
    (IF orphans # {} \/ \E i \in Importers : temp[i] # "none" THEN {Temporary} ELSE {})

Init ==
    /\ model = [n \in Names |-> NoModel]
    /\ temp = [i \in Importers |-> "none"] /\ orphans = {}
    /\ import = [i \in Importers |-> NoImport]
    /\ imports = 0 /\ unserved = {}
    /\ server = [phase |-> "down", listing |-> {}, served |-> {}]
    /\ preset = {}

At(i, phase) == import[i].phase = phase
Goes(i, phase) == import' = [import EXCEPT ![i].phase = phase]
Leaves(i) == import' = [import EXCEPT ![i] = NoImport]

files == <<model, temp, orphans>>
service == <<server, preset>>

-----------------------------------------------------------------------------
(* addLocalModel. *)

\* Mutant: whether the name is taken is left to the rename.
LookAway(i) ==
    /\ At(i, "idle")
    /\ \E n \in Names :
        import' = [import EXCEPT ![i] = [phase |-> "create", name |-> n, looked |-> imports]]
    /\ UNCHANGED <<files, imports, unserved, service>>

\* A readable regular .gguf file, whose name is not registered yet.
Look(i) ==
    /\ At(i, "idle")
    /\ \E n \in Names \ Registered :
        import' = [import EXCEPT ![i] = [phase |-> "create", name |-> n, looked |-> imports]]
    /\ UNCHANGED <<files, imports, unserved, service>>

CreateTemp(i) ==
    /\ At(i, "create")
    /\ \/ temp' = [temp EXCEPT ![i] = "partial"] /\ Goes(i, "copy")
       \/ Leaves(i) /\ UNCHANGED temp
    /\ UNCHANGED <<model, orphans, imports, unserved, service>>

\* The deferred function: an error on the way to the rename removes the file.
Fails(i) ==
    /\ Leaves(i) /\ temp' = [temp EXCEPT ![i] = "none"]

\* Mutant: the copied bytes are not compared with the size of the source.
CopyUnchecked(i) ==
    /\ At(i, "copy")
    /\ \/ temp' = [temp EXCEPT ![i] = "whole"] /\ Goes(i, "settle")
       \/ Goes(i, "settle") /\ UNCHANGED temp
       \/ Fails(i)
    /\ UNCHANGED <<model, orphans, imports, unserved, service>>

\* io.Copy, the comparison with the size the source had, Sync, Chmod and Close.
Copy(i) ==
    /\ At(i, "copy")
    /\ \/ temp' = [temp EXCEPT ![i] = "whole"] /\ Goes(i, "settle")
       \/ Fails(i)
    /\ UNCHANGED <<model, orphans, imports, unserved, service>>

\* The service account is looked up and given the file.
Settle(i) ==
    /\ At(i, "settle")
    /\ \/ Goes(i, "rename") /\ UNCHANGED temp
       \/ Fails(i)
    /\ UNCHANGED <<model, orphans, imports, unserved, service>>

\* The rename replaces whatever is registered under the name by now.
Rename(i) ==
    /\ At(i, "rename")
    /\ \/ /\ imports < MaxImports
          /\ imports' = imports + 1
          /\ model' = [model EXCEPT ![import[i].name] =
                          [from |-> imports + 1, whole |-> temp[i] = "whole"]]
          /\ temp' = [temp EXCEPT ![i] = "none"]
          /\ Goes(i, "restart")
       \/ Fails(i) /\ UNCHANGED <<model, imports>>
    /\ UNCHANGED <<orphans, unserved, service>>

Loading == [phase |-> "loading", listing |-> {}, served |-> {}]
Active == server.phase \notin {"down", "failed"}

\* Mutant: a server that is still starting is taken for one that will see the file.
RestartServing(i) ==
    /\ At(i, "restart")
    /\ server' = IF server.phase = "up" THEN Loading ELSE server
    /\ Leaves(i)
    /\ UNCHANGED <<files, imports, unserved, preset>>

\* systemctl try-reload-or-restart: only a server that is active is started again.
Restart(i) ==
    /\ At(i, "restart")
    /\ server' = IF Active THEN Loading ELSE server
    /\ Leaves(i)
    /\ UNCHANGED <<files, imports, unserved, preset>>

RestartFails(i) ==
    /\ At(i, "restart")
    /\ Leaves(i) /\ unserved' = unserved \union {import[i].name}
    /\ UNCHANGED <<files, imports, service>>

Crash(i) ==
    /\ ~At(i, "idle") /\ Leaves(i)
    /\ temp' = [temp EXCEPT ![i] = "none"]
    /\ orphans' = IF temp[i] = "none" THEN orphans ELSE orphans \union {temp[i]}
    /\ unserved' = IF At(i, "restart") THEN unserved \union {import[i].name} ELSE unserved
    /\ UNCHANGED <<model, imports, service>>

-----------------------------------------------------------------------------
(* runLlamaServer: modelprofile.Render, then exec. *)

\* systemd starts it on request, and again after a failure.
Start ==
    /\ server.phase \in {"down", "failed"} /\ server' = Loading
    /\ UNCHANGED <<files, import, imports, unserved, preset>>

\* The entries of the directory, temporary files included.
List ==
    /\ server.phase = "loading"
    /\ server' = [server EXCEPT !.phase = "rendering", !.listing = Entries]
    /\ UNCHANGED <<files, import, imports, unserved, preset>>

Ambiguous(entries) == \E n \in entries : Cardinality(Matches[n]) > 1

\* Mutant: the first profile that matches is taken.
RenderFirst ==
    /\ server.phase = "rendering"
    /\ preset' = {n \in server.listing : Matches[n] # {}}
    /\ server' = [server EXCEPT !.phase = "exec"]
    /\ UNCHANGED <<files, import, imports, unserved>>

\* A model that two profiles match is an error, before the preset file is replaced.
Render ==
    /\ server.phase = "rendering" /\ ~Ambiguous(server.listing)
    /\ preset' = {n \in server.listing : Matches[n] # {}}
    /\ server' = [server EXCEPT !.phase = "exec"]
    /\ UNCHANGED <<files, import, imports, unserved>>

\* llama-server reads the preset file and the directory for itself.
Exec ==
    /\ server.phase = "exec"
    /\ server' = [server EXCEPT !.phase = "up", !.served = Entries]
    /\ UNCHANGED <<files, import, imports, unserved, preset>>

\* An ambiguous model, another error of the start (the catalogue, a template, the
\* directory, the disk, the exec), or a crash of the running server.
ServerFails ==
    /\ Active /\ server' = [Loading EXCEPT !.phase = "failed"]
    /\ UNCHANGED <<files, import, imports, unserved, preset>>

Stop ==
    /\ server.phase # "down" /\ server' = [Loading EXCEPT !.phase = "down"]
    /\ UNCHANGED <<files, import, imports, unserved, preset>>

AddLocalModel(i) ==
    \/ CreateTemp(i) \/ Copy(i) \/ Settle(i) \/ Rename(i) \/ Restart(i)

Next ==
    \/ \E i \in Importers : Look(i) \/ AddLocalModel(i) \/ RestartFails(i) \/ Crash(i)
    \/ Start \/ List \/ Render \/ Exec \/ ServerFails \/ Stop

Spec == Init /\ [][Next]_vars

\* An import goes on, systemd starts a failed server again, and a start that is tried
\* again and again does not fail each time for a reason outside this code (an ambiguous
\* model disables Render, and is no such reason); nobody need import anything, or
\* start a server that was stopped.
Fairness ==
    /\ \A i \in Importers : WF_vars(AddLocalModel(i))
    /\ WF_vars(Start /\ server.phase = "failed")
    /\ SF_vars(List) /\ SF_vars(Render) /\ SF_vars(Exec)

FairSpec == Spec /\ Fairness

-----------------------------------------------------------------------------
(* Properties. *)

\* Types; a section of the preset file is for a model that exactly one profile matches.
TypeOK ==
    /\ model \in [Names -> Model] /\ temp \in [Importers -> Copies]
    /\ orphans \subseteq {"partial", "whole"}
    /\ import \in [Importers -> Import] /\ imports \in 0..MaxImports
    /\ unserved \subseteq Names
    /\ server.phase \in {"down", "failed", "loading", "rendering", "exec", "up"}
    /\ server.listing \union server.served \subseteq Names \union {Temporary}
    /\ preset \subseteq {n \in Names \union {Temporary} : Cardinality(Matches[n]) = 1}

\* A registered name is a copy of all the bytes its source had, whatever failed or
\* crashed and if the source grew or shrank: a copy in progress never carries the name.
RegisteredAreWhole == \A n \in Registered : model[n].whole

\* A registered model is only replaced by an import that looked before it was there.
ReplacedOnlyUnseen ==
    [][\A n \in Registered :
        model'[n] # model[n] =>
            \E i \in Importers :
                At(i, "rename") /\ import[i].name = n /\ import[i].looked < model[n].from]_vars

\* A server that runs offers a registered model without the profile that matches it only
\* while the restart of the import is still to come, or failed: a file that appears
\* between the listing and the start of the server is not left without its template.
ServedHasProfile ==
    \A n \in server.served \intersect Registered :
        Matches[n] # {} =>
            \/ n \in preset \/ n \in unserved
            \/ \E i \in Importers : At(i, "restart") /\ import[i].name = n

ServedWithProfile(n) ==
    server.phase = "up" /\ n \in server.served /\ (Matches[n] # {} => n \in preset)

\* An imported model is served, with its profile, unless the import did not get to the
\* restart, the server is stopped, or a model that two profiles match keeps it from
\* starting: also when the file appears while the server is starting.
ImportIsServed ==
    \A n \in Names :
        (n \in Registered /\ \E i \in Importers : At(i, "restart") /\ import[i].name = n) ~>
            (ServedWithProfile(n) \/ n \in unserved \/ server.phase = "down" \/ Ambiguous(Entries))
=================================================================================
