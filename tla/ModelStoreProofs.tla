---------------------------- MODULE ModelStoreProofs ----------------------------
(***************************************************************************)
(* The safety properties of ModelStore hold for any number of concurrent   *)
(* imports, any names and any profiles.                                    *)
(***************************************************************************)
EXTENDS ModelStore, FiniteSetTheorems, TLAPS

(* The inductive invariant. *)

Server == [phase : {"down", "failed", "loading", "rendering", "exec", "up"},
           listing : SUBSET (Names \union {Temporary}), served : SUBSET (Names \union {Temporary})]

\* A file that is given its owner or its name has all the bytes of its source.
CopiesAreWhole == \A i \in Importers : import[i].phase \in {"settle", "rename"} => temp[i] = "whole"

\* Registered imports are numbered, and a command that is on the way to the rename
\* has looked before the model was there that it will replace.
LookedBefore ==
    \A i \in Importers :
        /\ import[i].looked <= imports
        /\ \A n \in Registered :
            import[i].phase \in {"create", "copy", "settle", "rename"} /\ import[i].name = n =>
                import[i].looked < model[n].from

\* The restart of the import of a model is still to come, or it failed.
Settled(n) == n \in unserved \/ \E i \in Importers : At(i, "restart") /\ import[i].name = n

\* A start of the server has seen each model, or will be started again for it.
SeenWith(sections) == \A n \in Registered : Matches[n] # {} => n \in sections \/ Settled(n)

StartSeesAll ==
    /\ server.phase # "up" => server.served = {}
    /\ server.phase = "rendering" => SeenWith(server.listing)
    /\ server.phase = "exec" => SeenWith(preset)

IInv ==
    /\ TypeOK /\ server \in Server
    /\ CopiesAreWhole /\ RegisteredAreWhole
    /\ LookedBefore /\ StartSeesAll /\ ServedHasProfile

-----------------------------------------------------------------------------
(* Who steps. *)

\* The files and commands of an import: everything but the server and its presets.
Importing(i) ==
    Look(i) \/ CreateTemp(i) \/ Copy(i) \/ Settle(i) \/ Rename(i) \/ Restart(i)
            \/ RestartFails(i) \/ Crash(i)

Serving == Start \/ List \/ Render \/ Exec \/ ServerFails \/ Stop

LEMMA NextCases ==
    [Next]_vars <=> (\E i \in Importers : Importing(i)) \/ Serving \/ UNCHANGED vars
  BY DEF Next, AddLocalModel, Importing, Serving

LEMMA NoImportTyped ==
    NoImport \in Import /\ NoImport.phase = "idle" /\ NoImport.looked = 0
  BY ModelAssumption DEF NoImport, Import, Phases

\* What each step of an import does to its own record; the others' stay.
LEMMA ImportSteps ==
    ASSUME TypeOK, NEW i \in Importers
    PROVE  /\ \A j \in Importers \ {i} : Importing(i) => import'[j] = import[j]
           /\ \A f \in Phases :
                Goes(i, f) => /\ import' \in [Importers -> Import] /\ import'[i].phase = f
                              /\ import'[i].name = import[i].name
                              /\ import'[i].looked = import[i].looked
           /\ Leaves(i) => import' \in [Importers -> Import] /\ import'[i] = NoImport
  <1>1. ASSUME NEW j \in Importers \ {i}, Importing(i) PROVE import'[j] = import[j]
    BY <1>1 DEF Importing, Look, CreateTemp, Copy, Settle, Rename, Restart, RestartFails, Crash,
       Goes, Leaves, Fails, TypeOK
  <1>2. ASSUME NEW f \in Phases, Goes(i, f)
        PROVE  /\ import' \in [Importers -> Import] /\ import'[i].phase = f
               /\ import'[i].name = import[i].name /\ import'[i].looked = import[i].looked
    BY <1>2 DEF Goes, TypeOK, Import
  <1>3. ASSUME Leaves(i) PROVE import' \in [Importers -> Import] /\ import'[i] = NoImport
    BY <1>3, NoImportTyped DEF Leaves, TypeOK
  <1> QED BY <1>1, <1>2, <1>3

\* A command begins with a name that is free.
LEMMA LookStep ==
    ASSUME TypeOK, NEW i \in Importers, Look(i)
    PROVE  /\ import' \in [Importers -> Import] /\ import'[i].phase = "create"
           /\ import'[i].name \notin Registered /\ import'[i].looked = imports
  <1>1. PICK n \in Names \ Registered :
          import' = [import EXCEPT ![i] = [phase |-> "create", name |-> n, looked |-> imports]]
    BY DEF Look
  <1>2. [phase |-> "create", name |-> n, looked |-> imports] \in Import
    BY <1>1 DEF TypeOK, Import, Phases
  <1> QED BY <1>1, <1>2 DEF TypeOK

-----------------------------------------------------------------------------
(* Types. *)

\* A model that is matched, and not by two profiles, is matched by one.
LEMMA OneProfile ==
    ASSUME NEW n \in Names \union {Temporary}, Matches[n] # {}, ~(Cardinality(Matches[n]) > 1)
    PROVE  Cardinality(Matches[n]) = 1
  BY ModelAssumption, FS_EmptySet, FS_CardinalityType

LEMMA TypeImporting ==
    ASSUME TypeOK, NEW i \in Importers, Importing(i)
    PROVE  TypeOK'
  <1>1. import' \in [Importers -> Import]
    BY ImportSteps, LookStep DEF Importing, CreateTemp, Copy, Settle, Rename, Restart,
       RestartFails, Crash, Fails, Phases
  <1>2. temp' \in [Importers -> Copies]
    BY DEF TypeOK, Copies, Importing, Look, CreateTemp, Copy, Settle, Rename, Restart,
       RestartFails, Crash, Fails, files
  <1>3. model' \in [Names -> Model] /\ imports' \in 0..MaxImports
    <2>1. CASE Rename(i) /\ model' # model
      <3>1. imports + 1 \in 0..MaxImports /\ import[i].name \in Names
        BY <2>1, ModelAssumption DEF Rename, TypeOK, Import
      <3>2. [from |-> imports + 1, whole |-> temp[i] = "whole"] \in Model
        BY <3>1 DEF Model
      <3> QED BY <2>1, <3>1, <3>2 DEF Rename, TypeOK
    <2>2. CASE Rename(i) /\ model' = model
      BY <2>2, ModelAssumption DEF Rename, TypeOK
    <2>3. CASE ~Rename(i)
      BY <2>3 DEF TypeOK, Importing, Look, CreateTemp, Copy, Settle, Restart, RestartFails, Crash, files
    <2> QED BY <2>1, <2>2, <2>3
  <1>4. orphans' \subseteq {"partial", "whole"}
    BY DEF TypeOK, Copies, Importing, Look, CreateTemp, Copy, Settle, Rename, Restart,
       RestartFails, Crash, files
  <1>5. unserved' \subseteq Names
    <2>1. ASSUME NEW n \in Names, unserved' \subseteq unserved \cup {n} PROVE unserved' \subseteq Names
      BY <2>1 DEF TypeOK
    <2>2. import[i].name \in Names
      BY DEF TypeOK, Import
    <2>3. unserved' \subseteq unserved \/ unserved' \subseteq unserved \cup {import[i].name}
      BY DEF Importing, Look, CreateTemp, Copy, Settle, Rename, Restart, RestartFails, Crash, files
    <2> QED BY <2>1, <2>2, <2>3 DEF TypeOK
  <1>6. preset' = preset /\ (server' = server \/ server' = Loading)
    BY DEF Importing, Look, CreateTemp, Copy, Settle, Rename, Restart, RestartFails, Crash, service
  <1> QED BY <1>1, <1>2, <1>3, <1>4, <1>5, <1>6 DEF TypeOK, Loading

\* What each step of the server leaves in its record.
LEMMA ServerSteps ==
    ASSUME server \in Server
    PROVE  /\ Start \/ ServerFails \/ Stop =>
                server' \in Server /\ server'.served = {}
                /\ server'.phase \in {"loading", "failed", "down"}
           /\ List => server' \in Server /\ server'.phase = "rendering"
                      /\ server'.listing = Entries /\ server'.served = server.served
           /\ Render => server' \in Server /\ server'.phase = "exec"
                        /\ server'.served = server.served
           /\ Exec => server' \in Server /\ server'.phase = "up" /\ server'.served = Entries
  <1>1. Entries \subseteq Names \union {Temporary}
    BY DEF Entries, Registered
  <1>2. Loading \in Server
    BY DEF Loading, Server
  <1>3. ASSUME NEW f \in {"failed", "down"}
        PROVE  /\ [Loading EXCEPT !.phase = f] \in Server
               /\ [Loading EXCEPT !.phase = f].served = {}
               /\ [Loading EXCEPT !.phase = f].phase = f
    BY DEF Loading, Server
  <1>4. Start \/ ServerFails \/ Stop =>
            server' \in Server /\ server'.served = {}
            /\ server'.phase \in {"loading", "failed", "down"}
    <2>1. Loading.served = {} /\ Loading.phase = "loading"
      BY DEF Loading
    <2> QED BY <1>2, <1>3, <2>1 DEF Start, ServerFails, Stop
  <1>5. List => server' \in Server /\ server'.phase = "rendering"
                /\ server'.listing = Entries /\ server'.served = server.served
    BY <1>1 DEF List, Server
  <1>6. Render => server' \in Server /\ server'.phase = "exec" /\ server'.served = server.served
    BY DEF Render, Server
  <1>7. Exec => server' \in Server /\ server'.phase = "up" /\ server'.served = Entries
    <2> DEFINE s == [server EXCEPT !.phase = "up"]
    <2>1. s \in Server /\ s.phase = "up"
      BY DEF Server
    <2>2. Exec => server' = [s EXCEPT !.served = Entries]
      BY DEF Exec
    <2> HIDE DEF s
    <2>3. [s EXCEPT !.served = Entries] \in Server
          /\ [s EXCEPT !.served = Entries].phase = "up"
          /\ [s EXCEPT !.served = Entries].served = Entries
      BY <1>1, <2>1 DEF Server
    <2> QED BY <2>2, <2>3
  <1> QED BY <1>4, <1>5, <1>6, <1>7

LEMMA TypeServing ==
    ASSUME TypeOK, server \in Server, Serving
    PROVE  TypeOK' /\ server' \in Server
  <1>1. server' \in Server
    BY ServerSteps DEF Serving
  <1>2. preset' \subseteq {n \in Names \union {Temporary} : Cardinality(Matches[n]) = 1}
    <2>1. CASE Render
      BY <2>1, OneProfile DEF Render, Ambiguous, Server
    <2>2. CASE ~Render
      BY <2>2 DEF Serving, Start, List, Exec, ServerFails, Stop, TypeOK
    <2> QED BY <2>1, <2>2
  <1>3. UNCHANGED <<model, temp, orphans, import, imports, unserved>>
    BY DEF Serving, Start, List, Render, Exec, ServerFails, Stop, files
  <1> QED BY <1>1, <1>2, <1>3 DEF TypeOK, Server

-----------------------------------------------------------------------------
(* The parts of the invariant. *)

\* The server's steps leave the files and the imports alone.
LEMMA ServingKeeps ==
    ASSUME Serving \/ UNCHANGED vars
    PROVE  UNCHANGED <<model, temp, orphans, import, imports, unserved>>
  BY DEF Serving, Start, List, Render, Exec, ServerFails, Stop, files, vars

\* What a rename changes.
LEMMA RenameStep ==
    ASSUME TypeOK, NEW i \in Importers, Importing(i), model' # model
    PROVE  /\ Rename(i) /\ At(i, "rename") /\ imports' = imports + 1 /\ imports < MaxImports
           /\ model' = [model EXCEPT ![import[i].name] =
                          [from |-> imports + 1, whole |-> temp[i] = "whole"]]
           /\ import[i].name \in Names /\ import'[i].phase = "restart"
           /\ import'[i].name = import[i].name
  <1>1. Rename(i)
    BY DEF Importing, Look, CreateTemp, Copy, Settle, Restart, RestartFails, Crash, files
  <1>2. Goes(i, "restart") /\ import[i].name \in Names
    BY <1>1 DEF Rename, TypeOK, Import
  <1> QED BY <1>1, <1>2, ImportSteps DEF Rename, Phases

LEMMA RegisteredStep ==
    ASSUME TypeOK, NEW i \in Importers, Importing(i), NEW n \in Registered'
    PROVE  \/ n \in Registered /\ model'[n] = model[n]
           \/ model' # model /\ n = import[i].name
              /\ model'[n] = [from |-> imports + 1, whole |-> temp[i] = "whole"]
  BY RenameStep DEF Registered, TypeOK

LEMMA StaysRegistered ==
    ASSUME TypeOK, NEW i \in Importers, Importing(i)
    PROVE  Registered \subseteq Registered'
  <1> SUFFICES ASSUME NEW n \in Registered, model' # model PROVE n \in Registered'
    BY DEF Registered
  <1> DEFINE new == [from |-> imports + 1, whole |-> temp[i] = "whole"]
  <1>1. new # NoModel
    BY DEF NoModel, TypeOK
  <1>2. import[i].name \in Names /\ model' = [model EXCEPT ![import[i].name] = new]
    BY RenameStep
  <1> HIDE DEF new
  <1> QED BY <1>1, <1>2 DEF Registered, TypeOK

LEMMA WholeStep == IInv /\ [Next]_vars => CopiesAreWhole' /\ RegisteredAreWhole'
  <1> SUFFICES ASSUME IInv, [Next]_vars PROVE CopiesAreWhole' /\ RegisteredAreWhole'
    OBVIOUS
  <1> USE DEF IInv
  <1>1. CASE \E i \in Importers : Importing(i)
    <2>1. PICK i \in Importers : Importing(i)
      BY <1>1
    <2>2. RegisteredAreWhole'
      <3> SUFFICES ASSUME NEW n \in Registered' PROVE model'[n].whole
        BY DEF RegisteredAreWhole
      <3>1. CASE n \in Registered /\ model'[n] = model[n]
        BY <3>1 DEF RegisteredAreWhole
      <3>2. CASE model' # model /\ n = import[i].name
                 /\ model'[n] = [from |-> imports + 1, whole |-> temp[i] = "whole"]
        <4>1. temp[i] = "whole"
          BY <2>1, <3>2, RenameStep DEF CopiesAreWhole, At
        <4>2. (temp[i] = "whole") = TRUE
          BY <4>1
        <4>3. model'[n] = [from |-> imports + 1, whole |-> TRUE]
          BY <3>2, <4>2, Zenon
        <4> QED BY <4>3
      <3> QED BY <2>1, <3>1, <3>2, RegisteredStep
    <2>3. ASSUME NEW j \in Importers, import'[j].phase \in {"settle", "rename"}
          PROVE  temp'[j] = "whole"
      <3>1. CASE j # i
        <4>1. import'[j] = import[j]
          BY <2>1, <3>1, ImportSteps
        <4>2. temp'[j] = temp[j]
          BY <2>1, <3>1 DEF Importing, Look, CreateTemp, Copy, Settle, Rename, Restart,
             RestartFails, Crash, Fails, files, TypeOK
        <4> QED BY <2>3, <4>1, <4>2 DEF CopiesAreWhole
      <3>2. CASE j = i
        <4>1. ~Leaves(i)
          BY <2>3, <3>2, ImportSteps, NoImportTyped
        <4>2. Copy(i) \/ Settle(i)
          <5>1. ~Goes(i, "copy") /\ ~Goes(i, "restart")
            BY <2>3, <3>2, ImportSteps DEF Phases
          <5>2. ~Look(i)
            BY <2>3, <3>2, LookStep
          <5> QED BY <2>1, <4>1, <5>1, <5>2 DEF Importing, CreateTemp, Rename, Restart,
                     RestartFails, Crash, Fails
        <4> QED BY <3>2, <4>1, <4>2 DEF Copy, Settle, Fails, At, CopiesAreWhole, TypeOK
      <3> QED BY <3>1, <3>2
    <2> QED BY <2>2, <2>3 DEF CopiesAreWhole
  <1>2. CASE Serving \/ UNCHANGED vars
    BY <1>2, ServingKeeps DEF CopiesAreWhole, RegisteredAreWhole, Registered
  <1> QED BY <1>1, <1>2, NextCases

LEMMA LookedStep == IInv /\ [Next]_vars => LookedBefore'
  <1> SUFFICES ASSUME IInv, [Next]_vars PROVE LookedBefore'
    OBVIOUS
  <1> USE DEF IInv
  <1>1. CASE \E i \in Importers : Importing(i)
    <2>1. PICK i \in Importers : Importing(i)
      BY <1>1
    <2>2. imports <= imports' /\ imports \in Int /\ imports' \in Int
      BY <2>1 DEF TypeOK, Importing, Look, CreateTemp, Copy, Settle, Rename, Restart,
         RestartFails, Crash
    <2> SUFFICES ASSUME NEW j \in Importers
                 PROVE  /\ import'[j].looked <= imports'
                        /\ \A n \in Registered' :
                             import'[j].phase \in {"create", "copy", "settle", "rename"}
                             /\ import'[j].name = n => import'[j].looked < model'[n].from
      BY DEF LookedBefore
    <2>3. import[j].looked \in Int /\ import[j].looked <= imports
      BY DEF LookedBefore, TypeOK, Import
    <2>4. CASE import'[j].name = import[j].name /\ import'[j].looked = import[j].looked
               /\ (import'[j].phase \in {"create", "copy", "settle", "rename"} =>
                      import[j].phase \in {"create", "copy", "settle", "rename"})
      <3>1. import'[j].looked <= imports'
        BY <2>2, <2>3, <2>4
      <3>2. ASSUME NEW n \in Registered', import'[j].name = n,
                   import'[j].phase \in {"create", "copy", "settle", "rename"}
            PROVE  import'[j].looked < model'[n].from
        <4>1. CASE n \in Registered /\ model'[n] = model[n]
          BY <2>4, <3>2, <4>1 DEF LookedBefore
        <4>2. CASE model'[n] = [from |-> imports + 1, whole |-> temp[i] = "whole"]
          BY <2>2, <2>3, <2>4, <4>2
        <4> QED BY <2>1, <4>1, <4>2, RegisteredStep
      <3> QED BY <3>1, <3>2
    <2>5. CASE j = i /\ Look(i)
      BY <2>2, <2>5, LookStep DEF Look, files, Registered
    <2>6. CASE j = i /\ Leaves(i)
      BY <2>2, <2>6, ImportSteps, NoImportTyped DEF TypeOK
    <2>7. CASE j = i /\ ~Look(i) /\ ~Leaves(i)
      <3>1. \/ At(i, "create") /\ Goes(i, "copy")
            \/ At(i, "copy") /\ Goes(i, "settle")
            \/ At(i, "settle") /\ Goes(i, "rename")
            \/ Goes(i, "restart")
        BY <2>1, <2>7 DEF Importing, CreateTemp, Copy, Settle, Rename, Restart, RestartFails,
           Crash, Fails
      <3> QED BY <2>4, <2>7, <3>1, ImportSteps DEF At, Phases
    <2>8. CASE j # i
      BY <2>1, <2>4, <2>8, ImportSteps
    <2> QED BY <2>5, <2>6, <2>7, <2>8
  <1>2. CASE Serving \/ UNCHANGED vars
    BY <1>2, ServingKeeps DEF LookedBefore, Registered
  <1> QED BY <1>1, <1>2, NextCases

\* A model without the restart of its import to come has nobody's restart happen.
LEMMA SettledStep ==
    ASSUME TypeOK, NEW i \in Importers, Importing(i), NEW n \in Names, Settled(n),
           ~(At(i, "restart") /\ Restart(i))
    PROVE  Settled(n)'
  <1>1. unserved \subseteq unserved'
    BY DEF Importing, Look, CreateTemp, Copy, Settle, Rename, Restart, RestartFails, Crash
  <1>2. CASE n \in unserved
    BY <1>1, <1>2 DEF Settled
  <1>3. CASE \E j \in Importers : At(j, "restart") /\ import[j].name = n
    <2>1. PICK j \in Importers : At(j, "restart") /\ import[j].name = n
      BY <1>3
    <2>2. CASE j = i
      <3>1. RestartFails(i) \/ Crash(i)
        BY <2>1, <2>2 DEF Importing, Look, CreateTemp, Copy, Settle, Rename, Restart, At
      <3> QED BY <2>1, <2>2, <3>1 DEF RestartFails, Crash, Settled, At
    <2>3. CASE j # i
      BY <2>1, <2>3, ImportSteps DEF Settled, At
    <2> QED BY <2>2, <2>3
  <1> QED BY <1>2, <1>3 DEF Settled

\* Sections that serve the registered models keep on doing so until a restart.
LEMMA SeenStep ==
    ASSUME TypeOK, NEW i \in Importers, Importing(i), ~Restart(i),
           NEW n \in Registered', NEW sections,
           n \in Registered => n \in sections \/ Settled(n)
    PROVE  n \in sections \/ Settled(n)'
  <1>1. CASE n \in Registered /\ model'[n] = model[n]
    BY <1>1, SettledStep DEF Registered
  <1>2. CASE model' # model /\ n = import[i].name
    BY <1>2, RenameStep DEF Settled, At
  <1> QED BY <1>1, <1>2, RegisteredStep

LEMMA StartStep == IInv /\ [Next]_vars => StartSeesAll' /\ ServedHasProfile'
  <1> SUFFICES ASSUME IInv, [Next]_vars PROVE StartSeesAll' /\ ServedHasProfile'
    OBVIOUS
  <1> USE DEF IInv
  <1>0. ServedHasProfile <=> \A n \in server.served \intersect Registered :
                                Matches[n] # {} => n \in preset \/ Settled(n)
    BY DEF ServedHasProfile, Settled
  <1>1. ServedHasProfile' <=> \A n \in server'.served \intersect Registered' :
                                Matches[n] # {} => n \in preset' \/ Settled(n)'
    BY DEF ServedHasProfile, Settled
  <1>2. CASE \E i \in Importers : Importing(i) /\ (~Restart(i) \/ server' = server)
    <2>1. PICK i \in Importers : Importing(i) /\ (~Restart(i) \/ server' = server)
      BY <1>2
    <2>2. CASE Restart(i)
      <3>1. server'.served = {} /\ server'.phase \in {"down", "failed", "loading"}
        BY <2>1, <2>2 DEF Restart, Active, Loading, StartSeesAll, Server
      <3> QED BY <1>1, <3>1 DEF StartSeesAll
    <2>3. CASE ~Restart(i)
      <3>1. server' = server /\ preset' = preset
        BY <2>1, <2>3 DEF Importing, Look, CreateTemp, Copy, Settle, Rename, RestartFails,
           Crash, service
      <3>2. ASSUME NEW sections, SeenWith(sections), sections' = sections
            PROVE  SeenWith(sections)'
        BY <2>1, <2>3, <3>2, SeenStep DEF SeenWith
      <3>3. ServedHasProfile'
        BY <1>0, <1>1, <2>1, <2>3, <3>1, SeenStep
      <3> QED BY <3>1, <3>2, <3>3 DEF StartSeesAll
    <2> QED BY <2>2, <2>3
  <1>3. CASE \E i \in Importers : Restart(i) /\ server' = Loading
    BY <1>1, <1>3 DEF StartSeesAll, Loading
  <1>4. CASE Serving
    <2>1. UNCHANGED <<model, temp, orphans, import, imports, unserved>>
      BY <1>4, ServingKeeps
    <2>2. Registered' = Registered /\ \A n \in Names : Settled(n)' = Settled(n)
      BY <2>1 DEF Registered, Settled, At
    <2>3. CASE Start \/ ServerFails \/ Stop
      BY <1>1, <2>3, ServerSteps DEF StartSeesAll
    <2>4. CASE List
      <3>1. server'.listing = Entries /\ server'.served = {} /\ server'.phase = "rendering"
        BY <2>4, ServerSteps DEF List, StartSeesAll
      <3> QED BY <1>1, <2>2, <3>1 DEF StartSeesAll, SeenWith, Entries
    <2>5. CASE Render
      <3>1. /\ server'.served = {} /\ server'.phase = "exec"
            /\ preset' = {n \in server.listing : Matches[n] # {}}
            /\ SeenWith(server.listing)
        BY <2>5, ServerSteps DEF Render, StartSeesAll
      <3> QED BY <1>1, <2>2, <3>1 DEF StartSeesAll, SeenWith, Registered
    <2>6. CASE Exec
      <3>1. /\ server'.served = Entries /\ server'.phase = "up" /\ preset' = preset
            /\ SeenWith(preset)
        BY <2>6, ServerSteps DEF Exec, StartSeesAll
      <3> QED BY <1>1, <2>2, <3>1 DEF StartSeesAll, SeenWith, Registered
    <2> QED BY <1>4, <2>3, <2>4, <2>5, <2>6 DEF Serving
  <1>5. CASE UNCHANGED vars
    BY <1>0, <1>1, <1>5 DEF vars, StartSeesAll, SeenWith, Registered, Settled, At
  <1>6. \A i \in Importers : Restart(i) => server' \in {server, Loading}
    BY DEF Restart
  <1> QED BY <1>2, <1>3, <1>4, <1>5, <1>6, NextCases

-----------------------------------------------------------------------------
(* The theorems. *)

LEMMA InitIInv == Init => IInv
  <1> SUFFICES ASSUME Init PROVE IInv
    OBVIOUS
  <1>1. model \in [Names -> Model] /\ Registered = {}
    BY ModelAssumption DEF Init, NoModel, Model, Registered
  <1>2. import \in [Importers -> Import] /\ temp \in [Importers -> Copies]
    BY NoImportTyped DEF Init, Copies
  <1>3. server \in Server /\ server.served = {} /\ server.phase = "down"
    BY DEF Init, Server
  <1>4. TypeOK
    BY <1>1, <1>2, <1>3, ModelAssumption DEF Init, TypeOK, Server
  <1>5. CopiesAreWhole /\ RegisteredAreWhole /\ LookedBefore
    BY <1>1, NoImportTyped DEF Init, CopiesAreWhole, RegisteredAreWhole, LookedBefore
  <1>6. StartSeesAll /\ ServedHasProfile
    BY <1>3 DEF StartSeesAll, ServedHasProfile
  <1> QED BY <1>3, <1>4, <1>5, <1>6 DEF IInv

LEMMA TypeStep == IInv /\ [Next]_vars => TypeOK' /\ server' \in Server
  <1> SUFFICES ASSUME IInv, [Next]_vars PROVE TypeOK' /\ server' \in Server
    OBVIOUS
  <1>1. ASSUME NEW i \in Importers, Importing(i) PROVE server' \in Server
    BY <1>1 DEF IInv, Importing, Look, CreateTemp, Copy, Settle, Rename, Restart, RestartFails,
       Crash, service, Loading, Server
  <1>2. UNCHANGED vars => TypeOK' /\ server' \in Server
    BY DEF vars, TypeOK, IInv, Server
  <1> QED BY <1>1, <1>2, TypeImporting, TypeServing, NextCases DEF IInv

LEMMA StepIInv == IInv /\ [Next]_vars => IInv'
  BY TypeStep, WholeStep, LookedStep, StartStep DEF IInv

\* Every reachable state satisfies the inductive invariant.
THEOREM ModelInvariance == Spec => []IInv
  BY InitIInv, StepIInv, PTL DEF Spec

\* Every variable keeps its type; a preset section has exactly one profile.
THEOREM ModelTypeCorrect == Spec => []TypeOK
  BY ModelInvariance, PTL DEF IInv

\* Whatever fails, crashes or changes its size: a registered name is a whole copy.
THEOREM ModelsAreWhole == Spec => []RegisteredAreWhole
  BY ModelInvariance, PTL DEF IInv

\* A running server that offers a model without its profile will be started again for
\* it, or was not because the import failed.
THEOREM ServedHaveProfiles == Spec => []ServedHasProfile
  BY ModelInvariance, PTL DEF IInv

\* A model is replaced only by an import that looked before the model was there.
THEOREM ModelsAreKept == Spec => ReplacedOnlyUnseen
  <1> DEFINE Keeps ==
        \A n \in Registered :
            model'[n] # model[n] =>
                \E i \in Importers :
                    At(i, "rename") /\ import[i].name = n /\ import[i].looked < model[n].from
  <1>1. IInv /\ [Next]_vars => [Keeps]_vars
    <2> SUFFICES ASSUME IInv, [Next]_vars, NEW n \in Registered, model'[n] # model[n]
                 PROVE  \E i \in Importers :
                            At(i, "rename") /\ import[i].name = n
                            /\ import[i].looked < model[n].from
      OBVIOUS
    <2>1. PICK i \in Importers : Importing(i)
      BY NextCases, ServingKeeps
    <2>2. At(i, "rename") /\ import[i].name = n
      BY <2>1, RenameStep DEF IInv, TypeOK, Registered
    <2> QED BY <2>2 DEF IInv, LookedBefore, At
  <1> QED BY <1>1, ModelInvariance, PTL DEF Spec, ReplacedOnlyUnseen
=================================================================================
