------------------------------ MODULE Installation ------------------------------
(***************************************************************************)
(* llama-stack install and render: the steps by which administrators'      *)
(* commands turn the configuration into secrets, images, generated files,  *)
(* loaded units and running services, with failing steps, crashes and      *)
(* repeated or concurrent commands.  systemd and podman are external.      *)
(***************************************************************************)
EXTENDS Integers, FiniteSets

CONSTANTS
    Commands,     \* concurrent commands of administrators
    Containers,   \* the container services, each enabled or not
    MaxEdits, MaxKeys   \* bounds

ASSUME InstallationAssumption == MaxEdits \in Nat /\ MaxKeys \in Nat

VARIABLES
    config,    \* config.toml
    secret,    \* one of the secret files: the llama API key
    made,      \* how many secrets were made: a random value is never made twice
    images,    \* images in podman's storage
    disk,      \* the generated files
    loaded,    \* what systemd made of them at the last daemon-reload
    running,   \* the configuration a running container's unit was rendered from
    command    \* the command each administrator has started

vars == <<config, secret, made, images, disk, loaded, running, command>>

-----------------------------------------------------------------------------
(* States.  A version is a count of edits; a key is a count of secrets made, *)
(* 0 what a file holds that was created and not yet written.                 *)

Versions == 0..MaxEdits
Keys == 0..MaxKeys
None == -1

Config == [version : Versions, enabled : SUBSET Containers]
Secret == [key : Keys \union {None}, owner : {"root", "service"}]

\* target: the containers that the target wants; units: the configuration each
\* Quadlet was written from; env: the key in open-webui.env; owner of those files.
Disk == [target : SUBSET Containers, units : [Containers -> Versions \union {None}],
         env : Keys \union {None}, owner : {"root", "service"}]
Loaded == [target : SUBSET Containers, units : [Containers -> Versions \union {None}]]

Phases == {"none", "stat", "create", "write", "chown", "fetch",
           "target", "units", "env", "own", "reload", "enable"}

\* kept: the secret's key when the command looked for it; todo: images to fetch or
\* Quadlets to write; alone: no other command ran since it started.
Command == [phase : Phases, install : BOOLEAN, config : Config, seen : Keys \union {None},
            todo : SUBSET Containers, alone : BOOLEAN]

NoCommand == [phase |-> "none", install |-> FALSE, config |-> [version |-> 0, enabled |-> {}],
              seen |-> None, todo |-> {}, alone |-> FALSE]

Init ==
    /\ \E e \in SUBSET Containers : config = [version |-> 0, enabled |-> e]
    /\ secret = [key |-> None, owner |-> "root"]
    /\ made = 0 /\ images = {}
    /\ disk = [target |-> {}, units |-> [c \in Containers |-> None], env |-> None, owner |-> "root"]
    /\ loaded = [target |-> {}, units |-> [c \in Containers |-> None]]
    /\ running = [c \in Containers |-> None]
    /\ command = [p \in Commands |-> NoCommand]

At(p, phase) == command[p].phase = phase
Cfg(p) == command[p].config

To(p, phase) == [command EXCEPT ![p].phase = phase]
Goes(p, phase) == command' = To(p, phase)
Over(p) == command' = [command EXCEPT ![p] = NoCommand]

host == <<config, secret, made, images, disk, loaded, running>>

-----------------------------------------------------------------------------
(* Starting a command: the configuration is read once, the caller checked. *)

Begin(p, install) ==
    /\ At(p, "none")
    /\ LET others == \E q \in Commands \ {p} : ~At(q, "none")
           start == [NoCommand EXCEPT !.phase = IF install THEN "stat" ELSE "target",
                                      !.install = install, !.config = config,
                                      !.alone = ~others]
       IN  command' = [q \in Commands |-> IF q = p THEN start
                                          ELSE [command[q] EXCEPT !.alone = FALSE]]
    /\ UNCHANGED host

\* A step that returns an error ends the command; so does a crash anywhere.
Ends(p) == ~At(p, "none") /\ Over(p) /\ UNCHANGED host

-----------------------------------------------------------------------------
(* initializeState: ensureSecret, for one file. *)

\* Mutant: an existing secret is replaced.
StatIgnored(p) ==
    /\ At(p, "stat")
    /\ command' = [command EXCEPT ![p].seen = secret.key, ![p].phase = "create"]
    /\ UNCHANGED host

\* Mutant: any result of the look at the file counts as its being there.
StatAnyway(p) ==
    /\ At(p, "stat")
    /\ command' = [command EXCEPT ![p].seen = secret.key, ![p].phase = "fetch",
                                  ![p].todo = Cfg(p).enabled]
    /\ UNCHANGED host

Stat(p) ==
    /\ At(p, "stat")
    /\ command' = [command EXCEPT ![p].seen = secret.key,
                                  ![p].phase = IF secret.key = None THEN "create" ELSE "fetch",
                                  ![p].todo = IF secret.key = None THEN {} ELSE Cfg(p).enabled]
    /\ UNCHANGED host

\* os.WriteFile: the file is created or truncated, then written.
CreateSecret(p) ==
    /\ At(p, "create")
    /\ secret' = [key |-> 0, owner |-> IF secret.key = None THEN "root" ELSE secret.owner]
    /\ Goes(p, "write")
    /\ UNCHANGED <<config, made, images, disk, loaded, running>>

WriteSecret(p) ==
    /\ At(p, "write") /\ made < MaxKeys
    /\ made' = made + 1
    /\ secret' = [secret EXCEPT !.key = made + 1]
    /\ Goes(p, "chown")
    /\ UNCHANGED <<config, images, disk, loaded, running>>

ChownSecret(p) ==
    /\ At(p, "chown")
    /\ secret' = [secret EXCEPT !.owner = "service"]
    /\ command' = [command EXCEPT ![p].phase = "fetch", ![p].todo = Cfg(p).enabled]
    /\ UNCHANGED <<config, made, images, disk, loaded, running>>

-----------------------------------------------------------------------------
(* buildToolboxImage and pullServiceImages: one podman command per image.  *)

Fetch(p) ==
    /\ At(p, "fetch")
    /\ \/ \E c \in command[p].todo :
            /\ images' = images \union {c}
            /\ command' = [command EXCEPT ![p].todo = @ \ {c}]
       \/ command[p].todo = {} /\ Goes(p, "target") /\ UNCHANGED images
    /\ UNCHANGED <<config, secret, made, disk, loaded, running>>

-----------------------------------------------------------------------------
(* render.Write: every file replaced atomically, in this order, the Quadlets *)
(* of disabled services too; then the ownership of the generated files.      *)

WriteTarget(p) ==
    /\ At(p, "target")
    /\ disk' = [disk EXCEPT !.target = Cfg(p).enabled]
    /\ command' = [command EXCEPT ![p].phase = "units", ![p].todo = Containers]
    /\ UNCHANGED <<config, secret, made, images, loaded, running>>

\* Mutant: only the Quadlets of enabled services are written again.
WriteEnabledUnits(p) ==
    /\ At(p, "units")
    /\ \/ \E c \in command[p].todo :
            /\ disk' = [disk EXCEPT !.units[c] = IF c \in Cfg(p).enabled THEN Cfg(p).version ELSE @]
            /\ command' = [command EXCEPT ![p].todo = @ \ {c}]
       \/ command[p].todo = {} /\ Goes(p, "env") /\ UNCHANGED disk
    /\ UNCHANGED <<config, secret, made, images, loaded, running>>

WriteUnits(p) ==
    /\ At(p, "units")
    /\ \/ \E c \in command[p].todo :
            /\ disk' = [disk EXCEPT !.units[c] = Cfg(p).version]
            /\ command' = [command EXCEPT ![p].todo = @ \ {c}]
       \/ command[p].todo = {} /\ Goes(p, "env") /\ UNCHANGED disk
    /\ UNCHANGED <<config, secret, made, images, loaded, running>>

\* writeOpenWebUIEnvironment fails without the secret; a new file is root's.
WriteEnv(p) ==
    /\ At(p, "env") /\ secret.key # None
    /\ disk' = [disk EXCEPT !.env = secret.key, !.owner = "root"]
    /\ Goes(p, "own")
    /\ UNCHANGED <<config, secret, made, images, loaded, running>>

SetGeneratedOwnership(p) ==
    /\ At(p, "own")
    /\ disk' = [disk EXCEPT !.owner = "service"]
    /\ Goes(p, "reload")
    /\ UNCHANGED <<config, secret, made, images, loaded, running>>

-----------------------------------------------------------------------------
(* systemd. *)

Reload(p) ==
    /\ At(p, "reload")
    /\ loaded' = [target |-> disk.target, units |-> disk.units]
    /\ IF command[p].install THEN Goes(p, "enable") ELSE Over(p)
    /\ UNCHANGED <<config, secret, made, images, disk, running>>

\* Starting the target starts what it wants, in its unit or from the [Install]
\* section of a Quadlet, and leaves alone what is running.
Wanted == loaded.target \union {c \in Containers : loaded.units[c] # None}

Started == [c \in Containers |-> IF c \in Wanted /\ running[c] = None
                                 THEN loaded.units[c] ELSE running[c]]

Enable(p) ==
    /\ At(p, "enable")
    /\ running' \in {running, Started}     \* --no-start
    /\ Over(p)
    /\ UNCHANGED <<config, secret, made, images, disk, loaded>>

\* systemctl restart llama-stack.target: no unit is PartOf the target.
RestartTarget ==
    /\ running' = Started
    /\ UNCHANGED <<config, secret, made, images, disk, loaded, command>>

\* A container ends, or the host boots again.
Stop(c) ==
    /\ running[c] # None
    /\ running' = [running EXCEPT ![c] = None]
    /\ UNCHANGED <<config, secret, made, images, disk, loaded, command>>

\* The administrator edits config.toml.
Edit ==
    /\ config.version < MaxEdits
    /\ \E e \in SUBSET Containers : config' = [version |-> config.version + 1, enabled |-> e]
    /\ UNCHANGED <<secret, made, images, disk, loaded, running, command>>

Install(p) ==
    \/ Stat(p) \/ CreateSecret(p) \/ WriteSecret(p) \/ ChownSecret(p) \/ Fetch(p)
    \/ WriteTarget(p) \/ WriteUnits(p) \/ WriteEnv(p) \/ SetGeneratedOwnership(p)
    \/ Reload(p) \/ Enable(p)

Next ==
    \/ \E p \in Commands :
        Begin(p, TRUE) \/ Begin(p, FALSE) \/ Install(p) \/ Ends(p)
    \/ RestartTarget \/ (\E c \in Containers : Stop(c)) \/ Edit

Spec == Init /\ [][Next]_vars

-----------------------------------------------------------------------------
(* Properties. *)

TypeOK ==
    /\ config \in Config /\ secret \in Secret /\ made \in 0..MaxKeys
    /\ images \subseteq Containers /\ disk \in Disk /\ loaded \in Loaded
    /\ running \in [Containers -> Versions \union {None}]
    /\ command \in [Commands -> Command]
    /\ \A p \in Commands :
        /\ Cfg(p).version <= config.version
        /\ command[p].todo # {} => command[p].phase \in {"fetch", "units"}
        /\ command[p].install /\ command[p].phase \notin {"stat", "create"} => secret.key # None

\* A secret that was written is only replaced by a command that looked for it before
\* it was there: repeated and interrupted installs keep the keys that services use.
SecretIsKept ==
    [][secret.key \in 1..MaxKeys /\ secret'.key # secret.key =>
        \E p \in Commands : command[p].phase \in {"create", "write"} /\ command[p].seen # secret.key]_vars

\* A command that ran alone and succeeded leaves, whatever was interrupted before it,
\* what its configuration says: the files, their owner, and systemd's view of them, and in
\* them the key of the secret file, be that an empty one which a crash has left.
AloneIsComplete ==
    [][\A p \in Commands :
        (Reload(p) /\ command[p].alone) =>
            /\ loaded' = [target |-> Cfg(p).enabled, units |-> [c \in Containers |-> Cfg(p).version]]
            /\ disk.env = secret.key /\ disk.owner = "service"]_vars

\* README: after a change of the configuration, render and a restart of the target apply it.
RestartApplies ==
    [][RestartTarget =>
        \A c \in loaded.target : running'[c] = loaded.units[c]]_vars
=================================================================================
