--------------------------- MODULE InstallationProofs ---------------------------
(***************************************************************************)
(* The safety properties of Installation hold for any number of commands   *)
(* and services, of edits and of secrets.                                  *)
(***************************************************************************)
EXTENDS Installation, TLAPS

(* The inductive invariant. *)

\* A command that writes the secret found no file.
WritersSawNone ==
    \A p \in Commands : command[p].phase \in {"create", "write"} => command[p].seen = None

\* While a command is alone every other one is over.
AloneMeansAlone ==
    \A p, q \in Commands : command[p].alone /\ q # p => At(q, "none")

\* How far a command that runs alone has come with the generated files.
TargetWritten(p) ==
    command[p].phase \in {"units", "env", "own", "reload"} => disk.target = Cfg(p).enabled

UnitsWritten(p) ==
    command[p].phase \in {"units", "env", "own", "reload"} =>
        \A c \in Containers :
            (command[p].phase = "units" /\ c \in command[p].todo) \/ disk.units[c] = Cfg(p).version

EnvWritten(p) == command[p].phase \in {"own", "reload"} => disk.env = secret.key

OwnerIsSet(p) == command[p].phase = "reload" => disk.owner = "service"

Written(p) == TargetWritten(p) /\ UnitsWritten(p) /\ EnvWritten(p) /\ OwnerIsSet(p)

AloneIsOnCourse == \A p \in Commands : command[p].alone => Written(p)

IInv == TypeOK /\ WritersSawNone /\ AloneMeansAlone /\ AloneIsOnCourse

-----------------------------------------------------------------------------
(* Types. *)

LEMMA TypeInit == Init => TypeOK
  <1> SUFFICES ASSUME Init PROVE TypeOK
    OBVIOUS
  <1>1. NoCommand \in Command
    BY InstallationAssumption DEF NoCommand, Command, Phases, Config, Versions, Keys, None
  <1>2. command \in [Commands -> Command]
    BY <1>1 DEF Init
  <1>3. config \in Config /\ secret \in Secret
    BY InstallationAssumption DEF Init, Config, Secret, Versions, Keys, None
  <1>4. disk \in Disk /\ loaded \in Loaded
    BY DEF Init, Disk, Loaded, Versions, Keys, None
  <1>5. running \in [Containers -> Versions \union {None}]
    BY DEF Init
  <1>6. \A p \in Commands : command[p] = NoCommand
    BY DEF Init
  <1>7. made \in 0..MaxKeys /\ images \subseteq Containers /\ config.version = 0
    BY InstallationAssumption DEF Init
  <1> QED BY <1>2, <1>3, <1>4, <1>5, <1>6, <1>7 DEF TypeOK, NoCommand, Cfg

\* One field of a command at a time.
LEMMA CommandFields ==
    ASSUME NEW k \in Command
    PROVE  /\ \A f \in Phases : [k EXCEPT !.phase = f] \in Command
           /\ \A s \in Keys \union {None} : [k EXCEPT !.seen = s] \in Command
           /\ \A t \in SUBSET Containers : [k EXCEPT !.todo = t] \in Command
           /\ \A b \in BOOLEAN : [k EXCEPT !.alone = b] \in Command
           /\ \A b \in BOOLEAN : [k EXCEPT !.install = b] \in Command
           /\ \A c \in Config : [k EXCEPT !.config = c] \in Command
  BY DEF Command

LEMMA NoCommandIsCommand == NoCommand \in Command
  BY InstallationAssumption DEF NoCommand, Command, Phases, Config, Versions, Keys, None

\* What a command must carry, given the configuration's version and the secret's key.
Carries(k, version, key) ==
    /\ k.config.version <= version
    /\ k.todo # {} => k.phase \in {"fetch", "units"}
    /\ k.install /\ k.phase \notin {"stat", "create"} => key # None

\* A step of one command keeps the types of all.
LEMMA OneCommand ==
    ASSUME TypeOK, NEW p \in Commands, NEW k \in Command,
           command' = [command EXCEPT ![p] = k],
           Carries(k, config'.version, secret'.key),
           config'.version >= config.version, config' \in Config,
           secret.key # None => secret'.key # None
    PROVE  /\ command' \in [Commands -> Command]
           /\ \A q \in Commands : Carries(command'[q], config'.version, secret'.key)
  <1>1. command' \in [Commands -> Command]
    BY DEF TypeOK
  <1>2. ASSUME NEW q \in Commands, q # p
        PROVE  Carries(command'[q], config'.version, secret'.key)
    <2>1. command'[q] = command[q] /\ command[q] \in Command
      BY <1>2 DEF TypeOK
    <2>2. /\ command[q].config \in Config
          /\ Carries(command[q], config.version, secret.key)
      BY <2>1 DEF TypeOK, Cfg, Carries, Command
    <2>3. command[q].config.version \in Int /\ config.version \in Int /\ config'.version \in Int
      BY <2>2 DEF TypeOK, Config, Versions
    <2> QED BY <2>1, <2>2, <2>3 DEF Carries
  <1>3. command'[p] = k
    BY DEF TypeOK
  <1> QED BY <1>1, <1>2, <1>3

\* The rest of the state.
HostOK ==
    /\ config \in Config /\ secret \in Secret /\ made \in 0..MaxKeys
    /\ images \subseteq Containers /\ disk \in Disk /\ loaded \in Loaded
    /\ running \in [Containers -> Versions \union {None}]

LEMMA TypeParts ==
    TypeOK <=> /\ HostOK /\ command \in [Commands -> Command]
               /\ \A q \in Commands : Carries(command[q], config.version, secret.key)
  BY DEF TypeOK, HostOK, Carries, Cfg

LEMMA NextTypeOK ==
    ASSUME HostOK', command' \in [Commands -> Command],
           \A q \in Commands : Carries(command'[q], config'.version, secret'.key)
    PROVE  TypeOK'
  BY DEF TypeOK, HostOK, Carries, Cfg

\* The command of a step with only its phase changed, or with what is left to do as well.
LEMMA PhaseKeeps ==
    ASSUME TypeOK, NEW p \in Commands, NEW f \in Phases,
           command' = [command EXCEPT ![p].phase = f],
           command[p].todo = {}, config' = config,
           secret.key # None => secret'.key # None,
           f \notin {"stat", "create"} => (secret'.key # None \/ ~command[p].install)
    PROVE  /\ command' \in [Commands -> Command]
           /\ \A q \in Commands : Carries(command'[q], config'.version, secret'.key)
  <1> DEFINE k == [command[p] EXCEPT !.phase = f]
  <1>1. command[p] \in Command /\ Carries(command[p], config.version, secret.key)
    BY TypeParts
  <1>2. k \in Command
    BY <1>1, CommandFields
  <1>3. command' = [command EXCEPT ![p] = k]
    BY DEF TypeOK
  <1>4. k.config = command[p].config /\ k.todo = {} /\ k.install = command[p].install /\ k.phase = f
    BY <1>1 DEF Command
  <1>5. Carries(k, config'.version, secret'.key)
    BY <1>1, <1>4 DEF Carries
  <1>6. config'.version >= config.version /\ config' \in Config
    BY DEF TypeOK, Config, Versions
  <1> HIDE DEF k
  <1> QED BY <1>2, <1>3, <1>5, <1>6, OneCommand

LEMMA TodoKeeps ==
    ASSUME TypeOK, NEW p \in Commands, NEW f \in {"fetch", "units"}, NEW t \in SUBSET Containers,
           command' = [command EXCEPT ![p].phase = f, ![p].todo = t],
           config' = config, secret.key # None => secret'.key # None,
           secret'.key # None \/ ~command[p].install
    PROVE  /\ command' \in [Commands -> Command]
           /\ \A q \in Commands : Carries(command'[q], config'.version, secret'.key)
  <1> DEFINE k0 == [command[p] EXCEPT !.phase = f]
  <1> DEFINE k == [k0 EXCEPT !.todo = t]
  <1>1. command[p] \in Command /\ Carries(command[p], config.version, secret.key)
    BY TypeParts
  <1>2. k0 \in Command
    BY <1>1, CommandFields DEF Phases
  <1>3. k \in Command
    BY <1>2, CommandFields
  <1>4. command' = [command EXCEPT ![p] = k]
    BY <1>1 DEF TypeOK, Command
  <1>5. k.config = command[p].config /\ k.install = command[p].install /\ k.phase = f
    BY <1>1 DEF Command
  <1>6. Carries(k, config'.version, secret'.key)
    BY <1>1, <1>5 DEF Carries
  <1>7. config'.version >= config.version /\ config' \in Config
    BY DEF TypeOK, Config, Versions
  <1> HIDE DEF k
  <1> QED BY <1>3, <1>4, <1>6, <1>7, OneCommand

\* What a command carries when it waits for nothing to be fetched or written.
LEMMA Carried ==
    ASSUME TypeOK, NEW p \in Commands
    PROVE  /\ command[p] \in Command /\ Carries(command[p], config.version, secret.key)
           /\ command[p].phase \notin {"fetch", "units"} => command[p].todo = {}
           /\ Cfg(p) \in Config /\ Cfg(p).enabled \subseteq Containers
           /\ Cfg(p).version \in Versions
  BY TypeParts DEF Carries, Command, Cfg, Config

LEMMA TypeBegin ==
    ASSUME TypeOK, NEW p \in Commands, NEW install \in BOOLEAN, Begin(p, install)
    PROVE  TypeOK'
  <1> DEFINE others == \E q \in Commands \ {p} : ~At(q, "none")
  <1> DEFINE f == IF install THEN "stat" ELSE "target"
  <1> DEFINE k1 == [NoCommand EXCEPT !.phase = f]
  <1> DEFINE k2 == [k1 EXCEPT !.install = install]
  <1> DEFINE k3 == [k2 EXCEPT !.config = config]
  <1> DEFINE start == [k3 EXCEPT !.alone = ~others]
  <1>1. command' = [q \in Commands |-> IF q = p THEN start ELSE [command[q] EXCEPT !.alone = FALSE]]
    BY DEF Begin
  <1>2. config' = config /\ secret' = secret /\ HostOK'
    BY TypeParts DEF Begin, host, HostOK
  <1>3. config \in Config /\ config.version \in Versions
    BY DEF TypeOK, Config
  <1>4. start \in Command /\ Carries(start, config.version, secret.key)
    <2>1. f \in Phases /\ others \in BOOLEAN /\ (install => f = "stat")
      BY DEF Phases
    <2> HIDE DEF f, others
    <2>2. k1 \in Command /\ k1.todo = {} /\ k1.phase = f
      BY <2>1, NoCommandIsCommand, CommandFields DEF NoCommand
    <2> HIDE DEF k1
    <2>3. k2 \in Command /\ k2.todo = {} /\ k2.phase = f /\ k2.install = install
      BY <2>2, CommandFields DEF Command
    <2> HIDE DEF k2
    <2>4. k3 \in Command /\ k3.todo = {} /\ k3.phase = f /\ k3.install = install
          /\ k3.config = config
      BY <1>3, <2>3, CommandFields DEF Command
    <2> HIDE DEF k3
    <2>5. start \in Command /\ start.todo = {} /\ start.phase = f /\ start.install = install
          /\ start.config = config
      BY <2>4, <2>1, CommandFields DEF Command
    <2> HIDE DEF start
    <2> QED BY <1>3, <2>1, <2>5 DEF Carries, Versions
  <1>5. ASSUME NEW q \in Commands
        PROVE  /\ [command[q] EXCEPT !.alone = FALSE] \in Command
               /\ Carries([command[q] EXCEPT !.alone = FALSE], config.version, secret.key)
    <2>1. command[q] \in Command /\ Carries(command[q], config.version, secret.key)
      BY Carried
    <2> QED BY <2>1, CommandFields DEF Carries, Command
  <1> HIDE DEF start, k1, k2, k3, others, f
  <1> QED BY <1>1, <1>2, <1>4, <1>5, NextTypeOK

LEMMA TypeOver ==
    ASSUME TypeOK, NEW p \in Commands, Over(p), config' = config, secret' = secret
    PROVE  /\ command' \in [Commands -> Command]
           /\ \A q \in Commands : Carries(command'[q], config'.version, secret'.key)
  <1>1. Carries(NoCommand, config.version, secret.key)
    BY DEF NoCommand, Carries, TypeOK, Config, Versions
  <1>2. config'.version >= config.version /\ config' \in Config
    BY DEF TypeOK, Config, Versions
  <1> QED BY <1>1, <1>2, NoCommandIsCommand, OneCommand DEF Over

LEMMA TypeSecret ==
    ASSUME TypeOK, NEW p \in Commands,
           Stat(p) \/ CreateSecret(p) \/ WriteSecret(p) \/ ChownSecret(p)
    PROVE  TypeOK'
  <1>1. /\ command[p] \in Command /\ Carries(command[p], config.version, secret.key)
        /\ command[p].phase \notin {"fetch", "units"} => command[p].todo = {}
        /\ Cfg(p).enabled \subseteq Containers
    BY Carried
  <1>2. CASE Stat(p)
    <2> DEFINE f == IF secret.key = None THEN "create" ELSE "fetch"
    <2> DEFINE t == IF secret.key = None THEN {} ELSE Cfg(p).enabled
    <2> DEFINE k0 == [command[p] EXCEPT !.seen = secret.key]
    <2> DEFINE k1 == [k0 EXCEPT !.phase = f]
    <2> DEFINE k == [k1 EXCEPT !.todo = t]
    <2>1. k0 \in Command
      BY <1>1, CommandFields DEF TypeOK, Secret
    <2>2. k1 \in Command
      BY <2>1, CommandFields DEF Phases
    <2>3. k \in Command
      BY <1>1, <2>2, CommandFields
    <2>4. command' = [command EXCEPT ![p] = k]
      BY <1>1, <1>2 DEF Stat, TypeOK, Command
    <2>5. k.config = command[p].config /\ k.install = command[p].install /\ k.phase = f /\ k.todo = t
      BY <1>1 DEF Command
    <2>6. HostOK' /\ config' = config /\ secret' = secret
      BY <1>2, TypeParts DEF Stat, host, HostOK
    <2> HIDE DEF k
    <2>7. Carries(k, config'.version, secret'.key)
      BY <1>1, <2>5, <2>6 DEF Carries
    <2>8. config'.version >= config.version /\ config' \in Config
      BY <2>6 DEF TypeOK, Config, Versions
    <2> QED BY <2>3, <2>4, <2>6, <2>7, <2>8, OneCommand, NextTypeOK
  <1>3. CASE CreateSecret(p)
    <2>1. HostOK' /\ config' = config /\ secret'.key = 0
      BY <1>3, InstallationAssumption DEF CreateSecret, TypeOK, HostOK, Secret, Keys
    <2>2. command' = [command EXCEPT ![p].phase = "write"] /\ command[p].todo = {}
      BY <1>1, <1>3 DEF CreateSecret, Goes, To, At
    <2>3. "write" \in Phases /\ secret'.key # None
      BY <2>1 DEF Phases, None
    <2> QED BY <2>1, <2>2, <2>3, PhaseKeeps, NextTypeOK
  <1>4. CASE WriteSecret(p)
    <2>1. made + 1 \in 0..MaxKeys
      BY <1>4, InstallationAssumption DEF WriteSecret, TypeOK
    <2>2. HostOK' /\ config' = config /\ secret'.key = made + 1
      BY <1>4, <2>1 DEF WriteSecret, TypeOK, HostOK, Secret, Keys
    <2>3. command' = [command EXCEPT ![p].phase = "chown"] /\ command[p].todo = {}
      BY <1>1, <1>4 DEF WriteSecret, Goes, To, At
    <2>4. "chown" \in Phases /\ secret'.key # None
      BY <2>1, <2>2 DEF Phases, None
    <2> QED BY <2>2, <2>3, <2>4, PhaseKeeps, NextTypeOK
  <1>5. CASE ChownSecret(p)
    <2>1. HostOK' /\ config' = config /\ secret'.key = secret.key
      BY <1>5 DEF ChownSecret, TypeOK, HostOK, Secret
    <2>2. command' = [command EXCEPT ![p].phase = "fetch", ![p].todo = Cfg(p).enabled]
      BY <1>5 DEF ChownSecret
    <2>3. secret.key # None \/ ~command[p].install
      BY <1>1, <1>5 DEF ChownSecret, At, Carries
    <2> QED BY <1>1, <2>1, <2>2, <2>3, TodoKeeps, NextTypeOK
  <1> QED BY <1>2, <1>3, <1>4, <1>5

LEMMA TypeFiles ==
    ASSUME TypeOK, NEW p \in Commands,
           Fetch(p) \/ WriteTarget(p) \/ WriteUnits(p) \/ WriteEnv(p) \/ SetGeneratedOwnership(p)
    PROVE  TypeOK'
  <1>1. /\ command[p] \in Command /\ Carries(command[p], config.version, secret.key)
        /\ command[p].phase \notin {"fetch", "units"} => command[p].todo = {}
        /\ Cfg(p).enabled \subseteq Containers /\ Cfg(p).version \in Versions
    BY Carried
  <1>2. secret.key # None \/ ~command[p].install \/ command[p].phase \in {"stat", "create"}
    BY <1>1 DEF Carries
  <1>3. config' = config /\ secret' = secret
    BY DEF Fetch, WriteTarget, WriteUnits, WriteEnv, SetGeneratedOwnership
  <1>4. CASE Fetch(p)
    <2>1. HostOK'
      BY <1>1, <1>4 DEF Fetch, TypeOK, HostOK, Command
    <2>2. At(p, "fetch") /\ (secret'.key # None \/ ~command[p].install)
      BY <1>2, <1>3, <1>4 DEF Fetch, At
    <2>3. CASE \E c \in command[p].todo : command' = [command EXCEPT ![p].todo = @ \ {c}]
      <3>1. PICK c \in command[p].todo :
              command' = [command EXCEPT ![p].todo = command[p].todo \ {c}]
        BY <2>3
      <3>2. command' = [command EXCEPT ![p].phase = "fetch", ![p].todo = command[p].todo \ {c}]
        BY <1>1, <2>2, <3>1 DEF At, TypeOK, Command
      <3>3. command[p].todo \ {c} \in SUBSET Containers
        BY <1>1 DEF Command
      <3> QED BY <1>3, <2>1, <2>2, <3>2, <3>3, TodoKeeps, NextTypeOK
    <2>4. CASE command[p].todo = {} /\ Goes(p, "target")
      <3>1. command' = [command EXCEPT ![p].phase = "target"] /\ "target" \in Phases
        BY <2>4 DEF Goes, To, Phases
      <3> QED BY <1>3, <2>1, <2>2, <2>4, <3>1, PhaseKeeps, NextTypeOK
    <2> QED BY <1>4, <2>3, <2>4 DEF Fetch
  <1>5. CASE WriteTarget(p)
    <2>1. HostOK'
      BY <1>1, <1>5 DEF WriteTarget, TypeOK, HostOK, Disk
    <2>2. command' = [command EXCEPT ![p].phase = "units", ![p].todo = Containers]
      BY <1>5 DEF WriteTarget
    <2>3. secret'.key # None \/ ~command[p].install
      BY <1>2, <1>3, <1>5 DEF WriteTarget, At
    <2> QED BY <1>3, <2>1, <2>2, <2>3, TodoKeeps, NextTypeOK
  <1>6. CASE WriteUnits(p)
    <2>1. HostOK'
      <3>1. disk' \in Disk
        <4>1. CASE disk' = disk
          BY <4>1 DEF TypeOK
        <4>2. CASE \E c \in command[p].todo : disk' = [disk EXCEPT !.units[c] = Cfg(p).version]
          BY <1>1, <4>2 DEF TypeOK, Disk, Command
        <4> QED BY <1>6, <4>1, <4>2 DEF WriteUnits
      <3> QED BY <1>6, <3>1 DEF WriteUnits, TypeOK, HostOK
    <2>2. At(p, "units") /\ (secret'.key # None \/ ~command[p].install)
      BY <1>2, <1>3, <1>6 DEF WriteUnits, At
    <2>3. CASE \E c \in command[p].todo : command' = [command EXCEPT ![p].todo = @ \ {c}]
      <3>1. PICK c \in command[p].todo :
              command' = [command EXCEPT ![p].todo = command[p].todo \ {c}]
        BY <2>3
      <3>2. command' = [command EXCEPT ![p].phase = "units", ![p].todo = command[p].todo \ {c}]
        BY <1>1, <2>2, <3>1 DEF At, TypeOK, Command
      <3>3. command[p].todo \ {c} \in SUBSET Containers
        BY <1>1 DEF Command
      <3> QED BY <1>3, <2>1, <2>2, <3>2, <3>3, TodoKeeps, NextTypeOK
    <2>4. CASE command[p].todo = {} /\ Goes(p, "env")
      <3>1. command' = [command EXCEPT ![p].phase = "env"] /\ "env" \in Phases
        BY <2>4 DEF Goes, To, Phases
      <3> QED BY <1>3, <2>1, <2>2, <2>4, <3>1, PhaseKeeps, NextTypeOK
    <2> QED BY <1>6, <2>3, <2>4 DEF WriteUnits
  <1>7. CASE WriteEnv(p)
    <2>1. HostOK'
      BY <1>7 DEF WriteEnv, TypeOK, HostOK, Disk, Secret
    <2>2. command' = [command EXCEPT ![p].phase = "own"] /\ "own" \in Phases
          /\ command[p].todo = {} /\ secret'.key # None
      BY <1>1, <1>3, <1>7 DEF WriteEnv, Goes, To, Phases, At
    <2> QED BY <1>3, <2>1, <2>2, PhaseKeeps, NextTypeOK
  <1>8. CASE SetGeneratedOwnership(p)
    <2>1. HostOK'
      BY <1>8 DEF SetGeneratedOwnership, TypeOK, HostOK, Disk
    <2>2. command' = [command EXCEPT ![p].phase = "reload"] /\ "reload" \in Phases
          /\ command[p].todo = {} /\ (secret'.key # None \/ ~command[p].install)
      BY <1>1, <1>2, <1>3, <1>8 DEF SetGeneratedOwnership, Goes, To, Phases, At
    <2> QED BY <1>3, <2>1, <2>2, PhaseKeeps, NextTypeOK
  <1> QED BY <1>4, <1>5, <1>6, <1>7, <1>8

\* What starting the target leaves running.
LEMMA StartedOK == TypeOK => Started \in [Containers -> Versions \union {None}]
  BY DEF TypeOK, Started, Loaded

LEMMA TypeSystemd ==
    ASSUME TypeOK, NEW p \in Commands, Reload(p) \/ Enable(p) \/ Ends(p)
    PROVE  TypeOK'
  <1>1. /\ command[p] \in Command /\ Carries(command[p], config.version, secret.key)
        /\ command[p].phase \notin {"fetch", "units"} => command[p].todo = {}
    BY Carried
  <1>2. config' = config /\ secret' = secret
    BY DEF Reload, Enable, Ends, host
  <1>3. HostOK'
    <2>1. CASE Reload(p)
      BY <2>1 DEF Reload, TypeOK, HostOK, Disk, Loaded
    <2>2. CASE Enable(p)
      BY <2>2, StartedOK DEF Enable, TypeOK, HostOK
    <2>3. CASE Ends(p)
      BY <2>3 DEF Ends, host, TypeOK, HostOK
    <2> QED BY <2>1, <2>2, <2>3
  <1>4. CASE Over(p)
    BY <1>2, <1>3, <1>4, TypeOver, NextTypeOK
  <1>5. CASE Reload(p) /\ command[p].install
    <2>1. command' = [command EXCEPT ![p].phase = "enable"] /\ "enable" \in Phases
          /\ command[p].todo = {} /\ secret'.key # None
      BY <1>1, <1>2, <1>5 DEF Reload, Goes, To, Phases, At, Carries
    <2> QED BY <1>2, <1>3, <2>1, PhaseKeeps, NextTypeOK
  <1> QED BY <1>4, <1>5 DEF Reload, Enable, Ends

LEMMA TypeOthers ==
    ASSUME TypeOK, RestartTarget \/ (\E c \in Containers : Stop(c)) \/ Edit \/ UNCHANGED vars
    PROVE  TypeOK'
  <1>1. command' = command /\ secret' = secret
    BY DEF RestartTarget, Stop, Edit, vars
  <1>2. HostOK' /\ config.version <= config'.version
    <2>1. CASE Edit
      BY <2>1, InstallationAssumption DEF Edit, TypeOK, HostOK, Config, Versions
    <2>2. CASE RestartTarget \/ (\E c \in Containers : Stop(c)) \/ UNCHANGED vars
      BY <2>2, StartedOK DEF RestartTarget, Stop, vars, TypeOK, HostOK, Config, Versions
    <2> QED BY <2>1, <2>2
  <1>3. ASSUME NEW q \in Commands
        PROVE  Carries(command[q], config'.version, secret.key)
    <2>1. /\ command[q].config.version \in Int
          /\ Carries(command[q], config.version, secret.key)
      BY Carried DEF Command, Config, Versions
    <2>2. config.version \in Int /\ config'.version \in Int
      BY <1>2 DEF TypeOK, HostOK, Config, Versions
    <2> QED BY <1>2, <2>1, <2>2 DEF Carries
  <1> QED BY <1>1, <1>2, <1>3, NextTypeOK DEF TypeOK

LEMMA TypeStep == TypeOK /\ [Next]_vars => TypeOK'
  BY TypeBegin, TypeSecret, TypeFiles, TypeSystemd, TypeOthers DEF Next, Install

-----------------------------------------------------------------------------
(* Who steps, and what the others do meanwhile: nothing. *)

\* A step of a command that has begun moves that command only.
LEMMA OneMoves ==
    ASSUME TypeOK, NEW p \in Commands, Install(p) \/ Ends(p)
    PROVE  /\ ~At(p, "none")
           /\ \A q \in Commands \ {p} : command'[q] = command[q]
  BY DEF TypeOK, Install, Ends, Stat, CreateSecret, WriteSecret, ChownSecret, Fetch,
     WriteTarget, WriteUnits, WriteEnv, SetGeneratedOwnership, Reload, Enable,
     Over, Goes, To, At

LEMMA StepCases ==
    ASSUME [Next]_vars
    PROVE  \/ \E p \in Commands : Begin(p, TRUE) \/ Begin(p, FALSE)
           \/ \E p \in Commands : Install(p) \/ Ends(p)
           \/ UNCHANGED <<command, disk, secret>>
  BY DEF Next, RestartTarget, Stop, Edit, vars

\* What a command looks like that begins, and the others.
LEMMA Beginning ==
    ASSUME TypeOK, NEW p \in Commands, NEW install \in BOOLEAN, Begin(p, install)
    PROVE  /\ command'[p].phase \in {"stat", "target"}
           /\ command'[p].alone => \A q \in Commands \ {p} : command[q].phase = "none"
           /\ \A q \in Commands \ {p} :
                command'[q].phase = command[q].phase /\ command'[q].seen = command[q].seen
                /\ command'[q].alone = FALSE
  <1> DEFINE others == \E q \in Commands \ {p} : ~At(q, "none")
  <1> DEFINE start == [NoCommand EXCEPT !.phase = IF install THEN "stat" ELSE "target",
                                        !.install = install, !.config = config, !.alone = ~others]
  <1>1. command' = [q \in Commands |-> IF q = p THEN start ELSE [command[q] EXCEPT !.alone = FALSE]]
    BY DEF Begin
  <1>2. start.phase \in {"stat", "target"} /\ (start.alone <=> ~others)
    <2> HIDE DEF others
    <2> QED BY DEF NoCommand
  <1>3. \A q \in Commands : command[q] \in Command
    BY Carried
  <1> HIDE DEF start
  <1>4. command'[p] = start
    BY <1>1
  <1>5. ASSUME NEW q \in Commands \ {p}
        PROVE  /\ command'[q].phase = command[q].phase /\ command'[q].seen = command[q].seen
               /\ command'[q].alone = FALSE
    BY <1>1, <1>3 DEF Command
  <1> QED BY <1>2, <1>4, <1>5 DEF At

\* What the steps of a command do to its own record.
LEMMA OwnStep ==
    ASSUME TypeOK, NEW p \in Commands, Install(p) \/ Ends(p)
    PROVE  \/ command'[p] = NoCommand
           \/ /\ command'[p].alone = command[p].alone /\ command'[p].config = command[p].config
              /\ command'[p].seen = IF Stat(p) THEN secret.key ELSE command[p].seen
              /\ command'[p].phase \in {"create", "write"} =>
                    \/ Stat(p) /\ secret.key = None
                    \/ CreateSecret(p)
  <1>1. command[p] \in Command
    BY Carried
  <1>2. CASE Stat(p)
    BY <1>1, <1>2 DEF Stat, TypeOK, Command
  <1>3. CASE ~Stat(p) /\ (CreateSecret(p) \/ WriteSecret(p) \/ ChownSecret(p))
    BY <1>1, <1>3 DEF CreateSecret, WriteSecret, ChownSecret, Goes, To, TypeOK, Command
  <1>4. CASE ~Stat(p) /\ (Fetch(p) \/ WriteUnits(p))
    BY <1>1, <1>4 DEF Fetch, WriteUnits, Goes, To, At, TypeOK, Command
  <1>5. CASE ~Stat(p) /\ (WriteTarget(p) \/ WriteEnv(p) \/ SetGeneratedOwnership(p) \/ Reload(p))
    BY <1>1, <1>5 DEF WriteTarget, WriteEnv, SetGeneratedOwnership, Reload, Goes, To, Over, TypeOK, Command
  <1>6. CASE Enable(p) \/ Ends(p)
    BY <1>6 DEF Enable, Ends, Over, TypeOK
  <1> QED BY <1>2, <1>3, <1>4, <1>5, <1>6 DEF Install

-----------------------------------------------------------------------------
(* The three parts of the invariant. *)

LEMMA WritersStep == IInv /\ [Next]_vars => WritersSawNone'
  <1> SUFFICES ASSUME IInv, [Next]_vars, NEW q \in Commands,
                      command'[q].phase \in {"create", "write"}
               PROVE  command'[q].seen = None
    BY DEF WritersSawNone
  <1> USE DEF IInv
  <1>1. CASE \E p \in Commands : Begin(p, TRUE) \/ Begin(p, FALSE)
    <2>1. PICK p \in Commands, install \in BOOLEAN : Begin(p, install)
      BY <1>1
    <2> QED BY <2>1, Beginning DEF WritersSawNone
  <1>2. CASE \E p \in Commands : Install(p) \/ Ends(p)
    <2>1. PICK p \in Commands : Install(p) \/ Ends(p)
      BY <1>2
    <2>2. CASE q # p
      BY <2>1, <2>2, OneMoves DEF WritersSawNone
    <2>3. CASE q = p
      <3>1. command'[p] # NoCommand
        BY <2>3 DEF NoCommand
      <3>2. CASE Stat(p)
        BY <2>1, <2>3, <3>1, <3>2, OwnStep DEF CreateSecret, Stat, At
      <3>3. CASE ~Stat(p)
        BY <2>1, <2>3, <3>1, <3>3, OwnStep DEF CreateSecret, At, WritersSawNone
      <3> QED BY <3>2, <3>3
    <2> QED BY <2>2, <2>3
  <1>3. CASE UNCHANGED <<command, disk, secret>>
    BY <1>3 DEF WritersSawNone
  <1> QED BY <1>1, <1>2, <1>3, StepCases

LEMMA AloneStep == IInv /\ [Next]_vars => AloneMeansAlone'
  <1> SUFFICES ASSUME IInv, [Next]_vars, NEW r \in Commands, NEW q \in Commands,
                      command'[r].alone, q # r
               PROVE  command'[q].phase = "none"
    BY DEF AloneMeansAlone, At
  <1> USE DEF IInv
  <1>1. CASE \E p \in Commands : Begin(p, TRUE) \/ Begin(p, FALSE)
    <2>1. PICK p \in Commands, install \in BOOLEAN : Begin(p, install)
      BY <1>1
    <2>2. r = p
      BY <2>1, Beginning
    <2> QED BY <2>1, <2>2, Beginning
  <1>2. CASE \E p \in Commands : Install(p) \/ Ends(p)
    <2>1. PICK p \in Commands : Install(p) \/ Ends(p)
      BY <1>2
    <2>2. command[r].alone
      BY <2>1, OneMoves, OwnStep DEF NoCommand
    <2>3. r = p
      BY <2>1, <2>2, OneMoves DEF AloneMeansAlone
    <2> QED BY <2>1, <2>2, <2>3, OneMoves DEF AloneMeansAlone, At
  <1>3. CASE UNCHANGED <<command, disk, secret>>
    BY <1>3 DEF AloneMeansAlone, At
  <1> QED BY <1>1, <1>2, <1>3, StepCases

LEMMA CourseStep == IInv /\ [Next]_vars => AloneIsOnCourse'
  <1> SUFFICES ASSUME IInv, [Next]_vars, NEW q \in Commands, command'[q].alone
               PROVE  Written(q)'
    BY DEF AloneIsOnCourse
  <1> USE DEF IInv
  <1>1. CASE \E p \in Commands : Begin(p, TRUE) \/ Begin(p, FALSE)
    <2>1. PICK p \in Commands, install \in BOOLEAN : Begin(p, install)
      BY <1>1
    <2>2. command'[q].phase \in {"stat", "target"}
      BY <2>1, Beginning
    <2> QED BY <2>2 DEF Written, TargetWritten, UnitsWritten, EnvWritten, OwnerIsSet
  <1>2. CASE \E p \in Commands : Install(p) \/ Ends(p)
    <2>1. PICK p \in Commands : Install(p) \/ Ends(p)
      BY <1>2
    <2>2. command[q].alone /\ q = p
      <3>1. command[q].alone
        BY <2>1, OneMoves, OwnStep DEF NoCommand
      <3> QED BY <2>1, <3>1, OneMoves DEF AloneMeansAlone
    <2>3. Written(p) /\ command[p] \in Command
      BY <2>2, Carried DEF AloneIsOnCourse
    <2>4. Cfg(p)' = Cfg(p)
      BY <2>1, <2>2, OwnStep DEF NoCommand, Cfg
    <2> USE DEF Written, TargetWritten, UnitsWritten, EnvWritten, OwnerIsSet, At
    <2>5. CASE Stat(p) \/ CreateSecret(p) \/ WriteSecret(p) \/ ChownSecret(p) \/ Fetch(p)
      <3>1. command'[p].phase \in {"create", "write", "chown", "fetch", "target"}
        BY <2>3, <2>5 DEF Stat, CreateSecret, WriteSecret, ChownSecret, Fetch, Goes, To, TypeOK, Command
      <3> QED BY <2>2, <3>1
    <2>6. CASE WriteTarget(p)
      <3>1. command'[p].phase = "units" /\ command'[p].todo = Containers
        BY <2>3, <2>6 DEF WriteTarget, TypeOK, Command
      <3>2. disk'.target = Cfg(p).enabled
        BY <2>6 DEF WriteTarget, TypeOK, Disk
      <3> QED BY <2>2, <2>4, <3>1, <3>2
    <2>7. CASE WriteUnits(p)
      <3>1. CASE command[p].todo = {} /\ Goes(p, "env") /\ UNCHANGED disk
        <4>1. command'[p].phase = "env"
          BY <2>3, <3>1 DEF Goes, To, TypeOK, Command
        <4> QED BY <2>2, <2>3, <2>4, <2>7, <3>1, <4>1 DEF WriteUnits
      <3>2. CASE \E c \in command[p].todo :
                    /\ disk' = [disk EXCEPT !.units[c] = Cfg(p).version]
                    /\ command' = [command EXCEPT ![p].todo = @ \ {c}]
        <4>1. PICK c \in command[p].todo :
                /\ disk' = [disk EXCEPT !.units[c] = Cfg(p).version]
                /\ command' = [command EXCEPT ![p].todo = @ \ {c}]
          BY <3>2
        <4>2. command'[p].phase = "units" /\ command'[p].todo = command[p].todo \ {c}
          BY <2>3, <2>7, <4>1 DEF WriteUnits, TypeOK, Command
        <4>3. /\ disk'.target = disk.target
              /\ \A d \in Containers : disk'.units[d] = IF d = c THEN Cfg(p).version ELSE disk.units[d]
          BY <2>3, <4>1 DEF TypeOK, Disk, Command
        <4>4. command[p].phase = "units"
          BY <2>7 DEF WriteUnits
        <4> QED BY <2>2, <2>3, <2>4, <4>2, <4>3, <4>4
      <3> QED BY <2>7, <3>1, <3>2 DEF WriteUnits
    <2>8. CASE WriteEnv(p)
      <3>1. command[p].phase = "env" /\ command'[p].phase = "own" /\ secret' = secret
        BY <2>3, <2>8 DEF WriteEnv, Goes, To, TypeOK, Command
      <3>2. disk'.target = disk.target /\ disk'.units = disk.units /\ disk'.env = secret.key
        BY <2>8 DEF WriteEnv, TypeOK, Disk
      <3> QED BY <2>2, <2>3, <2>4, <3>1, <3>2
    <2>9. CASE SetGeneratedOwnership(p)
      <3>1. command[p].phase = "own" /\ command'[p].phase = "reload" /\ secret' = secret
        BY <2>3, <2>9 DEF SetGeneratedOwnership, Goes, To, TypeOK, Command
      <3>2. /\ disk'.target = disk.target /\ disk'.units = disk.units /\ disk'.env = disk.env
            /\ disk'.owner = "service"
        BY <2>9 DEF SetGeneratedOwnership, TypeOK, Disk
      <3> QED BY <2>2, <2>3, <2>4, <3>1, <3>2
    <2>10. CASE Reload(p) \/ Enable(p) \/ Ends(p)
      <3>1. command'[p].phase \in {"none", "enable"}
        BY <2>3, <2>10 DEF Reload, Enable, Ends, Goes, To, Over, NoCommand, TypeOK, Command
      <3> QED BY <2>2, <3>1
    <2> QED BY <2>1, <2>5, <2>6, <2>7, <2>8, <2>9, <2>10 DEF Install
  <1>3. CASE UNCHANGED <<command, disk, secret>>
    BY <1>3 DEF AloneIsOnCourse, Written, TargetWritten, UnitsWritten, EnvWritten, OwnerIsSet, Cfg
  <1> QED BY <1>1, <1>2, <1>3, StepCases

-----------------------------------------------------------------------------
(* The theorems. *)

LEMMA InitIInv == Init => IInv
  <1>1. Init => WritersSawNone /\ AloneMeansAlone /\ AloneIsOnCourse
    BY DEF Init, NoCommand, WritersSawNone, AloneMeansAlone, AloneIsOnCourse
  <1> QED BY <1>1, TypeInit DEF IInv

LEMMA StepIInv == IInv /\ [Next]_vars => IInv'
  BY TypeStep, WritersStep, AloneStep, CourseStep DEF IInv

\* Every reachable state satisfies the inductive invariant.
THEOREM InstallationInvariance == Spec => []IInv
  BY InitIInv, StepIInv, PTL DEF Spec

\* Every variable keeps its type, and a command that got past the secrets finds them there.
THEOREM InstallationTypeCorrect == Spec => []TypeOK
  BY InstallationInvariance, PTL DEF IInv

\* A secret that services may hold is replaced by nobody who saw it: repeated,
\* interrupted and concurrent installs included.
THEOREM SecretsAreKept == Spec => SecretIsKept
  <1> DEFINE Keeps == secret.key \in 1..MaxKeys /\ secret'.key # secret.key =>
                        \E p \in Commands :
                            command[p].phase \in {"create", "write"} /\ command[p].seen # secret.key
  <1>1. IInv /\ [Next]_vars => [Keeps]_vars
    <2> SUFFICES ASSUME IInv, [Next]_vars, secret.key \in 1..MaxKeys, secret'.key # secret.key
                 PROVE  \E p \in Commands :
                            command[p].phase \in {"create", "write"} /\ command[p].seen # secret.key
      OBVIOUS
    <2>1. PICK p \in Commands : Install(p) \/ Ends(p)
      BY StepCases DEF Begin, host
    <2>2. CreateSecret(p) \/ WriteSecret(p)
      BY <2>1 DEF IInv, TypeOK, Secret, Install, Ends, host, Stat, ChownSecret, Fetch, WriteTarget,
         WriteUnits, WriteEnv, SetGeneratedOwnership, Reload, Enable
    <2>3. command[p].phase \in {"create", "write"} /\ command[p].seen = None
      BY <2>2 DEF CreateSecret, WriteSecret, At, IInv, WritersSawNone
    <2> QED BY <2>3, InstallationAssumption DEF None
  <1> QED BY <1>1, InstallationInvariance, PTL DEF Spec, SecretIsKept

\* A command that ran alone and succeeded has made the files, their owner and
\* systemd's view what its configuration says, with the key of the secret file in them,
\* whatever was left by others.
THEOREM AloneIsCompleted == Spec => AloneIsComplete
  <1> DEFINE Completes ==
        \A p \in Commands :
            (Reload(p) /\ command[p].alone) =>
                /\ loaded' = [target |-> Cfg(p).enabled,
                              units |-> [c \in Containers |-> Cfg(p).version]]
                /\ disk.env = secret.key /\ disk.owner = "service"
  <1>1. IInv /\ [Next]_vars => [Completes]_vars
    <2> SUFFICES ASSUME IInv, NEW p \in Commands, Reload(p), command[p].alone
                 PROVE  /\ loaded' = [target |-> Cfg(p).enabled,
                                      units |-> [c \in Containers |-> Cfg(p).version]]
                        /\ disk.env = secret.key /\ disk.owner = "service"
      OBVIOUS
    <2>1. command[p].phase = "reload" /\ Written(p)
      BY DEF Reload, At, IInv, AloneIsOnCourse
    <2>2. /\ disk.target = Cfg(p).enabled /\ disk.env = secret.key /\ disk.owner = "service"
          /\ \A c \in Containers : disk.units[c] = Cfg(p).version
      BY <2>1 DEF Written, TargetWritten, UnitsWritten, EnvWritten, OwnerIsSet
    <2>3. disk.units = [c \in Containers |-> Cfg(p).version]
      BY <2>2 DEF IInv, TypeOK, Disk
    <2> QED BY <2>2, <2>3 DEF Reload
  <1> QED BY <1>1, InstallationInvariance, PTL DEF Spec, AloneIsComplete
=================================================================================
