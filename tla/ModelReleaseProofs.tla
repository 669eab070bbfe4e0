------------------------- MODULE ModelReleaseProofs -------------------------
(***************************************************************************)
(* Proofs about ModelRelease, for any number of terminals, run names,      *)
(* trainings and deployments: a release stands once it is there, what is   *)
(* released was trained and has passed, and what the machine's pointers    *)
(* lead to is one whole release.                                           *)
(***************************************************************************)
EXTENDS ModelRelease, TLAPS

-----------------------------------------------------------------------------
(* Types.                                                                  *)

TrainingPC  == {"preflight", "prepare", "begin", "train", "export", "ablate", "new_deploy"}
DeployingPC == {"require", "mkdir", "upload", "install", "cleanup", "unlink", "rmdir",
                "announce"}
BenchPC     == {"bench", "bench_meta"}
PC          == {"idle", "use", "activate"} \cup TrainingPC \cup DeployingPC \cup BenchPC

InstallPrograms    == {<<"unpack", "absent", "mv">>, <<"absent", "mv">>, <<"mv">>}
ActivationPrograms == {<<"current", "onnx", "manifest">>, <<"onnx", "manifest">>,
                       <<"manifest">>}

Name     == Names \cup {None}
Note     == [by : 0 .. MaxDeploys, status : {None, "prepared", "deployed"}]
RunDir   == [status : {None, "running", "completed", "failed"},
             pt : Nat, onnx : Nat, meta : Nat, note : Note]
Package  == [name : Name, at : {None, "stage", "release", "nested"},
             pt : Nat, onnx : Nat, meta : Nat, note : Note]
Pointer  == [current : Name, status : {None, "prepared", "deployed"},
             onnx : Name, manifest : Name]
Command  == [pc : PC, cmd : {None, "train", "train_deploy", "deploy", "use", "bench"},
             name : Name, gen : Nat, d : 0 .. MaxDeploys, overwrite : BOOLEAN,
             activate : BOOLEAN, saw : Name]
ScriptOf == [prog : {<<>>} \cup InstallPrograms \cup ActivationPrograms,
             name : Name, d : 0 .. MaxDeploys, result : {None, "ok", "failed"}]
History  == [passed : SUBSET Nat, trained : SUBSET Names, raced : BOOLEAN,
             shared : BOOLEAN, bench : SUBSET (Name \X Name \X Name),
             own : SUBSET ((1 .. MaxDeploys) \X Nat)]

TypeOK ==
    /\ run \in [Names -> RunDir]
    /\ pkg \in [Deploys -> Package]
    /\ pointer \in Pointer
    /\ op \in [Clients -> Command]
    /\ sh \in [Clients -> ScriptOf]
    /\ orphan \in ScriptOf
    /\ count \in [training : Nat, deploy : 0 .. MaxDeploys, extra : Nat, lost : Nat]
    /\ hist \in History

-----------------------------------------------------------------------------
(* The inductive invariant, in parts.                                      *)

\* What the position of a command says of its fields.
CommandSound(x) ==
    /\ x.pc = "idle" => x = Idle
    /\ x.pc # "idle" => x.name \in Names
    /\ x.pc \in TrainingPC => x.d = 0 /\ x.gen # 0 /\ x.cmd \in {"train", "train_deploy"}
    /\ x.pc = "new_deploy" => x.cmd = "train_deploy"
    /\ x.pc \in DeployingPC => x.d # 0 /\ x.cmd \in {"deploy", "train_deploy"}
    /\ x.pc = "activate" => x.cmd \in {"deploy", "train_deploy", "use"}
    /\ x.pc = "use" => x.d = 0 /\ x.cmd = "use"
    /\ x.pc \in BenchPC => x.d = 0 /\ x.cmd = "bench"
    /\ x.d =< count.deploy

\* A deployment belongs to one command.
CommandInv ==
    /\ \A c \in Clients : CommandSound(op[c])
    /\ \A b, c \in Clients : op[b].d = op[c].d /\ op[b].d # 0 => b = c

\* A client has a remote script while it waits for one, and it is the one it waits for.
ScriptInv ==
    \A c \in Clients :
        /\ op[c].pc \notin {"install", "activate"} => sh[c] = NoScript
        /\ op[c].pc = "install" =>
              /\ sh[c].prog \in InstallPrograms \cup {<<>>}
              /\ sh[c].d = op[c].d /\ sh[c].name = op[c].name
        /\ op[c].pc = "activate" =>
              sh[c].prog \in ActivationPrograms \cup {<<>>} /\ sh[c].name = op[c].name
        /\ sh[c].prog # <<>> => sh[c].result = None
        /\ op[c].pc \in {"install", "activate"} /\ sh[c].prog = <<>> => sh[c].result # None

\* The deployment of a script nobody waits for is given up, if it is anyone's.
OrphanInv ==
    orphan.prog \in InstallPrograms =>
        /\ orphan.d # 0 /\ orphan.d =< count.deploy
        /\ \A c \in Clients : op[c].d = orphan.d => op[c].pc \in {"cleanup", "unlink", "rmdir"}

\* An install script moves the directory of its own name.
MovesItsOwn(s) ==
    s.prog \in InstallPrograms /\ pkg[s.d].at # None => pkg[s.d].name = s.name

PackageInv ==
    /\ \A d \in Deploys : d > count.deploy => pkg[d] = NoPackage
    /\ \A c \in Clients :
          /\ op[c].pc \in {"require", "mkdir"} => pkg[op[c].d] = NoPackage
          /\ op[c].pc = "upload" =>
                pkg[op[c].d] = [NoPackage EXCEPT !.name = op[c].name, !.at = "stage"]
          /\ MovesItsOwn(sh[c])
    /\ MovesItsOwn(orphan)

\* A name is released once.
OneReleasePerName ==
    \A d, e \in Deploys :
        pkg[d].at = "release" /\ pkg[e].at = "release" /\ pkg[d].name = pkg[e].name => d = e

StructureInv ==
    TypeOK /\ CommandInv /\ ScriptInv /\ OrphanInv /\ PackageInv /\ OneReleasePerName

(* While no connection was lost.                                           *)

\* Where the directory of a deployment is at each position of its command.
Placed(x, s, p) ==
    /\ x.pc \in {"cleanup", "unlink", "rmdir"} => p.at = "stage"
    /\ x.pc = "install" =>
          /\ s.prog # <<>> \/ s.result = "failed" => p.at = "stage"
          /\ s.prog \in {<<"absent", "mv">>, <<"mv">>} => p.onnx # 0 /\ p.meta # 0
          /\ s.result = "ok" => p.at \in {"release", "nested"}
    /\ x.pc \in {"announce", "activate"} /\ x.d # 0 => p.at \in {"release", "nested"}

\* Nothing is left of a failed deployment, and what is released is whole.
StageOwned(d)   == pkg[d].at = "stage" => \E c \in Clients : op[c].d = d
ReleaseWhole(d) == pkg[d].at = "release" => pkg[d].onnx # 0 /\ pkg[d].meta # 0

Uncut ==
    /\ orphan.prog = <<>>
    /\ \A c \in Clients : Placed(op[c], sh[c], pkg[op[c].d])
    /\ \A d \in Deploys : StageOwned(d) /\ ReleaseWhole(d)

UncutInv == count.lost = 0 => Uncut

\* What a pointer names has been released, and so has what a script will link.
IsReleased(n) == \E d \in Deploys : pkg[d].name = n /\ pkg[d].at = "release"

Links(s) == s.prog \in {<<"onnx", "manifest">>, <<"manifest">>}

PointerInv ==
    /\ \A n \in {pointer.current, pointer.onnx, pointer.manifest} \ {None} : IsReleased(n)
    /\ \A c \in Clients : Links(sh[c]) => IsReleased(sh[c].name)
    /\ Links(orphan) => IsReleased(orphan.name)

(* While no activation was cut or raced.                                   *)

AllName(n) == pointer.current = n /\ pointer.onnx = n /\ pointer.manifest = n

\* How far the pointers have got at each position of an activation.
PointersFollow(s) ==
    /\ s.prog = <<"current", "onnx", "manifest">> => AllName(pointer.current)
    /\ s.prog = <<"onnx", "manifest">> =>
          pointer.current = s.name /\ pointer.onnx = pointer.manifest
    /\ s.prog = <<"manifest">> => pointer.current = s.name /\ pointer.onnx = s.name

\* A benchmark runs while the pointers stand still.
Benched(x) ==
    x.cmd = "bench" => /\ Activating = {} /\ AllName(x.name)
                       /\ x.pc = "bench_meta" => x.saw = x.name

Unraced ==
    /\ \A b, c \in Activating : b = c
    /\ Activating = {} => AllName(pointer.current)
    /\ \A c \in Activating : PointersFollow(sh[c])
    /\ \A c \in Clients : Benched(op[c])
    /\ \A b \in hist.bench : b[1] = b[2] /\ b[2] = b[3]

RaceInv == (~hist.raced /\ count.lost = 0) => Unraced

(* While nobody trains into the directory of somebody else.                *)

\* The directory of its name is the command's own.
Owns(x) ==
    /\ x.cmd \in {"train", "train_deploy"}
    /\ x.pc \in {"train", "export", "ablate", "new_deploy", "require", "mkdir", "upload"}

Whole(r, gen) == r.pt = gen /\ r.onnx = gen /\ r.meta = gen

\* train-deploy-model remembers its training and its deployment.
NumbersKept(x, o) == x.d = o[1] => x.gen = o[2] /\ x.cmd = "train_deploy"

OwnNumbers ==
    \A o \in hist.own :
        /\ o[1] =< count.deploy
        /\ \A p \in hist.own : p[1] = o[1] => p[2] = o[2]
        /\ \A c \in Clients : NumbersKept(op[c], o)

\* What the directory of an owner holds by now.
OwnerSound(x) ==
    Owns(x) =>
        /\ x.name \in hist.trained
        /\ x.pc = "export" => run[x.name].pt = x.gen
        /\ x.pc \notin {"train", "export"} => Whole(run[x.name], x.gen)
        /\ x.pc \notin {"train", "export", "ablate"} => x.gen \in hist.passed

Unshared ==
    /\ \A c \in Clients : OwnerSound(op[c])
    /\ \A b, c \in Clients :
          Owns(op[b]) /\ Owns(op[c]) /\ op[b].name = op[c].name => b = c
    /\ \A o \in hist.own :
          pkg[o[1]].onnx # 0 => Whole(pkg[o[1]], o[2]) /\ o[2] \in hist.passed

OwnInv == ~hist.shared => Unshared

ReleaseInv ==
    StructureInv /\ UncutInv /\ PointerInv /\ RaceInv /\ OwnNumbers /\ OwnInv

-----------------------------------------------------------------------------
(* What the operators of the specification do.                             *)

\* The programs, command by command.
LEMMA Programs ==
  /\ Head(<<"unpack", "absent", "mv">>) = "unpack" /\ Len(<<"unpack", "absent", "mv">>) = 3
  /\ Tail(<<"unpack", "absent", "mv">>) = <<"absent", "mv">>
  /\ Head(<<"absent", "mv">>) = "absent" /\ Len(<<"absent", "mv">>) = 2
  /\ Tail(<<"absent", "mv">>) = <<"mv">>
  /\ Head(<<"mv">>) = "mv" /\ Len(<<"mv">>) = 1 /\ Tail(<<"mv">>) = <<>>
  /\ Head(<<"current", "onnx", "manifest">>) = "current"
  /\ Len(<<"current", "onnx", "manifest">>) = 3
  /\ Tail(<<"current", "onnx", "manifest">>) = <<"onnx", "manifest">>
  /\ Head(<<"onnx", "manifest">>) = "onnx" /\ Len(<<"onnx", "manifest">>) = 2
  /\ Tail(<<"onnx", "manifest">>) = <<"manifest">>
  /\ Head(<<"manifest">>) = "manifest" /\ Len(<<"manifest">>) = 1
  /\ Tail(<<"manifest">>) = <<>>
OBVIOUS

\* The programs differ by their length and first command.
LEMMA ProgramsDiffer ==
  /\ <<>> \notin InstallPrograms \cup ActivationPrograms
  /\ InstallPrograms \cap ActivationPrograms = {}
BY Programs DEF InstallPrograms, ActivationPrograms

\* A program less its first command is empty after its last one, and else of its kind.
LEMMA ProgramSteps ==
  /\ \A p \in InstallPrograms : Tail(p) \in {<<>>} \cup InstallPrograms
  /\ \A p \in ActivationPrograms : Tail(p) \in {<<>>} \cup ActivationPrograms
  /\ \A p \in InstallPrograms \cup ActivationPrograms : Len(p) = 1 <=> Tail(p) = <<>>
<1>1. ASSUME NEW p \in InstallPrograms
      PROVE  Tail(p) \in {<<>>} \cup InstallPrograms /\ (Len(p) = 1 <=> Tail(p) = <<>>)
  <2>1. CASE p = <<"unpack", "absent", "mv">>
    BY <2>1, Programs DEF InstallPrograms
  <2>2. CASE p = <<"absent", "mv">>
    BY <2>2, Programs DEF InstallPrograms
  <2>3. CASE p = <<"mv">>
    BY <2>3, Programs DEF InstallPrograms
  <2> QED
    BY <1>1, <2>1, <2>2, <2>3 DEF InstallPrograms
<1>2. ASSUME NEW p \in ActivationPrograms
      PROVE  Tail(p) \in {<<>>} \cup ActivationPrograms /\ (Len(p) = 1 <=> Tail(p) = <<>>)
  <2>1. CASE p = <<"current", "onnx", "manifest">>
    BY <2>1, Programs DEF ActivationPrograms
  <2>2. CASE p = <<"onnx", "manifest">>
    BY <2>2, Programs DEF ActivationPrograms
  <2>3. CASE p = <<"manifest">>
    BY <2>3, Programs DEF ActivationPrograms
  <2> QED
    BY <1>2, <2>1, <2>2, <2>3 DEF ActivationPrograms
<1> QED
  BY <1>1, <1>2

\* A command that goes on, or ends.
OnlyActs(c) ==
    /\ op' \in [Clients -> Command]
    /\ \A b \in Clients \ {c} : op'[b] = op[b]

GoesTo(c, pc) ==
    /\ OnlyActs(c) /\ op'[c].pc = pc
    /\ op'[c].cmd = op[c].cmd /\ op'[c].name = op[c].name /\ op'[c].gen = op[c].gen
    /\ op'[c].d = op[c].d /\ op'[c].saw = op[c].saw

Ends(c) == OnlyActs(c) /\ op'[c] = Idle

LEMMA GotoIs ==
  ASSUME TypeOK, NEW c \in Clients, NEW pc \in PC, Goto(c, pc)
  PROVE  GoesTo(c, pc)
<1>1. op \in [Clients -> Command] /\ op[c] \in Command
  BY DEF TypeOK
<1>2. op' = [op EXCEPT ![c] = [op[c] EXCEPT !.pc = pc]]
  BY Zenon DEF Goto
<1>3. [op[c] EXCEPT !.pc = pc] \in Command
  BY <1>1 DEF Command
<1> QED
  BY <1>1, <1>2, <1>3 DEF Command, GoesTo, OnlyActs

LEMMA IdleIs ==
  /\ Idle \in Command /\ Idle.pc = "idle" /\ Idle.d = 0 /\ Idle.cmd = None
  /\ Idle.name = None
BY ReleaseConstants DEF Idle, Command, PC, Name, None

LEMMA StopIs ==
  ASSUME TypeOK, NEW c \in Clients, Stop(c)
  PROVE  Ends(c)
BY IdleIs DEF TypeOK, Stop, Ends, OnlyActs

\* The blank script and package.
LEMMA BlankIs ==
  /\ NoScript \in ScriptOf /\ NoScript.prog = <<>> /\ NoScript.name = None
  /\ NoScript.d = 0 /\ NoScript.result = None
  /\ NoPackage \in Package /\ NoPackage.name = None /\ NoPackage.at = None
  /\ NoPackage.onnx = 0 /\ NoPackage.note = NoNote /\ NoNote \in Note
BY ReleaseConstants DEF NoScript, ScriptOf, NoPackage, Package, NoNote, Note, Name

\* A command that begins.
LEMMA BeginsIs ==
  ASSUME TypeOK, NEW c \in Clients, NEW x \in Command, op' = [op EXCEPT ![c] = x]
  PROVE  OnlyActs(c) /\ op'[c] = x
BY DEF TypeOK, OnlyActs

\* One run directory, package or script is written.
LEMMA RunIs ==
  ASSUME TypeOK, NEW n \in Names, NEW r \in RunDir, run' = [run EXCEPT ![n] = r]
  PROVE  /\ run' \in [Names -> RunDir] /\ run'[n] = r
         /\ \A m \in Names \ {n} : run'[m] = run[m]
BY DEF TypeOK

LEMMA PkgIs ==
  ASSUME TypeOK, NEW d \in Deploys, NEW p \in Package, pkg' = [pkg EXCEPT ![d] = p]
  PROVE  /\ pkg' \in [Deploys -> Package] /\ pkg'[d] = p
         /\ \A e \in Deploys \ {d} : pkg'[e] = pkg[e]
BY DEF TypeOK

LEMMA ShIs ==
  ASSUME TypeOK, NEW c \in Clients, NEW t \in ScriptOf, sh' = [sh EXCEPT ![c] = t]
  PROVE  /\ sh' \in [Clients -> ScriptOf] /\ sh'[c] = t
         /\ \A b \in Clients \ {c} : sh'[b] = sh[b]
BY DEF TypeOK

\* One more of what a bound counts.
LEMMA BumpIs ==
  ASSUME TypeOK, NEW field \in {"training", "deploy", "extra", "lost"}, Bump(field),
         field = "deploy" => count.deploy < MaxDeploys
  PROVE  /\ count' \in [training : Nat, deploy : 0 .. MaxDeploys, extra : Nat, lost : Nat]
         /\ count'.deploy = IF field = "deploy" THEN count.deploy + 1 ELSE count.deploy
         /\ count'.lost = IF field = "lost" THEN count.lost + 1 ELSE count.lost
<1>1. MaxDeploys \in Nat
  BY ReleaseConstants
<1>2. count \in [training : Nat, deploy : 0 .. MaxDeploys, extra : Nat, lost : Nat]
  BY DEF TypeOK
<1>3. count' = [count EXCEPT ![field] = count[field] + 1]
  BY Zenon DEF Bump
<1>4. CASE field = "training"
  BY <1>1, <1>2, <1>3, <1>4
<1>5. CASE field = "deploy"
  BY <1>1, <1>2, <1>3, <1>5
<1>6. CASE field = "extra"
  BY <1>1, <1>2, <1>3, <1>6
<1>7. CASE field = "lost"
  BY <1>1, <1>2, <1>3, <1>7
<1> QED
  BY <1>4, <1>5, <1>6, <1>7

\* The scripts, and one of them replaced.
LEMMA ScriptIs ==
  ASSUME TypeOK, NEW x \in Clients \cup {"orphan"}
  PROVE  Script(x) \in ScriptOf /\ (x = "orphan" => Script(x) = orphan)
         /\ (x # "orphan" => x \in Clients /\ Script(x) = sh[x])
BY DEF TypeOK, Script

LEMMA PutIs ==
  ASSUME TypeOK, NEW x \in Clients \cup {"orphan"}, NEW s \in ScriptOf, Put(x, s)
  PROVE  /\ sh' \in [Clients -> ScriptOf] /\ orphan' \in ScriptOf
         /\ x = "orphan" => orphan' = s /\ sh' = sh
         /\ x # "orphan" =>
              /\ orphan' = orphan /\ sh'[x] = s
              /\ \A b \in Clients \ {x} : sh'[b] = sh[b]
BY DEF TypeOK, Put

\* What a command that succeeds leaves of its script, and one that fails.
Advanced(s, t) ==
    /\ s.prog # <<>> /\ t.name = s.name /\ t.d = s.d
    /\ t.prog = Tail(s.prog) /\ t.result = IF t.prog = <<>> THEN "ok" ELSE None

Aborted(s, t) ==
    /\ s.prog # <<>> /\ t.name = s.name /\ t.d = s.d
    /\ t.prog = <<>> /\ t.result = "failed"

LEMMA AdvanceIs ==
  ASSUME TypeOK, NEW x \in Clients \cup {"orphan"}, NEW command, Running(x, command),
         Advance(x)
  PROVE  \E t \in ScriptOf : Put(x, t) /\ Advanced(Script(x), t)
<1> DEFINE s == Script(x)
<1> DEFINE t == [s EXCEPT !.prog = Tail(s.prog),
                          !.result = IF Len(s.prog) = 1 THEN "ok" ELSE None]
<1>1. s \in ScriptOf /\ s.prog # <<>>
  BY ScriptIs DEF Running
<1>2. Put(x, t)
  BY Zenon DEF Advance
<1> HIDE DEF s
<1>3. /\ Tail(s.prog) \in {<<>>} \cup InstallPrograms \cup ActivationPrograms
      /\ Len(s.prog) = 1 <=> Tail(s.prog) = <<>>
  BY <1>1, ProgramSteps DEF ScriptOf
<1>4. t \in ScriptOf /\ Advanced(s, t)
  BY <1>1, <1>3 DEF ScriptOf, Advanced
<1> QED
  BY <1>2, <1>4 DEF s

LEMMA AbortIs ==
  ASSUME TypeOK, NEW x \in Clients \cup {"orphan"}, NEW command, Running(x, command),
         Abort(x)
  PROVE  \E t \in ScriptOf : Put(x, t) /\ Aborted(Script(x), t)
<1> DEFINE s == Script(x)
<1> DEFINE t == [s EXCEPT !.prog = <<>>, !.result = "failed"]
<1>1. s \in ScriptOf /\ s.prog # <<>>
  BY ScriptIs DEF Running
<1>2. Put(x, t)
  BY Zenon DEF Abort
<1> HIDE DEF s
<1>3. t \in ScriptOf /\ Aborted(s, t)
  BY <1>1 DEF ScriptOf, Aborted
<1> QED
  BY <1>2, <1>3 DEF s

\* Released finds the release of a name, when there is one.
LEMMA ReleasedIs ==
  ASSUME NEW n
  PROVE  /\ Released(n) # 0 => /\ Released(n) \in Deploys
                              /\ pkg[Released(n)].name = n
                              /\ pkg[Released(n)].at = "release"
         /\ Released(n) = 0 => ~IsReleased(n)
<1>1. 0 \notin Deploys
  BY ReleaseConstants DEF Deploys
<1> QED
  BY <1>1 DEF Released, IsReleased

\* A step of a remote script: its script advances or is aborted, nothing of the
\* clients moves.
ScriptMoves(x) ==
    \E t \in ScriptOf : Put(x, t) /\ (Advanced(Script(x), t) \/ Aborted(Script(x), t))

LEMMA RemoteIs ==
  ASSUME TypeOK, NEW x \in Clients \cup {"orphan"}, RemoteStep(x)
  PROVE  ScriptMoves(x) /\ UNCHANGED <<run, op, count, hist>>
BY AdvanceIs, AbortIs, Zenon
   DEF RemoteStep, ScriptMoves, Unpack, CheckAbsent, MoveStage, CopyCurrent, Link

-----------------------------------------------------------------------------
(* The types and the structure.                                            *)

LEMMA InitStructure == Init => StructureInv
<1> SUFFICES ASSUME Init PROVE StructureInv
  OBVIOUS
<1> USE ReleaseConstants
<1>1. NoNote \in Note /\ EmptyRun \in RunDir /\ NoPackage \in Package /\ NoScript \in ScriptOf
  BY DEF NoNote, Note, EmptyRun, RunDir, NoPackage, Package, NoScript, ScriptOf, Name, None
<1>2. TrainedRun \in RunDir
  <2>1. Earlier \in Nat
    BY DEF Earlier
  <2> QED
    BY <1>1, <2>1 DEF TrainedRun, RunDir
<1>3. run \in [Names -> RunDir]
  BY <1>1, <1>2 DEF Init
<1>4. TypeOK
  BY <1>1, <1>3, IdleIs DEF Init, TypeOK, Pointer, History, Name, None
<1>5. CommandInv
  BY IdleIs DEF Init, CommandInv, CommandSound, TrainingPC, DeployingPC, BenchPC
<1>6. ScriptInv /\ OrphanInv
  BY IdleIs, ProgramsDiffer DEF Init, ScriptInv, OrphanInv, NoScript
<1>7. PackageInv /\ OneReleasePerName
  BY IdleIs, ProgramsDiffer DEF Init, PackageInv, MovesItsOwn, OneReleasePerName, NoScript,
                                NoPackage, None
<1> QED
  BY <1>4, <1>5, <1>6, <1>7 DEF StructureInv

(* What each action does, in terms of these.                               *)

LEMMA StartIs ==
  ASSUME TypeOK, NEW c \in Clients, NEW n \in Names, NEW cmd \in {"train", "train_deploy"},
         NEW pc \in {"preflight", "prepare"}, Start(c, n, cmd, pc)
  PROVE  /\ OnlyActs(c) /\ op[c].pc = "idle"
         /\ op'[c].pc = pc /\ op'[c].cmd = cmd /\ op'[c].name = n
         /\ op'[c].gen # 0 /\ op'[c].d = 0
<1>1. PICK overwrite, activate \in BOOLEAN :
         op' = [op EXCEPT ![c] = [Idle EXCEPT
                !.pc = pc, !.cmd = cmd, !.name = n, !.overwrite = overwrite,
                !.activate = activate, !.gen = count.training + 1]]
  BY DEF Start
<1> DEFINE x == [Idle EXCEPT
                !.pc = pc, !.cmd = cmd, !.name = n, !.overwrite = overwrite,
                !.activate = activate, !.gen = count.training + 1]
<1>2. x.pc = pc /\ x.cmd = cmd /\ x.name = n /\ x.gen = count.training + 1 /\ x.d = 0
  BY DEF Idle
<1>3. count.training + 1 \in Nat \ {0}
  BY DEF TypeOK
<1>4. pc \in PC /\ n \in Name
  BY DEF PC, TrainingPC, Name
<1>5. x \in Command
  BY <1>3, <1>4, IdleIs DEF Command
<1> HIDE DEF x
<1>6. op' = [op EXCEPT ![c] = x]
  BY <1>1 DEF x
<1> QED
  BY <1>2, <1>3, <1>5, <1>6, BeginsIs DEF Start

\* A step that writes the status, or an artifact, of the run directory of its name.
LEMMA RunWrites ==
  ASSUME TypeOK, NEW n \in Names
  PROVE  /\ run[n] \in RunDir
         /\ \A st \in {"running", "completed", "failed"} :
              /\ [run[n] EXCEPT !.status = st] \in RunDir
              /\ [run[n] EXCEPT !.onnx = run[n].pt, !.status = st] \in RunDir
         /\ \A gen \in Nat : [run[n] EXCEPT !.pt = gen] \in RunDir
         /\ [run[n] EXCEPT !.onnx = run[n].pt, !.meta = run[n].pt] \in RunDir
         /\ \A note \in Note : [run[n] EXCEPT !.note = note] \in RunDir
<1>1. run[n] \in RunDir
  BY DEF TypeOK
<1> QED
  BY <1>1 DEF RunDir

\* The command of a client is of its type and sound.
LEMMA CommandIs ==
  ASSUME StructureInv, NEW c \in Clients
  PROVE  /\ TypeOK /\ op[c] \in Command /\ CommandSound(op[c])
         /\ op[c].pc # "idle" => op[c].name \in Names
         /\ op[c].pc \in DeployingPC => op[c].d \in Deploys
         /\ op[c].d =< count.deploy /\ count.deploy \in 0 .. MaxDeploys
<1>1. TypeOK /\ op[c] \in Command /\ CommandSound(op[c])
  BY DEF StructureInv, TypeOK, CommandInv
<1>2. op[c].d \in 0 .. MaxDeploys
  BY <1>1 DEF Command
<1> QED
  BY <1>1, <1>2, ReleaseConstants DEF CommandSound, Deploys, TypeOK

\* Steps that touch nothing but the command.
LEMMA WalksIs ==
  ASSUME StructureInv, NEW c \in Clients,
         Preflight(c) \/ PrepareRunDir(c) \/ Cleanup(c)
  PROVE  /\ UNCHANGED <<run, pkg, pointer, sh, orphan, count, hist>>
         /\ \/ /\ op[c].pc \in {"preflight", "prepare", "cleanup"} /\ Ends(c)
               /\ op[c].pc = "cleanup" => pkg[op[c].d].at # "stage"
            \/ op[c].pc = "preflight" /\ GoesTo(c, "prepare")
            \/ op[c].pc = "prepare" /\ GoesTo(c, "begin")
            \/ op[c].pc = "cleanup" /\ GoesTo(c, "unlink")
BY CommandIs, GotoIs, StopIs
   DEF Preflight, PrepareRunDir, Cleanup, PC, TrainingPC, DeployingPC

\* Steps of a training.
LEMMA BeginIs ==
  ASSUME StructureInv, NEW c \in Clients, Begin(c)
  PROVE  LET n == op[c].name IN
         /\ op[c].pc = "begin" /\ GoesTo(c, "train")
         /\ run' \in [Names -> RunDir] /\ \A m \in Names \ {n} : run'[m] = run[m]
         /\ hist' \in History /\ hist'.trained = hist.trained \cup {n}
         /\ hist'.shared <=> hist.shared \/ n \in hist.trained
         /\ hist'.passed = hist.passed /\ hist'.raced = hist.raced
         /\ hist'.bench = hist.bench /\ hist'.own = hist.own
         /\ UNCHANGED <<pkg, pointer, sh, orphan, count>>
<1>1. op[c].pc = "begin" /\ op[c].name \in Names /\ TypeOK
  BY CommandIs DEF Begin
<1>2. GoesTo(c, "train")
  BY <1>1, GotoIs DEF Begin, PC, TrainingPC
<1>3. run' = [run EXCEPT ![op[c].name] = [run[op[c].name] EXCEPT !.status = "running"]]
  BY Zenon DEF Begin
<1>4. run' \in [Names -> RunDir] /\ \A m \in Names \ {op[c].name} : run'[m] = run[m]
  BY <1>1, <1>3, RunWrites, RunIs
<1>5. PICK again \in BOOLEAN :
        /\ again <=> hist.shared \/ op[c].name \in hist.trained
        /\ hist' = [hist EXCEPT !.trained = hist.trained \cup {op[c].name}, !.shared = again]
  BY Zenon DEF Begin
<1>6. hist \in History
  BY <1>1 DEF TypeOK
<1>7. /\ hist' \in History /\ hist'.trained = hist.trained \cup {op[c].name}
      /\ hist'.shared = again
      /\ hist'.passed = hist.passed /\ hist'.raced = hist.raced
      /\ hist'.bench = hist.bench /\ hist'.own = hist.own
  BY <1>1, <1>5, <1>6 DEF History
<1>8. UNCHANGED <<pkg, pointer, sh, orphan, count>>
  BY DEF Begin
<1> QED
  BY <1>1, <1>2, <1>4, <1>5, <1>7, <1>8

SameFiles(m) ==
    run'[m].pt = run[m].pt /\ run'[m].onnx = run[m].onnx /\ run'[m].meta = run[m].meta

LEMMA FailRunIs ==
  ASSUME StructureInv, NEW c \in Clients, FailRun(c), op[c].pc # "idle"
  PROVE  /\ Ends(c) /\ run' \in [Names -> RunDir] /\ \A m \in Names : SameFiles(m)
         /\ UNCHANGED <<pkg, pointer, sh, orphan, count, hist>>
<1>1. op[c].name \in Names /\ TypeOK
  BY CommandIs
<1>2. run' = [run EXCEPT ![op[c].name] = [run[op[c].name] EXCEPT !.status = "failed"]]
  BY Zenon DEF FailRun
<1>3. /\ run' \in [Names -> RunDir]
      /\ run'[op[c].name] = [run[op[c].name] EXCEPT !.status = "failed"]
      /\ \A m \in Names \ {op[c].name} : run'[m] = run[m]
  BY <1>1, <1>2, RunWrites, RunIs
<1>4. run[op[c].name] \in RunDir
  BY <1>1 DEF TypeOK
<1>5. SameFiles(op[c].name)
  BY <1>3, <1>4 DEF RunDir, SameFiles
<1>6. Ends(c) /\ UNCHANGED <<pkg, pointer, sh, orphan, count, hist>>
  BY <1>1, StopIs DEF FailRun
<1> QED
  BY <1>3, <1>5, <1>6 DEF SameFiles

LEMMA TrainWorldModelIs ==
  ASSUME StructureInv, NEW c \in Clients, TrainWorldModel(c)
  PROVE  /\ op[c].pc = "train" /\ run' \in [Names -> RunDir]
         /\ \A m \in Names \ {op[c].name} : SameFiles(m)
         /\ \/ GoesTo(c, "export") /\ run'[op[c].name].pt = op[c].gen
            \/ Ends(c)
         /\ UNCHANGED <<pkg, pointer, sh, orphan, count, hist>>
<1>1. op[c].pc = "train" /\ op[c].name \in Names /\ TypeOK
  BY CommandIs DEF TrainWorldModel
<1>2. CASE FailRun(c)
  BY <1>1, <1>2, FailRunIs
<1>3. CASE ~FailRun(c)
  <2>1. /\ Goto(c, "export") /\ UNCHANGED <<pkg, pointer, sh, orphan, count, hist>>
        /\ run' = [run EXCEPT ![op[c].name] = [run[op[c].name] EXCEPT !.pt = op[c].gen]]
    BY <1>3, Zenon DEF TrainWorldModel
  <2>2. op[c].gen \in Nat /\ run[op[c].name] \in RunDir
    BY <1>1 DEF TypeOK, Command
  <2>3. /\ run' \in [Names -> RunDir]
        /\ run'[op[c].name] = [run[op[c].name] EXCEPT !.pt = op[c].gen]
        /\ \A m \in Names \ {op[c].name} : run'[m] = run[m]
    BY <1>1, <2>1, <2>2, RunWrites, RunIs
  <2>4. run'[op[c].name].pt = op[c].gen
    BY <2>2, <2>3 DEF RunDir
  <2>5. GoesTo(c, "export")
    BY <1>1, <2>1, GotoIs DEF PC, TrainingPC
  <2> QED
    BY <1>1, <2>1, <2>3, <2>4, <2>5 DEF SameFiles
<1> QED
  BY <1>2, <1>3

LEMMA ExportOnnxIs ==
  ASSUME StructureInv, NEW c \in Clients, ExportOnnx(c)
  PROVE  /\ op[c].pc = "export" /\ run' \in [Names -> RunDir]
         /\ \A m \in Names \ {op[c].name} : SameFiles(m)
         /\ \/ GoesTo(c, "ablate") /\ Whole(run'[op[c].name], run[op[c].name].pt)
            \/ Ends(c)
         /\ UNCHANGED <<pkg, pointer, sh, orphan, count, hist>>
<1> DEFINE n == op[c].name
<1>1. op[c].pc = "export" /\ n \in Names /\ TypeOK
  BY CommandIs DEF ExportOnnx
<1> DEFINE r == run[n]
<1>2. /\ \/ run' = [run EXCEPT ![n] = [r EXCEPT !.onnx = r.pt, !.meta = r.pt]]
            /\ Goto(c, "ablate")
         \/ run' = [run EXCEPT ![n] = [r EXCEPT !.onnx = r.pt, !.status = "failed"]]
            /\ Stop(c)
         \/ run' = [run EXCEPT ![n] = [r EXCEPT !.status = "failed"]] /\ Stop(c)
      /\ UNCHANGED <<pkg, pointer, sh, orphan, count, hist>>
  BY Zenon DEF ExportOnnx
<1>3. r \in RunDir
  BY <1>1 DEF TypeOK
<1>4. /\ [r EXCEPT !.onnx = r.pt, !.meta = r.pt] \in RunDir
      /\ [r EXCEPT !.onnx = r.pt, !.status = "failed"] \in RunDir
      /\ [r EXCEPT !.status = "failed"] \in RunDir
  BY <1>1, RunWrites
<1>5. Whole([r EXCEPT !.onnx = r.pt, !.meta = r.pt], r.pt)
  BY <1>3 DEF RunDir, Whole
<1>6. Goto(c, "ablate") => GoesTo(c, "ablate")
  BY <1>1, GotoIs DEF PC, TrainingPC
<1>7. Stop(c) => Ends(c)
  BY <1>1, StopIs
<1> HIDE DEF n, r
<1>8. \A x \in RunDir : run' = [run EXCEPT ![n] = x] =>
          /\ run' \in [Names -> RunDir] /\ run'[n] = x
          /\ \A m \in Names \ {n} : SameFiles(m)
  BY <1>1, RunIs DEF SameFiles
<1> QED
  <2>1. /\ run' \in [Names -> RunDir]
        /\ \A m \in Names \ {n} : SameFiles(m)
        /\ \/ GoesTo(c, "ablate") /\ Whole(run'[n], r.pt)
           \/ Ends(c)
    BY <1>2, <1>4, <1>5, <1>6, <1>7, <1>8
  <2> QED
    BY <1>1, <1>2, <2>1 DEF n, r

LEMMA RunGateAblationIs ==
  ASSUME StructureInv, NEW c \in Clients, RunGateAblation(c)
  PROVE  /\ op[c].pc = "ablate" /\ run' \in [Names -> RunDir]
         /\ \A m \in Names : SameFiles(m)
         /\ hist' \in History
         /\ hist'.trained = hist.trained /\ hist'.shared = hist.shared
         /\ hist'.raced = hist.raced /\ hist'.bench = hist.bench /\ hist'.own = hist.own
         /\ \/ /\ op[c].cmd = "train_deploy" /\ GoesTo(c, "new_deploy")
               /\ hist'.passed = hist.passed \cup {op[c].gen}
            \/ Ends(c) /\ hist.passed \subseteq hist'.passed
         /\ UNCHANGED <<pkg, pointer, sh, orphan, count>>
<1>1. op[c].pc = "ablate" /\ op[c].name \in Names /\ TypeOK
  BY CommandIs DEF RunGateAblation
<1>2. CASE FailRun(c)
  BY <1>1, <1>2, FailRunIs DEF TypeOK
<1>3. CASE ~FailRun(c)
  <2>1. /\ run' = [run EXCEPT ![op[c].name] = [run[op[c].name] EXCEPT !.status = "completed"]]
        /\ hist' = [hist EXCEPT !.passed = hist.passed \cup {op[c].gen}]
        /\ IF op[c].cmd = "train_deploy" THEN Goto(c, "new_deploy") ELSE Stop(c)
        /\ UNCHANGED <<pkg, pointer, sh, orphan, count>>
    BY <1>3, Zenon DEF RunGateAblation
  <2>2. op[c].gen \in Nat /\ run[op[c].name] \in RunDir /\ hist \in History
    BY <1>1 DEF TypeOK, Command
  <2>3. /\ run' \in [Names -> RunDir]
        /\ run'[op[c].name] = [run[op[c].name] EXCEPT !.status = "completed"]
        /\ \A m \in Names \ {op[c].name} : run'[m] = run[m]
    BY <1>1, <2>1, <2>2, RunWrites, RunIs
  <2>4. SameFiles(op[c].name)
    BY <2>2, <2>3 DEF RunDir, SameFiles
  <2>5. /\ hist' \in History /\ hist'.passed = hist.passed \cup {op[c].gen}
        /\ hist'.trained = hist.trained /\ hist'.shared = hist.shared
        /\ hist'.raced = hist.raced /\ hist'.bench = hist.bench /\ hist'.own = hist.own
    BY <2>1, <2>2 DEF History
  <2>6. (op[c].cmd = "train_deploy" /\ GoesTo(c, "new_deploy")) \/ Ends(c)
    BY <1>1, <2>1, GotoIs, StopIs DEF PC, TrainingPC
  <2> QED
    BY <1>1, <2>1, <2>3, <2>4, <2>5, <2>6 DEF SameFiles
<1> QED
  BY <1>2, <1>3

\* Steps of a deployment.
LEMMA StartDeployIs ==
  ASSUME StructureInv, NEW c \in Clients, NEW n \in Names, StartDeploy(c, n)
  PROVE  /\ op[c].pc = "idle" /\ OnlyActs(c) /\ count.deploy < MaxDeploys
         /\ op'[c].pc = "require" /\ op'[c].cmd = "deploy" /\ op'[c].name = n
         /\ op'[c].d = count.deploy + 1
         /\ count' \in [training : Nat, deploy : 0 .. MaxDeploys, extra : Nat, lost : Nat]
         /\ count'.deploy = count.deploy + 1 /\ count'.lost = count.lost
         /\ UNCHANGED <<run, pkg, pointer, sh, orphan, hist>>
<1>1. TypeOK /\ count.deploy < MaxDeploys /\ count.deploy + 1 \in 0 .. MaxDeploys
  BY CommandIs, ReleaseConstants DEF StartDeploy
<1>2. PICK activate \in BOOLEAN :
         op' = [op EXCEPT ![c] = [Idle EXCEPT !.pc = "require", !.cmd = "deploy", !.name = n,
                                              !.activate = activate, !.d = count.deploy + 1]]
  BY DEF StartDeploy
<1> DEFINE x == [Idle EXCEPT !.pc = "require", !.cmd = "deploy", !.name = n,
                             !.activate = activate, !.d = count.deploy + 1]
<1>3. x.pc = "require" /\ x.cmd = "deploy" /\ x.name = n /\ x.d = count.deploy + 1
  BY DEF Idle
<1>4. x \in Command
  BY <1>1, IdleIs DEF Command, PC, DeployingPC, Name
<1> HIDE DEF x
<1>5. op' = [op EXCEPT ![c] = x]
  BY <1>2 DEF x
<1>6. OnlyActs(c) /\ op'[c] = x
  BY <1>1, <1>4, <1>5, BeginsIs
<1>7. op[c].pc = "idle" /\ Bump("deploy") /\ UNCHANGED <<run, pkg, pointer, sh, orphan, hist>>
  BY DEF StartDeploy
<1> QED
  BY <1>1, <1>3, <1>6, <1>7, BumpIs

LEMMA DeployTrainedIs ==
  ASSUME StructureInv, NEW c \in Clients, DeployTrained(c)
  PROVE  /\ op[c].pc = "new_deploy" /\ OnlyActs(c) /\ count.deploy < MaxDeploys
         /\ op'[c].pc = "require" /\ op'[c].cmd = op[c].cmd /\ op'[c].name = op[c].name
         /\ op'[c].gen = op[c].gen /\ op'[c].d = count.deploy + 1
         /\ count' \in [training : Nat, deploy : 0 .. MaxDeploys, extra : Nat, lost : Nat]
         /\ count'.deploy = count.deploy + 1 /\ count'.lost = count.lost
         /\ hist' \in History /\ hist'.own = hist.own \cup {<<count.deploy + 1, op[c].gen>>}
         /\ hist'.trained = hist.trained /\ hist'.shared = hist.shared
         /\ hist'.raced = hist.raced /\ hist'.bench = hist.bench
         /\ hist'.passed = hist.passed
         /\ UNCHANGED <<run, pkg, pointer, sh, orphan>>
<1>1. /\ TypeOK /\ count.deploy < MaxDeploys /\ count.deploy + 1 \in 1 .. MaxDeploys
      /\ op[c] \in Command
  BY CommandIs, ReleaseConstants DEF DeployTrained
<1> DEFINE x == [op[c] EXCEPT !.pc = "require", !.d = count.deploy + 1]
<1>2. op' = [op EXCEPT ![c] = x]
  BY Zenon DEF DeployTrained
<1>3. /\ x.pc = "require" /\ x.d = count.deploy + 1 /\ x.cmd = op[c].cmd
      /\ x.name = op[c].name /\ x.gen = op[c].gen
  BY <1>1 DEF Command
<1>4. x \in Command
  <2>1. "require" \in PC /\ count.deploy + 1 \in 0 .. MaxDeploys
    BY <1>1, ReleaseConstants DEF PC, DeployingPC
  <2> QED
    BY <1>1, <2>1 DEF Command
<1> HIDE DEF x
<1>5. OnlyActs(c) /\ op'[c] = x
  BY <1>1, <1>2, <1>4, BeginsIs
<1>6. hist' = [hist EXCEPT !.own = hist.own \cup {<<count.deploy + 1, op[c].gen>>}]
  BY Zenon DEF DeployTrained
<1>7. hist \in History /\ <<count.deploy + 1, op[c].gen>> \in (1 .. MaxDeploys) \X Nat
  BY <1>1 DEF TypeOK, Command
<1>8. /\ hist' \in History /\ hist'.own = hist.own \cup {<<count.deploy + 1, op[c].gen>>}
      /\ hist'.trained = hist.trained /\ hist'.shared = hist.shared
      /\ hist'.raced = hist.raced /\ hist'.bench = hist.bench /\ hist'.passed = hist.passed
  BY <1>6, <1>7 DEF History
<1>9. op[c].pc = "new_deploy" /\ Bump("deploy") /\ UNCHANGED <<run, pkg, pointer, sh, orphan>>
  BY DEF DeployTrained
<1> QED
  BY <1>1, <1>3, <1>5, <1>8, <1>9, BumpIs

LEMMA RequireArtifactsIs ==
  ASSUME StructureInv, NEW c \in Clients, RequireArtifacts(c)
  PROVE  /\ op[c].pc = "require" /\ run' \in [Names -> RunDir]
         /\ \A m \in Names : SameFiles(m)
         /\ GoesTo(c, "mkdir") \/ Ends(c)
         /\ UNCHANGED <<pkg, pointer, sh, orphan, count, hist>>
<1> DEFINE n == op[c].name
<1>1. /\ op[c].pc = "require" /\ n \in Names /\ op[c] \in Command /\ TypeOK
      /\ UNCHANGED <<pkg, pointer, sh, orphan, count, hist>>
      /\ Goto(c, "mkdir") \/ Stop(c)
  BY CommandIs DEF RequireArtifacts, DeployingPC
<1> DEFINE note == [by |-> op[c].d, status |-> "prepared"]
<1>2. run' = run \/ run' = [run EXCEPT ![n] = [run[n] EXCEPT !.note = note]]
  BY Zenon DEF RequireArtifacts
<1>3. note \in Note /\ run[n] \in RunDir
  BY <1>1 DEF TypeOK, Command, Note
<1> HIDE DEF note, n
<1>4. CASE run' = run
  BY <1>1, <1>4, GotoIs, StopIs DEF SameFiles, TypeOK, PC, DeployingPC
<1>5. CASE run' = [run EXCEPT ![n] = [run[n] EXCEPT !.note = note]]
  <2>1. /\ run' \in [Names -> RunDir] /\ run'[n] = [run[n] EXCEPT !.note = note]
        /\ \A m \in Names \ {n} : run'[m] = run[m]
    BY <1>1, <1>3, <1>5, RunWrites, RunIs
  <2>2. SameFiles(n)
    BY <1>3, <2>1 DEF RunDir, SameFiles
  <2> QED
    BY <1>1, <2>1, <2>2, GotoIs, StopIs DEF SameFiles, PC, DeployingPC
<1> QED
  BY <1>2, <1>4, <1>5

\* A stage directory is made.
StageMade(c) ==
    LET d == op[c].d IN
    /\ pkg' \in [Deploys -> Package] /\ \A e \in Deploys \ {d} : pkg'[e] = pkg[e]
    /\ pkg'[d] = [pkg[d] EXCEPT !.name = op[c].name, !.at = "stage"]

LEMMA StageIs ==
  ASSUME StructureInv, NEW c \in Clients, op[c].pc = "mkdir",
         pkg' = [pkg EXCEPT ![op[c].d].name = op[c].name, ![op[c].d].at = "stage"]
  PROVE  StageMade(c)
<1> DEFINE d == op[c].d
<1>1. d \in Deploys /\ op[c].name \in Names /\ TypeOK
  BY CommandIs DEF DeployingPC
<1>2. pkg' = [pkg EXCEPT ![d] = [pkg[d] EXCEPT !.name = op[c].name, !.at = "stage"]]
  BY <1>1, Zenon
<1>3. pkg[d] \in Package
  BY <1>1 DEF TypeOK
<1>4. [pkg[d] EXCEPT !.name = op[c].name, !.at = "stage"] \in Package
  BY <1>1, <1>3 DEF Package, Name
<1> HIDE DEF d
<1> QED
  BY <1>1, <1>2, <1>4, PkgIs DEF d, StageMade

LEMMA MakeStageIs ==
  ASSUME StructureInv, NEW c \in Clients, MakeStage(c)
  PROVE  /\ op[c].pc = "mkdir" /\ GoesTo(c, "upload") /\ StageMade(c)
         /\ UNCHANGED <<run, pointer, sh, orphan, count, hist>>
<1>1. op[c].pc = "mkdir" /\ TypeOK
  BY CommandIs DEF MakeStage
<1> QED
  BY <1>1, StageIs, GotoIs DEF MakeStage, PC, DeployingPC

LEMMA UploadIs ==
  ASSUME StructureInv, NEW c \in Clients, Upload(c)
  PROVE  LET d == op[c].d  n == op[c].name IN
         /\ op[c].pc = "upload"
         /\ \/ /\ GoesTo(c, "install")
               /\ pkg' \in [Deploys -> Package] /\ \A e \in Deploys \ {d} : pkg'[e] = pkg[e]
               /\ pkg'[d].name = pkg[d].name /\ pkg'[d].at = pkg[d].at
               /\ pkg'[d].pt = run[n].pt /\ pkg'[d].onnx = run[n].onnx
               /\ pkg'[d].meta = run[n].meta
               /\ sh' \in [Clients -> ScriptOf] /\ \A b \in Clients \ {c} : sh'[b] = sh[b]
               /\ sh'[c].prog = <<"unpack", "absent", "mv">> /\ sh'[c].name = n
               /\ sh'[c].d = d /\ sh'[c].result = None
               /\ hist' \in History /\ (hist.shared => hist'.shared)
               /\ hist'.trained = hist.trained /\ hist'.passed = hist.passed
               /\ hist'.raced = hist.raced /\ hist'.bench = hist.bench
               /\ hist'.own = hist.own
            \/ GoesTo(c, "cleanup") /\ UNCHANGED <<pkg, sh, hist>>
         /\ UNCHANGED <<run, pointer, orphan, count>>
<1> DEFINE d == op[c].d  n == op[c].name
<1>1. op[c].pc = "upload" /\ d \in Deploys /\ n \in Names /\ TypeOK /\ op[c] \in Command
  BY CommandIs DEF Upload, DeployingPC
<1>2. CASE Goto(c, "cleanup")
  <2>1. GoesTo(c, "cleanup")
    BY <1>1, <1>2, GotoIs DEF PC, DeployingPC
  <2>2. op'[c].pc # "install"
    BY <2>1 DEF GoesTo
  <2>3. ~Goto(c, "install")
    BY <1>1, <2>2, GotoIs DEF PC, DeployingPC, GoesTo
  <2> QED
    BY <1>1, <2>1, <2>3 DEF Upload
<1>3. CASE ~Goto(c, "cleanup")
  <2>1. /\ pkg' = [pkg EXCEPT ![d] = Packed(d, n)]
        /\ sh' = [sh EXCEPT ![c] = [NoScript EXCEPT !.prog = <<"unpack", "absent", "mv">>,
                                                    !.name = n, !.d = d]]
        /\ Goto(c, "install") /\ UNCHANGED <<run, pointer, orphan, count>>
    BY <1>3, Zenon DEF Upload
  <2>2. PICK shared \in BOOLEAN :
          hist' = [hist EXCEPT !.shared = shared] /\ (hist.shared => shared)
    BY <1>3, Zenon DEF Upload
  <2>3. hist \in History /\ pkg[d] \in Package /\ run[n] \in RunDir
    BY <1>1 DEF TypeOK
  <2>4. /\ hist' \in History /\ hist'.shared = shared
        /\ hist'.trained = hist.trained /\ hist'.passed = hist.passed
        /\ hist'.raced = hist.raced /\ hist'.bench = hist.bench /\ hist'.own = hist.own
    BY <2>2, <2>3 DEF History
  <2> DEFINE p == Packed(d, n)
  <2>5. /\ p.name = pkg[d].name /\ p.at = pkg[d].at /\ p.pt = run[n].pt
        /\ p.onnx = run[n].onnx /\ p.meta = run[n].meta /\ p \in Package
    BY <2>3 DEF Packed, Package, RunDir
  <2> DEFINE t == [NoScript EXCEPT !.prog = <<"unpack", "absent", "mv">>, !.name = n, !.d = d]
  <2>6. <<"unpack", "absent", "mv">> \in InstallPrograms /\ d \in 0 .. MaxDeploys
    BY <1>1 DEF InstallPrograms, Command
  <2>7. /\ t \in ScriptOf /\ t.prog = <<"unpack", "absent", "mv">> /\ t.name = n /\ t.d = d
        /\ t.result = None
    BY <1>1, <2>6, BlankIs DEF ScriptOf, Name
  <2> HIDE DEF p, t
  <2>8. pkg' \in [Deploys -> Package] /\ pkg'[d] = p /\ \A e \in Deploys \ {d} : pkg'[e] = pkg[e]
    BY <1>1, <2>1, <2>5, PkgIs DEF p
  <2>9. sh' \in [Clients -> ScriptOf] /\ sh'[c] = t /\ \A b \in Clients \ {c} : sh'[b] = sh[b]
    BY <1>1, <2>1, <2>7, ShIs DEF t
  <2>10. GoesTo(c, "install")
    BY <1>1, <2>1, GotoIs DEF PC, DeployingPC
  <2> HIDE DEF d, n
  <2>11. UNCHANGED <<run, pointer, orphan, count>>
    BY <2>1
  <2> QED
    BY <1>1, <2>2, <2>4, <2>5, <2>7, <2>8, <2>9, <2>10, <2>11 DEF d, n
<1> QED
  BY <1>2, <1>3

LEMMA InstalledIs ==
  ASSUME StructureInv, NEW c \in Clients, Installed(c)
  PROVE  /\ op[c].pc = "install" /\ sh[c].result # None
         /\ run' \in [Names -> RunDir] /\ \A m \in Names : SameFiles(m)
         /\ \/ sh[c].result = "ok" /\ GoesTo(c, "announce")
            \/ sh[c].result # "ok" /\ GoesTo(c, "cleanup")
         /\ sh' \in [Clients -> ScriptOf] /\ \A b \in Clients \ {c} : sh'[b] = sh[b]
         /\ sh'[c] = NoScript
         /\ UNCHANGED <<pkg, pointer, orphan, count, hist>>
<1> DEFINE n == op[c].name
<1>1. op[c].pc = "install" /\ n \in Names /\ TypeOK /\ op[c] \in Command
  BY CommandIs DEF Installed
<1> DEFINE note == [by |-> op[c].d, status |-> "deployed"]
<1>2. /\ \/ /\ sh[c].result = "ok" /\ Goto(c, "announce")
            /\ run' = [run EXCEPT ![n] = [run[n] EXCEPT !.note = note]]
         \/ sh[c].result # "ok" /\ Goto(c, "cleanup") /\ run' = run
      /\ sh' = [sh EXCEPT ![c] = NoScript] /\ sh[c].result # None
      /\ UNCHANGED <<pkg, pointer, orphan, count, hist>>
  BY Zenon DEF Installed
<1>3. note \in Note /\ run[n] \in RunDir /\ NoScript \in ScriptOf
  BY <1>1, ReleaseConstants DEF TypeOK, Command, Note, NoScript, ScriptOf, Name
<1> HIDE DEF note, n
<1>4. run' \in [Names -> RunDir] /\ \A m \in Names : SameFiles(m)
  <2>1. CASE run' = run
    BY <1>1, <2>1 DEF SameFiles, TypeOK
  <2>2. CASE run' = [run EXCEPT ![n] = [run[n] EXCEPT !.note = note]]
    <3>1. /\ run' \in [Names -> RunDir] /\ run'[n] = [run[n] EXCEPT !.note = note]
          /\ \A m \in Names \ {n} : run'[m] = run[m]
      BY <1>1, <1>3, <2>2, RunWrites, RunIs
    <3>2. SameFiles(n)
      BY <1>3, <3>1 DEF RunDir, SameFiles
    <3> QED
      BY <3>1, <3>2 DEF SameFiles
  <2> QED
    BY <1>2, <2>1, <2>2
<1>5. sh' \in [Clients -> ScriptOf] /\ sh'[c] = NoScript /\ \A b \in Clients \ {c} : sh'[b] = sh[b]
  BY <1>1, <1>2, <1>3, ShIs
<1>6. \/ sh[c].result = "ok" /\ GoesTo(c, "announce")
      \/ sh[c].result # "ok" /\ GoesTo(c, "cleanup")
  BY <1>1, <1>2, GotoIs DEF PC, DeployingPC
<1> QED
  BY <1>1, <1>2, <1>4, <1>5, <1>6

LEMMA UnlinkIs ==
  ASSUME StructureInv, NEW c \in Clients, Unlink(c)
  PROVE  LET d == op[c].d IN
         /\ op[c].pc = "unlink" /\ GoesTo(c, "rmdir")
         /\ pkg' \in [Deploys -> Package] /\ \A e \in Deploys \ {d} : pkg'[e] = pkg[e]
         /\ pkg'[d].name = pkg[d].name /\ pkg'[d].at = pkg[d].at /\ pkg'[d].onnx = 0
         /\ UNCHANGED <<run, pointer, sh, orphan, count, hist>>
<1> DEFINE d == op[c].d
<1>1. op[c].pc = "unlink" /\ d \in Deploys /\ TypeOK
  BY CommandIs DEF Unlink, DeployingPC
<1> DEFINE p == [NoPackage EXCEPT !.name = pkg[d].name, !.at = pkg[d].at]
<1>2. pkg' = [pkg EXCEPT ![d] = p]
  BY Zenon DEF Unlink
<1>3. pkg[d] \in Package
  BY <1>1 DEF TypeOK
<1>4. p \in Package /\ p.name = pkg[d].name /\ p.at = pkg[d].at /\ p.onnx = 0
  BY <1>3, BlankIs DEF Package
<1>6. GoesTo(c, "rmdir") /\ UNCHANGED <<run, pointer, sh, orphan, count, hist>>
  BY <1>1, GotoIs DEF Unlink, PC, DeployingPC
<1> HIDE DEF d, p
<1>7. pkg' \in [Deploys -> Package] /\ pkg'[d] = p /\ \A e \in Deploys \ {d} : pkg'[e] = pkg[e]
  BY <1>1, <1>2, <1>4, PkgIs
<1> QED
  BY <1>1, <1>4, <1>6, <1>7 DEF d

LEMMA RemoveStageIs ==
  ASSUME StructureInv, NEW c \in Clients, RemoveStage(c)
  PROVE  LET d == op[c].d IN
         /\ op[c].pc = "rmdir" /\ Ends(c)
         /\ \/ pkg[d].at # "stage" /\ pkg' = pkg
            \/ /\ pkg[d].at = "stage" /\ pkg' \in [Deploys -> Package]
               /\ pkg'[d] = NoPackage /\ \A e \in Deploys \ {d} : pkg'[e] = pkg[e]
         /\ UNCHANGED <<run, pointer, sh, orphan, count, hist>>
<1>1. op[c].pc = "rmdir" /\ op[c].d \in Deploys /\ TypeOK
  BY CommandIs DEF RemoveStage, DeployingPC
<1>2. NoPackage \in Package
  BY BlankIs
<1>3. Ends(c) /\ UNCHANGED <<run, pointer, sh, orphan, count, hist>>
  BY <1>1, StopIs DEF RemoveStage
<1> QED
  BY <1>1, <1>2, <1>3, PkgIs DEF RemoveStage

\* An activation that begins.
LEMMA ActivatesIs ==
  ASSUME StructureInv, NEW c \in Clients, op[c].pc # "idle",
         BeginActivation(c, op[c].name)
  PROVE  /\ GoesTo(c, "activate")
         /\ sh' \in [Clients -> ScriptOf] /\ \A b \in Clients \ {c} : sh'[b] = sh[b]
         /\ sh'[c].prog = <<"current", "onnx", "manifest">> /\ sh'[c].name = op[c].name
         /\ sh'[c].result = None
         /\ hist' \in History /\ hist'.trained = hist.trained
         /\ hist'.shared = hist.shared /\ hist'.passed = hist.passed
         /\ hist'.bench = hist.bench /\ hist'.own = hist.own
         /\ ~hist'.raced => /\ ~hist.raced /\ Activating = {} /\ orphan.prog = <<>>
                            /\ \A b \in Clients : op[b].cmd # "bench"
<1> DEFINE n == op[c].name
<1>1. TypeOK /\ op[c] \in Command /\ n \in Names
  BY CommandIs
<1> DEFINE t == [NoScript EXCEPT !.prog = ActivationScript, !.name = n]
<1>2. <<"current", "onnx", "manifest">> \in ActivationPrograms
  BY DEF ActivationPrograms
<1>3. /\ t \in ScriptOf /\ t.prog = <<"current", "onnx", "manifest">> /\ t.name = n
      /\ t.result = None
  BY <1>1, <1>2, BlankIs DEF ScriptOf, Name, ActivationScript
<1>4. sh' = [sh EXCEPT ![c] = t] /\ Goto(c, "activate")
  BY Zenon DEF BeginActivation
<1> HIDE DEF t
<1>5. sh' \in [Clients -> ScriptOf] /\ sh'[c] = t /\ \A b \in Clients \ {c} : sh'[b] = sh[b]
  BY <1>1, <1>3, <1>4, ShIs
<1>6. PICK raced \in BOOLEAN :
        /\ hist' = [hist EXCEPT !.raced = raced]
        /\ ~raced => /\ ~hist.raced /\ Activating = {} /\ orphan.prog = <<>>
                     /\ \A b \in Clients : op[b].cmd # "bench"
  BY Zenon DEF BeginActivation
<1>7. hist \in History
  BY <1>1 DEF TypeOK
<1>8. /\ hist' \in History /\ hist'.raced = raced /\ hist'.trained = hist.trained
      /\ hist'.shared = hist.shared /\ hist'.passed = hist.passed
      /\ hist'.bench = hist.bench /\ hist'.own = hist.own
  BY <1>6, <1>7 DEF History
<1>9. GoesTo(c, "activate")
  BY <1>1, <1>4, GotoIs DEF PC
<1> QED
  BY <1>3, <1>5, <1>6, <1>8, <1>9

\* The note of the release of a name is written.
NotesOnly ==
    /\ pkg' \in [Deploys -> Package]
    /\ \A e \in Deploys : /\ pkg'[e].name = pkg[e].name /\ pkg'[e].at = pkg[e].at
                          /\ pkg'[e].pt = pkg[e].pt /\ pkg'[e].onnx = pkg[e].onnx
                          /\ pkg'[e].meta = pkg[e].meta
                          /\ pkg[e].at # "release" => pkg'[e] = pkg[e]

LEMMA NoteIs ==
  ASSUME TypeOK, NEW n \in Names, pkg' = [pkg EXCEPT ![Released(n)].note = run[n].note]
  PROVE  NotesOnly
<1>1. run[n].note \in Note /\ pkg \in [Deploys -> Package]
  BY DEF TypeOK, RunDir
<1>2. CASE Released(n) = 0
  <2>1. Released(n) \notin Deploys
    BY <1>2, ReleaseConstants DEF Deploys
  <2> HIDE DEF Released
  <2>2. pkg' = pkg
    BY <1>1, <2>1
  <2> QED
    BY <1>1, <2>2 DEF NotesOnly
<1>3. CASE Released(n) # 0
  <2>1. Released(n) \in Deploys /\ pkg[Released(n)].at = "release"
    BY <1>3, ReleasedIs
  <2> DEFINE d == Released(n)
             p == [pkg[d] EXCEPT !.note = run[n].note]
  <2>2. pkg' = [pkg EXCEPT ![d] = p]
    BY Zenon
  <2> HIDE DEF d
  <2>3. /\ p \in Package /\ p.name = pkg[d].name /\ p.at = pkg[d].at /\ p.pt = pkg[d].pt
        /\ p.onnx = pkg[d].onnx /\ p.meta = pkg[d].meta
    BY <1>1, <2>1 DEF Package, d
  <2> HIDE DEF p
  <2>4. pkg' \in [Deploys -> Package] /\ pkg'[d] = p /\ \A e \in Deploys \ {d} : pkg'[e] = pkg[e]
    BY <2>1, <2>2, <2>3, PkgIs DEF d
  <2> QED
    BY <2>1, <2>3, <2>4 DEF NotesOnly, d
<1> QED
  BY <1>2, <1>3

LEMMA AnnounceIs ==
  ASSUME StructureInv, NEW c \in Clients, Announce(c)
  PROVE  /\ op[c].pc = "announce" /\ NotesOnly
         /\ BeginActivation(c, op[c].name) \/ (Ends(c) /\ UNCHANGED <<sh, hist>>)
         /\ UNCHANGED <<run, pointer, orphan, count>>
<1>1. op[c].pc = "announce" /\ op[c].name \in Names /\ TypeOK
  BY CommandIs DEF Announce
<1>2. /\ pkg' = [pkg EXCEPT ![Released(op[c].name)].note = run[op[c].name].note]
      /\ BeginActivation(c, op[c].name) \/ (Stop(c) /\ UNCHANGED <<sh, hist>>)
      /\ UNCHANGED <<run, pointer, orphan, count>>
  BY Zenon DEF Announce
<1> QED
  BY <1>1, <1>2, NoteIs, StopIs

LEMMA ActivatedIs ==
  ASSUME StructureInv, NEW c \in Clients, Activated(c)
  PROVE  /\ op[c].pc = "activate" /\ sh[c].result # None /\ Ends(c)
         /\ sh' \in [Clients -> ScriptOf] /\ \A b \in Clients \ {c} : sh'[b] = sh[b]
         /\ sh'[c] = NoScript
         /\ UNCHANGED <<run, pkg, pointer, orphan, count, hist>>
<1>1. TypeOK
  BY CommandIs
<1> QED
  BY <1>1, StopIs, ShIs, BlankIs DEF Activated

\* The commands nk use and nk bench-current.
LEMMA UseIs ==
  ASSUME StructureInv, NEW c \in Clients, NEW n \in Names, Use(c, n)
  PROVE  /\ op[c].pc = "idle" /\ OnlyActs(c)
         /\ \/ op'[c] = op[c]
            \/ /\ op'[c].pc = "use" /\ op'[c].cmd = "use" /\ op'[c].name = n /\ op'[c].d = 0
         /\ count' \in [training : Nat, deploy : 0 .. MaxDeploys, extra : Nat, lost : Nat]
         /\ count'.deploy = count.deploy /\ count'.lost = count.lost
         /\ UNCHANGED <<run, pkg, pointer, sh, orphan, hist>>
<1>1. TypeOK /\ op[c] \in Command
  BY CommandIs
<1> DEFINE x == [Idle EXCEPT !.pc = "use", !.cmd = "use", !.name = n]
<1>2. op' = [op EXCEPT ![c] = x] \/ op' = op
  BY Zenon DEF Use
<1>3. x \in Command /\ x.pc = "use" /\ x.cmd = "use" /\ x.name = n /\ x.d = 0
  BY IdleIs DEF Command, PC, Name
<1> HIDE DEF x
<1>4. /\ OnlyActs(c)
      /\ op'[c] = op[c] \/ op'[c] = x
  BY <1>1, <1>2, <1>3, BeginsIs DEF OnlyActs, TypeOK
<1>5. Bump("extra") /\ op[c].pc = "idle" /\ UNCHANGED <<run, pkg, pointer, sh, orphan, hist>>
  BY DEF Use
<1> QED
  BY <1>1, <1>3, <1>4, <1>5, BumpIs

LEMMA UseActivatesIs ==
  ASSUME NEW c \in Clients, UseActivates(c)
  PROVE  /\ op[c].pc = "use" /\ BeginActivation(c, op[c].name)
         /\ UNCHANGED <<run, pkg, pointer, orphan, count>>
BY DEF UseActivates

LEMMA BenchCurrentIs ==
  ASSUME StructureInv, NEW c \in Clients, BenchCurrent(c)
  PROVE  /\ op[c].pc = "idle" /\ OnlyActs(c) /\ pointer.current # None
         /\ op'[c].pc = "bench" /\ op'[c].cmd = "bench" /\ op'[c].name = pointer.current
         /\ op'[c].d = 0
         /\ count' \in [training : Nat, deploy : 0 .. MaxDeploys, extra : Nat, lost : Nat]
         /\ count'.deploy = count.deploy /\ count'.lost = count.lost
         /\ hist' \in History /\ hist'.trained = hist.trained
         /\ hist'.shared = hist.shared /\ hist'.passed = hist.passed
         /\ hist'.bench = hist.bench /\ hist'.own = hist.own
         /\ ~hist'.raced => ~hist.raced /\ Activating = {} /\ orphan.prog = <<>>
         /\ UNCHANGED <<run, pkg, pointer, sh, orphan>>
<1>1. TypeOK /\ hist \in History /\ pointer.current \in Name
  BY CommandIs DEF TypeOK, Pointer
<1> DEFINE x == [Idle EXCEPT !.pc = "bench", !.cmd = "bench", !.name = CurrentRelease]
<1>2. op' = [op EXCEPT ![c] = x]
  BY Zenon DEF BenchCurrent
<1>3. x \in Command /\ x.pc = "bench" /\ x.cmd = "bench" /\ x.name = pointer.current /\ x.d = 0
  BY <1>1, IdleIs DEF Command, PC, BenchPC, CurrentRelease
<1> HIDE DEF x
<1>4. OnlyActs(c) /\ op'[c] = x
  BY <1>1, <1>2, <1>3, BeginsIs
<1>5. PICK raced \in BOOLEAN :
        /\ hist' = [hist EXCEPT !.raced = raced]
        /\ ~raced => ~hist.raced /\ Activating = {} /\ orphan.prog = <<>>
  BY Zenon DEF BenchCurrent
<1>6. /\ hist' \in History /\ hist'.raced = raced /\ hist'.trained = hist.trained
      /\ hist'.shared = hist.shared /\ hist'.passed = hist.passed
      /\ hist'.bench = hist.bench /\ hist'.own = hist.own
  BY <1>1, <1>5 DEF History
<1>7. /\ Bump("extra") /\ op[c].pc = "idle" /\ pointer.current # None
      /\ UNCHANGED <<run, pkg, pointer, sh, orphan>>
  BY DEF BenchCurrent, CurrentRelease
<1> QED
  BY <1>1, <1>3, <1>4, <1>5, <1>6, <1>7, BumpIs

LEMMA CopyModelIs ==
  ASSUME StructureInv, NEW c \in Clients, CopyModel(c)
  PROVE  /\ op[c].pc = "bench" /\ OnlyActs(c) /\ pointer.onnx # None
         /\ op'[c].pc = "bench_meta" /\ op'[c].saw = pointer.onnx
         /\ op'[c].cmd = op[c].cmd /\ op'[c].name = op[c].name /\ op'[c].gen = op[c].gen
         /\ op'[c].d = op[c].d
         /\ UNCHANGED <<run, pkg, pointer, sh, orphan, count, hist>>
<1>1. TypeOK /\ op[c] \in Command /\ pointer.onnx \in Name
  BY CommandIs DEF TypeOK, Pointer
<1> DEFINE x == [op[c] EXCEPT !.pc = "bench_meta", !.saw = pointer.onnx]
<1>2. op' = [op EXCEPT ![c] = x]
  BY Zenon DEF CopyModel
<1>3. /\ x \in Command /\ x.pc = "bench_meta" /\ x.saw = pointer.onnx /\ x.cmd = op[c].cmd
      /\ x.name = op[c].name /\ x.gen = op[c].gen /\ x.d = op[c].d
  BY <1>1 DEF Command, PC, BenchPC
<1> HIDE DEF x
<1>4. OnlyActs(c) /\ op'[c] = x
  BY <1>1, <1>2, <1>3, BeginsIs
<1> QED
  BY <1>3, <1>4 DEF CopyModel

LEMMA CopyManifestIs ==
  ASSUME StructureInv, NEW c \in Clients, CopyManifest(c)
  PROVE  /\ op[c].pc = "bench_meta" /\ Ends(c)
         /\ hist' \in History /\ hist'.trained = hist.trained
         /\ hist'.shared = hist.shared /\ hist'.passed = hist.passed
         /\ hist'.own = hist.own /\ hist'.raced = hist.raced
         /\ hist'.bench = hist.bench \cup {<<op[c].name, op[c].saw, pointer.manifest>>}
         /\ UNCHANGED <<run, pkg, pointer, sh, orphan, count>>
<1>1. TypeOK /\ op[c] \in Command /\ hist \in History /\ pointer \in Pointer
  BY CommandIs DEF TypeOK
<1> DEFINE b == <<op[c].name, op[c].saw, pointer.manifest>>
<1>2. hist' = [hist EXCEPT !.bench = hist.bench \cup {b}]
  BY Zenon DEF CopyManifest
<1>3. b \in Name \X Name \X Name
  BY <1>1 DEF Command, Pointer
<1> HIDE DEF b
<1>4. /\ hist' \in History /\ hist'.trained = hist.trained
      /\ hist'.shared = hist.shared /\ hist'.passed = hist.passed
      /\ hist'.own = hist.own /\ hist'.raced = hist.raced
      /\ hist'.bench = hist.bench \cup {b}
  BY <1>1, <1>2, <1>3 DEF History
<1> QED
  BY <1>1, <1>4, StopIs DEF CopyManifest, b

\* A connection is lost, or a client killed.
Detached(c) ==
    /\ orphan.prog = <<>> /\ orphan' = sh[c] /\ orphan' \in ScriptOf
    /\ sh' \in [Clients -> ScriptOf] /\ \A b \in Clients \ {c} : sh'[b] = sh[b]
    /\ sh'[c] = NoScript
    /\ count' \in [training : Nat, deploy : 0 .. MaxDeploys, extra : Nat, lost : Nat]
    /\ count'.deploy = count.deploy /\ count'.lost # 0

LEMMA DetachIs ==
  ASSUME TypeOK, NEW c \in Clients, Detach(c)
  PROVE  Detached(c)
<1>1. count.lost \in Nat /\ sh[c] \in ScriptOf
  BY DEF TypeOK
<1>2. count'.lost = count.lost + 1
  BY BumpIs DEF Detach
<1>3. count'.lost # 0
  BY <1>1, <1>2
<1> QED
  BY <1>1, <1>3, BumpIs, ShIs, BlankIs DEF Detach, Detached

LEMMA LoseConnectionIs ==
  ASSUME StructureInv, NEW c \in Clients, LoseConnection(c)
  PROVE  /\ op[c].pc \in {"mkdir", "install", "cleanup", "announce", "activate"}
         /\ Detached(c)
         /\ \/ op[c].pc = "install" /\ GoesTo(c, "cleanup")
            \/ op[c].pc # "install" /\ Ends(c)
         /\ \/ pkg' = pkg
            \/ op[c].pc = "mkdir" /\ StageMade(c)
            \/ op[c].pc = "announce" /\ NotesOnly
         /\ UNCHANGED <<run, pointer, hist>>
<1>1. /\ op[c].pc \in {"mkdir", "install", "cleanup", "announce", "activate"} /\ TypeOK
      /\ op[c].name \in Names
  BY CommandIs DEF LoseConnection
<1>2. Detach(c) /\ UNCHANGED <<run, pointer, hist>>
  BY DEF LoseConnection
<1>3. \/ op[c].pc = "install" /\ Goto(c, "cleanup")
      \/ op[c].pc # "install" /\ Stop(c)
  BY DEF LoseConnection
<1>4. \/ pkg' = pkg
      \/ /\ op[c].pc = "mkdir"
         /\ pkg' = [pkg EXCEPT ![op[c].d].name = op[c].name, ![op[c].d].at = "stage"]
      \/ /\ op[c].pc = "announce"
         /\ pkg' = [pkg EXCEPT ![Released(op[c].name)].note = run[op[c].name].note]
  BY Zenon DEF LoseConnection
<1>5. \/ op[c].pc = "install" /\ GoesTo(c, "cleanup")
      \/ op[c].pc # "install" /\ Ends(c)
  BY <1>1, <1>3, GotoIs, StopIs DEF PC, DeployingPC
<1>6. \/ pkg' = pkg
      \/ op[c].pc = "mkdir" /\ StageMade(c)
      \/ op[c].pc = "announce" /\ NotesOnly
  BY <1>1, <1>4, StageIs, NoteIs
<1> QED
  BY <1>1, <1>2, <1>5, <1>6, DetachIs

LEMMA KilledIs ==
  ASSUME StructureInv, NEW c \in Clients, Killed(c)
  PROVE  op[c].pc # "idle" /\ Detached(c) /\ Ends(c) /\ UNCHANGED <<run, pkg, pointer, hist>>
BY CommandIs, DetachIs, StopIs DEF Killed

\* The remote scripts: what is left of a script that runs a command.
LEMMA RunningIs ==
  ASSUME TypeOK, NEW x \in Clients \cup {"orphan"}
  PROVE  /\ Running(x, "unpack") => Script(x).prog = <<"unpack", "absent", "mv">>
         /\ Running(x, "absent") => Script(x).prog = <<"absent", "mv">>
         /\ Running(x, "mv") => Script(x).prog = <<"mv">>
         /\ Running(x, "current") => Script(x).prog = <<"current", "onnx", "manifest">>
         /\ Running(x, "onnx") => Script(x).prog = <<"onnx", "manifest">>
         /\ Running(x, "manifest") => Script(x).prog = <<"manifest">>
<1> DEFINE p == Script(x).prog
<1>1. p \in {<<>>} \cup InstallPrograms \cup ActivationPrograms
  BY ScriptIs DEF ScriptOf
<1> HIDE DEF p
<1>2. p = <<>> \/ \/ p = <<"unpack", "absent", "mv">> /\ Head(p) = "unpack"
                  \/ p = <<"absent", "mv">> /\ Head(p) = "absent"
                  \/ p = <<"mv">> /\ Head(p) = "mv"
                  \/ p = <<"current", "onnx", "manifest">> /\ Head(p) = "current"
                  \/ p = <<"onnx", "manifest">> /\ Head(p) = "onnx"
                  \/ p = <<"manifest">> /\ Head(p) = "manifest"
  BY <1>1, Programs DEF InstallPrograms, ActivationPrograms
<1> QED
  BY <1>2 DEF p, Running

\* Where an install script works: the deployment of the command that waits for it, or one
\* that is given up.
LEMMA InstallScriptIs ==
  ASSUME StructureInv, NEW x \in Clients \cup {"orphan"}, Script(x).prog \in InstallPrograms
  PROVE  /\ Script(x).d \in Deploys /\ MovesItsOwn(Script(x))
         /\ x # "orphan" => /\ x \in Clients /\ op[x].pc = "install"
                            /\ Script(x).d = op[x].d /\ Script(x).name = op[x].name
         /\ \A c \in Clients :
              op[c].d = Script(x).d => x = c \/ op[c].pc \in {"cleanup", "unlink", "rmdir"}
<1>1. CASE x = "orphan"
  <2>1. orphan \in ScriptOf /\ Script(x) = orphan
    BY <1>1 DEF StructureInv, TypeOK, Script
  <2>2. MaxDeploys \in Nat /\ orphan.d \in 0 .. MaxDeploys /\ OrphanInv /\ PackageInv
    BY <2>1, ReleaseConstants DEF ScriptOf, StructureInv
  <2>3. orphan.prog \in InstallPrograms
    BY <2>1
  <2>4. orphan.d \in Deploys
    BY <2>2, <2>3 DEF OrphanInv, Deploys
  <2> QED
    BY <1>1, <2>1, <2>2, <2>3, <2>4 DEF OrphanInv, PackageInv
<1>2. CASE x # "orphan"
  <2>1. x \in Clients /\ Script(x) = sh[x] /\ CommandInv /\ ScriptInv /\ PackageInv
    BY <1>2 DEF Script, StructureInv
  <2>2. op[x].pc = "install"
    BY <2>1, ProgramsDiffer, BlankIs DEF ScriptInv
  <2>3. Script(x).d = op[x].d /\ Script(x).name = op[x].name /\ op[x].d \in Deploys
    BY <2>1, <2>2, CommandIs DEF ScriptInv, DeployingPC
  <2>4. \A c \in Clients : op[c].d = op[x].d => x = c
    BY <2>1, <2>3, ReleaseConstants DEF CommandInv, Deploys
  <2> QED
    BY <1>2, <2>1, <2>2, <2>3, <2>4 DEF PackageInv
<1> QED
  BY <1>1, <1>2

\* What each remote command does.
Turns(x, how(_, _)) == \E t \in ScriptOf : Put(x, t) /\ how(Script(x), t)

LEMMA UnpackIs ==
  ASSUME StructureInv, NEW x \in Clients \cup {"orphan"}, Unpack(x)
  PROVE  /\ Script(x).prog = <<"unpack", "absent", "mv">>
         /\ \/ Turns(x, Aborted)
            \/ /\ Turns(x, Advanced)
               /\ pkg[Script(x).d].at = "stage"
               /\ pkg[Script(x).d].onnx # 0 /\ pkg[Script(x).d].meta # 0
         /\ UNCHANGED <<run, pkg, pointer, op, count, hist>>
BY CommandIs, RunningIs, AdvanceIs, AbortIs DEF StructureInv, Unpack, Turns

LEMMA CheckAbsentIs ==
  ASSUME StructureInv, NEW x \in Clients \cup {"orphan"}, CheckAbsent(x)
  PROVE  /\ Script(x).prog = <<"absent", "mv">>
         /\ Turns(x, Aborted) \/ Turns(x, Advanced)
         /\ UNCHANGED <<run, pkg, pointer, op, count, hist>>
BY RunningIs, AdvanceIs, AbortIs DEF StructureInv, CheckAbsent, Turns

LEMMA MoveStageIs ==
  ASSUME StructureInv, NEW x \in Clients \cup {"orphan"}, MoveStage(x)
  PROVE  LET d == Script(x).d IN
         /\ Script(x).prog = <<"mv">>
         /\ \/ Turns(x, Aborted) /\ pkg[d].at # "stage" /\ pkg' = pkg
            \/ /\ Turns(x, Advanced) /\ pkg[d].at = "stage"
               /\ pkg' \in [Deploys -> Package] /\ \A e \in Deploys \ {d} : pkg'[e] = pkg[e]
               /\ pkg'[d].name = pkg[d].name /\ pkg'[d].pt = pkg[d].pt
               /\ pkg'[d].onnx = pkg[d].onnx /\ pkg'[d].meta = pkg[d].meta
               /\ \/ pkg'[d].at = "nested"
                  \/ pkg'[d].at = "release" /\ ~IsReleased(Script(x).name)
         /\ UNCHANGED <<run, pointer, op, count, hist>>
<1> DEFINE d == Script(x).d
<1>1. TypeOK /\ Script(x).prog = <<"mv">>
  BY RunningIs DEF StructureInv, MoveStage
<1>2. d \in Deploys
  BY <1>1, InstallScriptIs DEF InstallPrograms
<1>3. CASE pkg[d].at # "stage"
  BY <1>1, <1>3, AbortIs DEF MoveStage, Turns
<1>4. CASE pkg[d].at = "stage"
  <2>1. PICK at \in {"release", "nested"} :
          /\ pkg' = [pkg EXCEPT ![d] = [pkg[d] EXCEPT !.at = at]]
          /\ at = "release" => Released(Script(x).name) = 0
    <3>1. pkg' = [pkg EXCEPT ![d] = [pkg[d] EXCEPT
                    !.at = IF Released(Script(x).name) = 0 THEN "release" ELSE "nested"]]
      BY <1>4, Zenon DEF MoveStage
    <3> QED
      BY <3>1, Zenon
  <2> DEFINE p == [pkg[d] EXCEPT !.at = at]
  <2>2. pkg[d] \in Package
    BY <1>1, <1>2 DEF TypeOK
  <2>3. /\ p \in Package /\ p.at = at /\ p.name = pkg[d].name /\ p.pt = pkg[d].pt
        /\ p.onnx = pkg[d].onnx /\ p.meta = pkg[d].meta
    BY <2>2 DEF Package
  <2> HIDE DEF p, d
  <2>4. pkg' \in [Deploys -> Package] /\ pkg'[d] = p /\ \A e \in Deploys \ {d} : pkg'[e] = pkg[e]
    BY <1>1, <1>2, <2>1, <2>3, PkgIs DEF p
  <2>5. Turns(x, Advanced) /\ UNCHANGED <<run, pointer, op, count, hist>>
    BY <1>1, <1>4, AdvanceIs DEF MoveStage, Turns, d
  <2>6. at = "release" => ~IsReleased(Script(x).name)
    BY <2>1, ReleasedIs
  <2> QED
    BY <1>1, <1>4, <2>1, <2>3, <2>4, <2>5, <2>6 DEF d
<1> QED
  BY <1>3, <1>4

LEMMA CopyCurrentIs ==
  ASSUME StructureInv, NEW x \in Clients \cup {"orphan"}, CopyCurrent(x)
  PROVE  /\ Script(x).prog = <<"current", "onnx", "manifest">>
         /\ \/ Turns(x, Aborted) /\ pointer' = pointer
            \/ /\ Turns(x, Advanced) /\ pointer' \in Pointer
               /\ IsReleased(Script(x).name) /\ pointer'.current = Script(x).name
               /\ pointer'.onnx = pointer.onnx /\ pointer'.manifest = pointer.manifest
         /\ UNCHANGED <<run, pkg, op, count, hist>>
<1> DEFINE n == Script(x).name
           d == Released(n)
<1>1. TypeOK /\ Script(x).prog = <<"current", "onnx", "manifest">> /\ n \in Name
  BY RunningIs, ScriptIs DEF StructureInv, CopyCurrent, ScriptOf
<1>2. CASE d # 0 /\ pkg[d].note # NoNote
  <2>1. d \in Deploys /\ IsReleased(n)
    BY <1>2, ReleasedIs DEF IsReleased
  <2>2. pkg[d].note.status \in {None, "prepared", "deployed"} /\ pointer \in Pointer
    BY <1>1, <2>1 DEF TypeOK, Package, Note
  <2>3. pointer' = [pointer EXCEPT !.current = n, !.status = pkg[d].note.status]
    BY <1>2, Zenon DEF CopyCurrent
  <2>4. Turns(x, Advanced) /\ UNCHANGED <<run, pkg, op, count, hist>>
    BY <1>1, <1>2, AdvanceIs DEF CopyCurrent, Turns
  <2> HIDE DEF n, d
  <2>5. /\ pointer' \in Pointer /\ pointer'.current = n
        /\ pointer'.onnx = pointer.onnx /\ pointer'.manifest = pointer.manifest
    BY <1>1, <2>2, <2>3 DEF Pointer
  <2> QED
    BY <1>1, <2>1, <2>4, <2>5 DEF n
<1>3. CASE ~(d # 0 /\ pkg[d].note # NoNote)
  BY <1>1, <1>3, AbortIs DEF CopyCurrent, Turns
<1> QED
  BY <1>2, <1>3

LEMMA LinkIs ==
  ASSUME StructureInv, NEW x \in Clients \cup {"orphan"}, NEW which \in {"onnx", "manifest"},
         Link(x, which)
  PROVE  /\ which = "onnx" => Script(x).prog = <<"onnx", "manifest">>
         /\ which = "manifest" => Script(x).prog = <<"manifest">>
         /\ Turns(x, Advanced)
         /\ pointer' \in Pointer /\ pointer'.current = pointer.current
         /\ which = "onnx" => /\ pointer'.onnx = Script(x).name
                              /\ pointer'.manifest = pointer.manifest
         /\ which = "manifest" => /\ pointer'.manifest = Script(x).name
                                  /\ pointer'.onnx = pointer.onnx
         /\ UNCHANGED <<run, pkg, op, count, hist>>
<1>1. /\ TypeOK /\ Script(x).name \in Name /\ pointer \in Pointer
      /\ which = "onnx" => Script(x).prog = <<"onnx", "manifest">>
      /\ which = "manifest" => Script(x).prog = <<"manifest">>
  BY RunningIs, ScriptIs DEF StructureInv, Link, ScriptOf, TypeOK
<1>2. Turns(x, Advanced) /\ UNCHANGED <<run, pkg, op, count, hist>>
  BY <1>1, AdvanceIs DEF Link, Turns
<1>3. pointer' = [pointer EXCEPT ![which] = Script(x).name]
  BY Zenon DEF Link
<1>4. CASE which = "onnx"
  BY <1>1, <1>2, <1>3, <1>4 DEF Pointer
<1>5. CASE which = "manifest"
  BY <1>1, <1>2, <1>3, <1>5 DEF Pointer
<1> QED
  BY <1>4, <1>5

-----------------------------------------------------------------------------
(* The types and the structure, step by step.                              *)

\* A step of a command that has no deployment, before or after: a training, a wait for
\* an activation, a benchmark.
Outside(x) == x.pc \notin DeployingPC \cup {"activate"} /\ x.d = 0

OutsideStep(c) ==
    /\ Outside(op[c]) /\ Outside(op'[c]) /\ OnlyActs(c) /\ CommandSound(op'[c])
    /\ count'.deploy = count.deploy /\ count'.lost = count.lost
    /\ UNCHANGED <<pkg, pointer, sh, orphan>>

TrainingAction(c) ==
    \/ \E n \in Names : Train(c, n) \/ TrainDeploy(c, n)
    \/ Preflight(c) \/ PrepareRunDir(c) \/ Begin(c)
    \/ TrainWorldModel(c) \/ ExportOnnx(c) \/ RunGateAblation(c)

UsingAction(c) ==
    \/ \E n \in Names : Use(c, n)
    \/ BenchCurrent(c) \/ CopyModel(c) \/ CopyManifest(c)

LEMMA OutsideIs ==
  ASSUME StructureInv, NEW c \in Clients, TrainingAction(c) \/ UsingAction(c)
  PROVE  OutsideStep(c)
<1> DEFINE x == op[c]  y == op'[c]
<1>1. /\ TypeOK /\ CommandSound(x) /\ count.deploy \in Nat /\ x \in Command
      /\ Idle.pc = "idle" /\ Idle.d = 0 /\ CommandSound(Idle) /\ Outside(Idle)
  BY CommandIs, IdleIs, ReleaseConstants
     DEF CommandSound, Outside, TrainingPC, DeployingPC, BenchPC
<1> USE <1>1 DEF CommandSound, Outside, TrainingPC, DeployingPC, BenchPC, OutsideStep
<1>2. ASSUME NEW n \in Names, Train(c, n) \/ TrainDeploy(c, n)
      PROVE  OutsideStep(c)
  <2>1. PICK cmd \in {"train", "train_deploy"}, pc \in {"preflight", "prepare"} :
          Start(c, n, cmd, pc)
    BY <1>2 DEF Train, TrainDeploy
  <2>2. count'.deploy = count.deploy /\ count'.lost = count.lost
    BY <2>1, BumpIs DEF Start
  <2>3. UNCHANGED <<pkg, pointer, sh, orphan>>
    BY <2>1 DEF Start
  <2> QED
    BY <2>1, <2>2, <2>3, StartIs
<1>3. CASE Preflight(c) \/ PrepareRunDir(c)
  <2>1. op[c].pc \in {"preflight", "prepare"}
    BY <1>3 DEF Preflight, PrepareRunDir
  <2> QED
    BY <1>3, <2>1, WalksIs DEF GoesTo, Ends
<1>4. CASE Begin(c)
  BY <1>4, BeginIs DEF GoesTo
<1>5. CASE TrainWorldModel(c)
  BY <1>5, TrainWorldModelIs DEF GoesTo, Ends
<1>6. CASE ExportOnnx(c)
  BY <1>6, ExportOnnxIs DEF GoesTo, Ends
<1>7. CASE RunGateAblation(c)
  BY <1>7, RunGateAblationIs DEF GoesTo, Ends
<1>8. ASSUME NEW n \in Names, Use(c, n)
      PROVE  OutsideStep(c)
  BY <1>8, UseIs
<1>9. CASE BenchCurrent(c)
  <2>1. pointer.current \in Names
    BY <1>9, BenchCurrentIs DEF TypeOK, Pointer, Name
  <2> QED
    BY <1>9, <2>1, BenchCurrentIs
<1>10. CASE CopyModel(c)
  BY <1>10, CopyModelIs
<1>11. CASE CopyManifest(c)
  BY <1>11, CopyManifestIs DEF Ends
<1> QED
  BY <1>2, <1>3, <1>4, <1>5, <1>6, <1>7, <1>8, <1>9, <1>10, <1>11
     DEF TrainingAction, UsingAction

\* A deployment that begins.
NewDeployment(c) ==
    /\ op[c].pc \in {"idle", "new_deploy"} /\ op[c].d = 0 /\ OnlyActs(c)
    /\ op'[c].pc = "require" /\ op'[c].cmd \in {"deploy", "train_deploy"}
    /\ op'[c].name \in Names /\ op'[c].d = count.deploy + 1 /\ count.deploy < MaxDeploys
    /\ count'.deploy = count.deploy + 1 /\ count'.lost = count.lost
    /\ UNCHANGED <<run, pkg, pointer, sh, orphan>>

LEMMA NewDeploymentIs ==
  ASSUME StructureInv, NEW c \in Clients,
         (\E n \in Names : StartDeploy(c, n)) \/ DeployTrained(c)
  PROVE  NewDeployment(c)
<1>1. CommandSound(op[c]) /\ (op[c].pc # "idle" => op[c].name \in Names)
  BY CommandIs
<1>2. ASSUME NEW n \in Names, StartDeploy(c, n)
      PROVE  NewDeployment(c)
  BY <1>1, <1>2, StartDeployIs, IdleIs DEF NewDeployment, CommandSound
<1>3. CASE DeployTrained(c)
  BY <1>1, <1>3, DeployTrainedIs DEF NewDeployment, CommandSound, TrainingPC
<1> QED
  BY <1>2, <1>3

\* The remaining commands.
DeployAction(c) ==
    \/ RequireArtifacts(c) \/ MakeStage(c) \/ Upload(c) \/ Installed(c) \/ Cleanup(c)
    \/ Unlink(c) \/ RemoveStage(c) \/ Announce(c) \/ UseActivates(c) \/ Activated(c)

\* The type of the scripts after a step of one of them.
LEMMA TurnsType ==
  ASSUME TypeOK, NEW x \in Clients \cup {"orphan"},
         Turns(x, Advanced) \/ Turns(x, Aborted)
  PROVE  sh' \in [Clients -> ScriptOf] /\ orphan' \in ScriptOf
BY PutIs DEF Turns

\* The steps of the remote scripts keep the types.
LEMMA RemoteTypes ==
  ASSUME StructureInv, NEW x \in Clients \cup {"orphan"}, RemoteStep(x)
  PROVE  TypeOK'
<1> USE DEF TypeOK
<1>1. TypeOK
  BY DEF StructureInv
<1>2. CASE Unpack(x)
  BY <1>1, <1>2, UnpackIs, TurnsType
<1>3. CASE CheckAbsent(x)
  BY <1>1, <1>3, CheckAbsentIs, TurnsType
<1>4. CASE MoveStage(x)
  BY <1>1, <1>4, MoveStageIs, TurnsType
<1>5. CASE CopyCurrent(x)
  BY <1>1, <1>5, CopyCurrentIs, TurnsType
<1>6. ASSUME NEW which \in {"onnx", "manifest"}, Link(x, which)
      PROVE  TypeOK'
  BY <1>1, <1>6, LinkIs, TurnsType
<1> QED
  BY <1>2, <1>3, <1>4, <1>5, <1>6 DEF RemoteStep

LEMMA ClientTypes ==
  ASSUME StructureInv, NEW c \in Clients, ClientStep(c)
  PROVE  TypeOK'
<1>1. TypeOK /\ (op[c].pc # "idle" => op[c].name \in Names)
  BY CommandIs
<1> USE <1>1 DEF TypeOK, OnlyActs, GoesTo, Ends
<1>2. ASSUME NEW n \in Names, Train(c, n) \/ TrainDeploy(c, n)
      PROVE  TypeOK'
  <2>1. PICK cmd \in {"train", "train_deploy"}, pc \in {"preflight", "prepare"} :
          Start(c, n, cmd, pc)
    BY <1>2 DEF Train, TrainDeploy
  <2>2. UNCHANGED <<run, pkg, pointer, sh, orphan, hist>> /\ Bump("training")
    BY <2>1 DEF Start
  <2>3. count' \in [training : Nat, deploy : 0 .. MaxDeploys, extra : Nat, lost : Nat]
    BY <2>2, BumpIs
  <2> QED
    BY <2>1, <2>2, <2>3, StartIs
<1>3. CASE Preflight(c) \/ PrepareRunDir(c) \/ Cleanup(c)
  BY <1>3, WalksIs
<1>4. CASE Begin(c)
  BY <1>4, BeginIs
<1>5. CASE TrainWorldModel(c) \/ ExportOnnx(c)
  BY <1>5, TrainWorldModelIs, ExportOnnxIs
<1>6. CASE RunGateAblation(c)
  BY <1>6, RunGateAblationIs
<1>7. ASSUME NEW n \in Names, StartDeploy(c, n)
      PROVE  TypeOK'
  BY <1>7, StartDeployIs
<1>8. CASE DeployTrained(c)
  BY <1>8, DeployTrainedIs
<1>9. CASE RequireArtifacts(c)
  BY <1>9, RequireArtifactsIs
<1>10. CASE MakeStage(c)
  BY <1>10, MakeStageIs DEF StageMade
<1>11. CASE Upload(c)
  BY <1>11, UploadIs
<1>12. CASE Installed(c)
  BY <1>12, InstalledIs
<1>13. CASE Unlink(c)
  BY <1>13, UnlinkIs
<1>14. CASE RemoveStage(c)
  BY <1>14, RemoveStageIs
<1>15. CASE Announce(c)
  BY <1>15, AnnounceIs, ActivatesIs DEF NotesOnly
<1>16. CASE Activated(c)
  BY <1>16, ActivatedIs
<1>17. ASSUME NEW n \in Names, Use(c, n)
       PROVE  TypeOK'
  BY <1>17, UseIs
<1>18. CASE UseActivates(c)
  BY <1>18, UseActivatesIs, ActivatesIs
<1>19. CASE BenchCurrent(c)
  BY <1>19, BenchCurrentIs
<1>20. CASE CopyModel(c) \/ CopyManifest(c)
  BY <1>20, CopyModelIs, CopyManifestIs
<1> QED
  BY <1>2, <1>3, <1>4, <1>5, <1>6, <1>7, <1>8, <1>9, <1>10, <1>11, <1>12, <1>13, <1>14, <1>15,
     <1>16, <1>17, <1>18, <1>19, <1>20 DEF ClientStep

LEMMA NextTypes ==
  ASSUME StructureInv, [Next]_vars
  PROVE  TypeOK'
<1>1. TypeOK
  BY DEF StructureInv
<1>2. ASSUME NEW c \in Clients, ClientStep(c)
      PROVE  TypeOK'
  BY <1>2, ClientTypes
<1>3. ASSUME NEW c \in Clients, LoseConnection(c)
      PROVE  TypeOK'
  BY <1>1, <1>3, LoseConnectionIs
     DEF Detached, GoesTo, Ends, OnlyActs, StageMade, NotesOnly, TypeOK
<1>4. ASSUME NEW c \in Clients, Killed(c)
      PROVE  TypeOK'
  BY <1>1, <1>4, KilledIs DEF Detached, Ends, OnlyActs, TypeOK
<1>5. ASSUME NEW x \in Clients \cup {"orphan"}, RemoteStep(x)
      PROVE  TypeOK'
  BY <1>5, RemoteTypes
<1>6. CASE OrphanEnds
  BY <1>1, <1>6, BlankIs DEF OrphanEnds, TypeOK
<1>7. CASE UNCHANGED vars
  BY <1>1, <1>7 DEF vars, TypeOK
<1> QED
  BY <1>2, <1>3, <1>4, <1>5, <1>6, <1>7 DEF Next

\* A command belongs to one deployment: a step gives its command no deployment, the one it
\* had, or a new one.
LEMMA CommandKeeps ==
  ASSUME StructureInv, NEW c \in Clients, OnlyActs(c), count.deploy =< count'.deploy,
         CommandSound(op[c])', count'.deploy \in Nat,
         \/ op'[c].d \in {0, op[c].d}
         \/ op'[c].d = count.deploy + 1
  PROVE  CommandInv'
<1>1. /\ op \in [Clients -> Command] /\ op' \in [Clients -> Command] /\ CommandInv
      /\ count.deploy \in Nat
  BY CommandIs, ReleaseConstants DEF StructureInv, TypeOK, OnlyActs
<1>2. ASSUME NEW b \in Clients
      PROVE  CommandSound(op[b])' /\ (op'[b].d # 0 /\ op'[b].d = op'[c].d => b = c)
  <2>1. op[b].d =< count.deploy /\ op[b].d \in Nat /\ CommandSound(op[b])
    BY <1>1, CommandIs, ReleaseConstants DEF CommandInv, CommandSound, Command
  <2>2. CASE b = c
    BY <2>2
  <2>3. CASE b # c
    <3>1. op'[b] = op[b]
      BY <2>3 DEF OnlyActs
    <3>2. CommandSound(op[b])'
      BY <1>1, <2>1, <3>1 DEF CommandSound
    <3>3. ~(op'[b].d # 0 /\ op'[b].d = op'[c].d)
      BY <1>1, <2>1, <2>3, <3>1 DEF CommandInv
    <3> QED
      BY <3>2, <3>3
  <2> QED
    BY <2>2, <2>3
<1>3. \A a, b \in Clients : op'[a].d = op'[b].d /\ op'[a].d # 0 => a = b
  <2>1. TAKE a, b \in Clients
  <2>2. CASE a = c \/ b = c
    BY <1>2, <2>2
  <2>3. CASE a # c /\ b # c
    BY <1>1, <2>3 DEF OnlyActs, CommandInv
  <2> QED
    BY <2>2, <2>3
<1> QED
  BY <1>2, <1>3 DEF CommandInv

\* The steps of a deployment keep the command sound.
LEMMA DeployCommand ==
  ASSUME StructureInv, NEW c \in Clients, DeployAction(c)
  PROVE  /\ OnlyActs(c) /\ count'.deploy = count.deploy /\ count'.lost = count.lost
         /\ CommandSound(op'[c]) /\ op'[c].d \in {0, op[c].d}
<1>1. TypeOK /\ CommandSound(op[c]) /\ CommandSound(Idle) /\ Idle.d = 0
  BY CommandIs, IdleIs, ReleaseConstants
     DEF CommandSound, TrainingPC, DeployingPC, BenchPC
<1> USE <1>1 DEF CommandSound, TrainingPC, DeployingPC, BenchPC, GoesTo, Ends
<1>2. CASE RequireArtifacts(c)
  BY <1>2, RequireArtifactsIs
<1>3. CASE MakeStage(c)
  BY <1>3, MakeStageIs
<1>4. CASE Upload(c)
  BY <1>4, UploadIs
<1>5. CASE Installed(c)
  BY <1>5, InstalledIs
<1>6. CASE Cleanup(c)
  BY <1>6, WalksIs
<1>7. CASE Unlink(c)
  BY <1>7, UnlinkIs
<1>8. CASE RemoveStage(c)
  BY <1>8, RemoveStageIs
<1>9. CASE Announce(c)
  BY <1>9, AnnounceIs, ActivatesIs
<1>10. CASE UseActivates(c)
  BY <1>10, UseActivatesIs, ActivatesIs
<1>11. CASE Activated(c)
  BY <1>11, ActivatedIs
<1> QED
  BY <1>2, <1>3, <1>4, <1>5, <1>6, <1>7, <1>8, <1>9, <1>10, <1>11 DEF DeployAction

\* Every step is one of these.
LEMMA Steps ==
  ASSUME [Next]_vars, StructureInv
  PROVE  \/ \E c \in Clients :
              \/ TrainingAction(c) \/ UsingAction(c)
              \/ (\E n \in Names : StartDeploy(c, n)) \/ DeployTrained(c)
              \/ DeployAction(c)
              \/ LoseConnection(c) \/ Killed(c)
         \/ \E x \in Clients \cup {"orphan"} : RemoteStep(x)
         \/ OrphanEnds \/ UNCHANGED vars
BY DEF Next, ClientStep, TrainingAction, UsingAction, DeployAction

LEMMA NextCommands ==
  ASSUME StructureInv, [Next]_vars
  PROVE  CommandInv' /\ count.deploy =< count'.deploy
<1>1. CommandInv /\ count.deploy \in Nat /\ op \in [Clients -> Command]
  BY CommandIs, ReleaseConstants DEF StructureInv, TypeOK
<1>2. ASSUME NEW c \in Clients, OnlyActs(c), CommandSound(op'[c]), count'.deploy = count.deploy,
             op'[c].d \in {0, op[c].d}
      PROVE  CommandInv' /\ count.deploy =< count'.deploy
  <2>1. CommandSound(op[c])' /\ count.deploy =< count'.deploy
    BY <1>1, <1>2 DEF CommandSound
  <2> QED
    BY <1>1, <1>2, <2>1, CommandKeeps
<1>3. ASSUME NEW c \in Clients, TrainingAction(c) \/ UsingAction(c)
      PROVE  CommandInv' /\ count.deploy =< count'.deploy
  BY <1>2, <1>3, OutsideIs DEF OutsideStep, Outside
<1>4. ASSUME NEW c \in Clients, (\E n \in Names : StartDeploy(c, n)) \/ DeployTrained(c)
      PROVE  CommandInv' /\ count.deploy =< count'.deploy
  <2>1. NewDeployment(c)
    BY <1>4, NewDeploymentIs
  <2>2. CommandSound(op[c])' /\ count.deploy =< count'.deploy /\ count'.deploy \in Nat
    BY <1>1, <2>1 DEF NewDeployment, CommandSound, TrainingPC, DeployingPC, BenchPC
  <2> QED
    BY <2>1, <2>2, CommandKeeps DEF NewDeployment
<1>5. ASSUME NEW c \in Clients, DeployAction(c)
      PROVE  CommandInv' /\ count.deploy =< count'.deploy
  BY <1>2, <1>5, DeployCommand
<1>6. ASSUME NEW c \in Clients, LoseConnection(c) \/ Killed(c)
      PROVE  CommandInv' /\ count.deploy =< count'.deploy
  <2>1. /\ (op[c].pc = "install" /\ GoesTo(c, "cleanup")) \/ Ends(c)
        /\ count'.deploy = count.deploy
    BY <1>6, LoseConnectionIs, KilledIs DEF Detached
  <2>2. CommandSound(op[c]) /\ CommandSound(Idle) /\ Idle.d = 0
    BY CommandIs, IdleIs, ReleaseConstants
       DEF CommandSound, TrainingPC, DeployingPC, BenchPC
  <2>3. OnlyActs(c) /\ CommandSound(op'[c]) /\ op'[c].d \in {0, op[c].d}
    BY <2>1, <2>2 DEF CommandSound, TrainingPC, DeployingPC, BenchPC, GoesTo, Ends
  <2> QED
    BY <1>2, <2>1, <2>3
<1>7. ASSUME op' = op, count' = count
      PROVE  CommandInv' /\ count.deploy =< count'.deploy
  BY <1>1, <1>7 DEF CommandInv, CommandSound
<1>8. ASSUME NEW x \in Clients \cup {"orphan"}, RemoteStep(x)
      PROVE  CommandInv' /\ count.deploy =< count'.deploy
  BY <1>7, <1>8, RemoteIs DEF StructureInv
<1>9. CASE OrphanEnds \/ UNCHANGED vars
  BY <1>7, <1>9 DEF OrphanEnds, vars
<1> QED
  BY <1>3, <1>4, <1>5, <1>6, <1>8, <1>9, Steps

\* The script of a client goes on, until the client takes its result.
ScriptSound(x, s) ==
    /\ x.pc \notin {"install", "activate"} => s = NoScript
    /\ x.pc = "install" =>
          s.prog \in InstallPrograms \cup {<<>>} /\ s.d = x.d /\ s.name = x.name
    /\ x.pc = "activate" => s.prog \in ActivationPrograms \cup {<<>>} /\ s.name = x.name
    /\ s.prog # <<>> => s.result = None
    /\ x.pc \in {"install", "activate"} /\ s.prog = <<>> => s.result # None

LEMMA ScriptInvIs == ScriptInv <=> \A c \in Clients : ScriptSound(op[c], sh[c])
BY DEF ScriptInv, ScriptSound

LEMMA ScriptKeeps ==
  ASSUME StructureInv, NEW c \in Clients, OnlyActs(c), ScriptSound(op'[c], sh'[c]),
         \A b \in Clients \ {c} : sh'[b] = sh[b]
  PROVE  ScriptInv'
<1>1. \A b \in Clients : ScriptSound(op[b], sh[b])
  BY ScriptInvIs DEF StructureInv
<1>2. \A b \in Clients : ScriptSound(op'[b], sh'[b])
  BY <1>1 DEF OnlyActs
<1> QED
  BY <1>2 DEF ScriptInv, ScriptSound

LEMMA ScriptTurns ==
  ASSUME StructureInv, NEW x \in Clients \cup {"orphan"}, ScriptMoves(x), op' = op
  PROVE  ScriptInv'
<1>1. \A b \in Clients : ScriptSound(op[b], sh[b])
  BY ScriptInvIs DEF StructureInv
<1>2. PICK t \in ScriptOf : Put(x, t) /\ (Advanced(Script(x), t) \/ Aborted(Script(x), t))
  BY DEF ScriptMoves
<1>3. TypeOK
  BY DEF StructureInv
<1>4. CASE x = "orphan"
  BY <1>1, <1>2, <1>3, <1>4, PutIs DEF ScriptInv, ScriptSound
<1>5. CASE x # "orphan"
  <2>1. /\ x \in Clients /\ Script(x) = sh[x] /\ sh'[x] = t
        /\ \A b \in Clients \ {x} : sh'[b] = sh[b]
    BY <1>2, <1>3, <1>5, PutIs, ScriptIs
  <2>2. ScriptSound(op[x], sh[x]) /\ (Advanced(sh[x], t) \/ Aborted(sh[x], t))
    BY <1>1, <1>2, <2>1
  <2>3. op[x].pc \in {"install", "activate"}
    BY <2>2, BlankIs DEF ScriptSound, Advanced, Aborted
  <2>4. t.name = sh[x].name /\ t.d = sh[x].d
    BY <2>2 DEF Advanced, Aborted
  <2>5. \/ t.prog = <<>> /\ t.result # None
        \/ t.prog = Tail(sh[x].prog) /\ t.prog # <<>> /\ t.result = None
    BY <2>2 DEF Advanced, Aborted, None
  <2>6. sh[x].prog # <<>>
    BY <2>2 DEF Advanced, Aborted
  <2>7. ScriptSound(op[x], t)
    BY <2>2, <2>3, <2>4, <2>5, <2>6, ProgramSteps DEF ScriptSound
  <2>8. \A b \in Clients : ScriptSound(op[b], sh'[b])
    BY <1>1, <2>1, <2>7
  <2> QED
    BY <2>8 DEF ScriptInv, ScriptSound
<1> QED
  BY <1>4, <1>5

LEMMA NextScripts ==
  ASSUME StructureInv, [Next]_vars
  PROVE  ScriptInv'
<1>1. \A b \in Clients : ScriptSound(op[b], sh[b])
  BY ScriptInvIs DEF StructureInv
<1>2. \A b \in Clients : CommandSound(op[b])
  BY CommandIs
<1>3. ASSUME op' = op, sh' = sh
      PROVE  ScriptInv'
  BY <1>3 DEF StructureInv, ScriptInv
<1>4. ASSUME NEW c \in Clients, OnlyActs(c), sh' = sh,
             op[c].pc \notin {"install", "activate"}, op'[c].pc \notin {"install", "activate"}
      PROVE  ScriptInv'
  BY <1>1, <1>4, ScriptKeeps DEF ScriptSound
<1>5. ASSUME NEW c \in Clients, OnlyActs(c), op'[c].pc \notin {"install", "activate"},
             \A b \in Clients \ {c} : sh'[b] = sh[b], sh'[c] = NoScript
      PROVE  ScriptInv'
  BY <1>5, ScriptKeeps, BlankIs DEF ScriptSound
<1>6. ASSUME NEW c \in Clients, TrainingAction(c) \/ UsingAction(c)
      PROVE  ScriptInv'
  BY <1>4, <1>6, OutsideIs DEF OutsideStep, Outside, DeployingPC
<1>7. ASSUME NEW c \in Clients, (\E n \in Names : StartDeploy(c, n)) \/ DeployTrained(c)
      PROVE  ScriptInv'
  BY <1>4, <1>7, NewDeploymentIs DEF NewDeployment
<1>8. ASSUME NEW c \in Clients, op[c].pc # "idle", BeginActivation(c, op[c].name)
      PROVE  ScriptInv'
  <2>1. <<"current", "onnx", "manifest">> \in ActivationPrograms
    BY DEF ActivationPrograms
  <2>2. <<"current", "onnx", "manifest">> # <<>>
    BY <2>1, ProgramsDiffer
  <2>3. ScriptSound(op'[c], sh'[c])
    BY <1>8, <2>1, <2>2, ActivatesIs DEF ScriptSound, GoesTo
  <2> QED
    BY <1>8, <2>3, ActivatesIs, ScriptKeeps DEF GoesTo
<1>9. ASSUME NEW c \in Clients, DeployAction(c)
      PROVE  ScriptInv'
  <2> USE <1>4, <1>5, IdleIs DEF GoesTo, Ends
  <2>1. CASE RequireArtifacts(c)
    BY <2>1, RequireArtifactsIs
  <2>2. CASE MakeStage(c)
    BY <2>2, MakeStageIs
  <2>3. CASE Upload(c)
    <3>1. CASE op'[c].pc = "install"
      <4>1. <<"unpack", "absent", "mv">> \in InstallPrograms
        BY DEF InstallPrograms
      <4>2. <<"unpack", "absent", "mv">> # <<>>
        BY <4>1, ProgramsDiffer
      <4>3. /\ sh'[c].prog = <<"unpack", "absent", "mv">> /\ sh'[c].name = op'[c].name
            /\ sh'[c].d = op'[c].d /\ sh'[c].result = None
            /\ \A b \in Clients \ {c} : sh'[b] = sh[b]
            /\ OnlyActs(c)
        BY <2>3, <3>1, UploadIs
      <4>4. ScriptSound(op'[c], sh'[c])
        BY <3>1, <4>1, <4>2, <4>3 DEF ScriptSound
      <4> QED
        BY <4>3, <4>4, ScriptKeeps
    <3>2. CASE op'[c].pc # "install"
      BY <2>3, <3>2, UploadIs
    <3> QED
      BY <3>1, <3>2
  <2>4. CASE Installed(c)
    BY <2>4, InstalledIs
  <2>5. CASE Cleanup(c)
    <3>1. op[c].pc = "cleanup"
      BY <2>5 DEF Cleanup
    <3> QED
      BY <2>5, <3>1, WalksIs
  <2>6. CASE Unlink(c)
    BY <2>6, UnlinkIs
  <2>7. CASE RemoveStage(c)
    BY <2>7, RemoveStageIs
  <2>8. CASE Announce(c)
    BY <1>8, <2>8, AnnounceIs
  <2>9. CASE UseActivates(c)
    BY <1>8, <2>9, UseActivatesIs
  <2>10. CASE Activated(c)
    BY <2>10, ActivatedIs
  <2> QED
    BY <1>9, <2>1, <2>2, <2>3, <2>4, <2>5, <2>6, <2>7, <2>8, <2>9, <2>10 DEF DeployAction
<1>10. ASSUME NEW c \in Clients, LoseConnection(c) \/ Killed(c)
       PROVE  ScriptInv'
  <2>1. /\ OnlyActs(c) /\ op'[c].pc \notin {"install", "activate"}
        /\ sh'[c] = NoScript /\ \A b \in Clients \ {c} : sh'[b] = sh[b]
    BY <1>10, LoseConnectionIs, KilledIs, IdleIs DEF GoesTo, Ends, Detached
  <2> QED
    BY <1>5, <2>1
<1>11. ASSUME NEW x \in Clients \cup {"orphan"}, RemoteStep(x)
       PROVE  ScriptInv'
  BY <1>11, RemoteIs, ScriptTurns DEF StructureInv
<1>12. CASE OrphanEnds \/ UNCHANGED vars
  BY <1>3, <1>12 DEF OrphanEnds, vars
<1> QED
  BY <1>6, <1>7, <1>9, <1>10, <1>11, <1>12, Steps

\* The deployment of an orphan stays given up.
GivenUp(d) == \A c \in Clients : op[c].d = d => op[c].pc \in {"cleanup", "unlink", "rmdir"}

LEMMA GivenUpKeeps ==
  ASSUME StructureInv, NEW c \in Clients, NEW d \in Deploys, d =< count.deploy, GivenUp(d),
         OnlyActs(c),
         \/ op'[c].d = 0 \/ op'[c].d > count.deploy
         \/ /\ op'[c].d = op[c].d
            /\ op[c].pc \in {"cleanup", "unlink", "rmdir"} =>
                 op'[c].pc \in {"cleanup", "unlink", "rmdir"}
  PROVE  GivenUp(d)'
<1>1. d # 0 /\ count.deploy \in Nat /\ d \in Nat /\ op'[c].d \in Nat
  BY CommandIs, ReleaseConstants DEF Deploys, OnlyActs, Command
<1> QED
  BY <1>1 DEF GivenUp, OnlyActs

LEMMA NextOrphan ==
  ASSUME StructureInv, [Next]_vars
  PROVE  OrphanInv'
<1>1. OrphanInv /\ count.deploy \in Nat /\ TypeOK
  BY ReleaseConstants DEF StructureInv, TypeOK
<1>2. count.deploy =< count'.deploy /\ count'.deploy \in Nat
  BY NextCommands, NextTypes, ReleaseConstants DEF TypeOK
<1>3. orphan.prog \in InstallPrograms => orphan.d \in Deploys /\ GivenUp(orphan.d)
                                        /\ orphan.d =< count.deploy
  <2>1. orphan.d \in 0 .. MaxDeploys
    BY <1>1 DEF TypeOK, ScriptOf
  <2> QED
    BY <1>1, <2>1, ReleaseConstants DEF OrphanInv, GivenUp, Deploys
<1>4. ASSUME NEW c \in Clients, OnlyActs(c), orphan' = orphan,
             \/ op'[c].d = 0 \/ op'[c].d > count.deploy
             \/ /\ op'[c].d = op[c].d
                /\ op[c].pc \in {"cleanup", "unlink", "rmdir"} =>
                     op'[c].pc \in {"cleanup", "unlink", "rmdir"}
      PROVE  OrphanInv'
  <2>1. orphan.prog \in InstallPrograms => GivenUp(orphan.d)' /\ orphan.d # 0
    BY <1>3, <1>4, GivenUpKeeps, ReleaseConstants DEF Deploys
  <2>2. orphan.prog \in InstallPrograms => orphan.d =< count'.deploy
    BY <1>1, <1>2, <1>3 DEF Deploys
  <2> QED
    BY <1>4, <2>1, <2>2 DEF OrphanInv, GivenUp
<1>5. ASSUME op' = op, orphan' = orphan
      PROVE  OrphanInv'
  <2>1. orphan.prog \in InstallPrograms => orphan.d =< count'.deploy
    BY <1>1, <1>2, <1>3 DEF Deploys
  <2> QED
    BY <1>1, <1>5, <2>1 DEF OrphanInv
<1>6. ASSUME NEW c \in Clients, TrainingAction(c) \/ UsingAction(c)
      PROVE  OrphanInv'
  BY <1>4, <1>6, OutsideIs DEF OutsideStep, Outside
<1>7. ASSUME NEW c \in Clients, (\E n \in Names : StartDeploy(c, n)) \/ DeployTrained(c)
      PROVE  OrphanInv'
  BY <1>1, <1>4, <1>7, NewDeploymentIs DEF NewDeployment
<1>8. ASSUME NEW c \in Clients, DeployAction(c)
      PROVE  OrphanInv'
  <2>1. /\ orphan' = orphan /\ OnlyActs(c)
        /\ \/ op'[c].d = 0
           \/ /\ op'[c].d = op[c].d
              /\ op[c].pc \in {"cleanup", "unlink", "rmdir"} =>
                   op'[c].pc \in {"cleanup", "unlink", "rmdir"}
    <3> USE IdleIs DEF GoesTo, Ends
    <3>1. CASE RequireArtifacts(c)
      BY <3>1, RequireArtifactsIs
    <3>2. CASE MakeStage(c)
      BY <3>2, MakeStageIs
    <3>3. CASE Upload(c)
      BY <3>3, UploadIs
    <3>4. CASE Installed(c)
      BY <3>4, InstalledIs
    <3>5. CASE Cleanup(c)
      <4>1. op[c].pc = "cleanup"
        BY <3>5 DEF Cleanup
      <4> QED
        BY <3>5, <4>1, WalksIs
    <3>6. CASE Unlink(c)
      BY <3>6, UnlinkIs
    <3>7. CASE RemoveStage(c)
      BY <3>7, RemoveStageIs
    <3>8. CASE Announce(c)
      BY <3>8, AnnounceIs, ActivatesIs
    <3>9. CASE UseActivates(c)
      BY <3>9, UseActivatesIs, ActivatesIs
    <3>10. CASE Activated(c)
      BY <3>10, ActivatedIs
    <3> QED
      BY <1>8, <3>1, <3>2, <3>3, <3>4, <3>5, <3>6, <3>7, <3>8, <3>9, <3>10 DEF DeployAction
  <2> QED
    BY <1>4, <2>1
<1>9. ASSUME NEW c \in Clients, LoseConnection(c) \/ Killed(c)
      PROVE  OrphanInv'
  <2>1. /\ OnlyActs(c) /\ orphan' = sh[c] /\ count'.deploy = count.deploy
        /\ (op[c].pc = "install" /\ GoesTo(c, "cleanup")) \/ Ends(c)
    BY <1>9, LoseConnectionIs, KilledIs DEF GoesTo, Ends, Detached
  <2>2. CASE sh[c].prog \in InstallPrograms
    <3>1. Script(c) = sh[c] \/ c = "orphan"
      BY DEF Script
    <3>2. op[c].pc = "install" /\ sh[c].d = op[c].d /\ op[c].d # 0 /\ op[c].d =< count.deploy
      BY <2>2, ProgramsDiffer, BlankIs, CommandIs
         DEF StructureInv, ScriptInv, CommandSound, DeployingPC
    <3>3. \A b \in Clients \ {c} : op'[b].d # op[c].d
      BY <2>1, <3>2 DEF StructureInv, CommandInv, OnlyActs
    <3>4. op'[c].d = op[c].d => op'[c].pc = "cleanup"
      BY <2>1, <3>2, IdleIs DEF GoesTo, Ends
    <3> QED
      BY <2>1, <3>2, <3>3, <3>4 DEF OrphanInv
  <2>3. CASE sh[c].prog \notin InstallPrograms
    BY <2>1, <2>3 DEF OrphanInv
  <2> QED
    BY <2>2, <2>3
<1>10. ASSUME NEW x \in Clients \cup {"orphan"}, RemoteStep(x)
       PROVE  OrphanInv'
  <2>1. ScriptMoves(x) /\ op' = op /\ count' = count
    BY <1>1, <1>10, RemoteIs
  <2>2. PICK t \in ScriptOf : Put(x, t) /\ (Advanced(Script(x), t) \/ Aborted(Script(x), t))
    BY <2>1 DEF ScriptMoves
  <2>3. CASE x # "orphan"
    BY <1>1, <1>5, <2>1, <2>2, <2>3, PutIs
  <2>4. CASE x = "orphan"
    <3>1. orphan' = t /\ Script(x) = orphan /\ orphan \in ScriptOf
      BY <1>1, <2>2, <2>4, PutIs, ScriptIs
    <3>2. t.prog \in InstallPrograms => orphan.prog \in InstallPrograms /\ t.d = orphan.d
      <4>1. orphan.prog \in InstallPrograms \cup ActivationPrograms /\ t.d = orphan.d
        BY <2>2, <3>1 DEF Advanced, Aborted, ScriptOf
      <4>2. t.prog = <<>> \/ t.prog = Tail(orphan.prog)
        BY <2>2, <3>1 DEF Advanced, Aborted
      <4> QED
        BY <4>1, <4>2, ProgramSteps, ProgramsDiffer
    <3> QED
      BY <1>1, <2>1, <3>1, <3>2 DEF OrphanInv
  <2> QED
    BY <2>3, <2>4
<1>11. CASE OrphanEnds
  BY <1>11, BlankIs, ProgramsDiffer DEF OrphanEnds, OrphanInv
<1>12. CASE UNCHANGED vars
  BY <1>5, <1>12 DEF vars
<1> QED
  BY <1>6, <1>7, <1>8, <1>9, <1>10, <1>11, <1>12, Steps

\* What a step does to the packages.
OnlyPackage(d) ==
    pkg' \in [Deploys -> Package] /\ \A e \in Deploys \ {d} : pkg'[e] = pkg[e]

Staged(c)  == op[c].pc = "mkdir" /\ op'[c].pc \in {"upload", "idle"} /\ StageMade(c)

Filled(c)  == LET d == op[c].d  r == run[op[c].name] IN
    /\ op[c].pc = "upload" /\ op'[c].pc = "install" /\ OnlyPackage(d)
    /\ pkg'[d].name = pkg[d].name /\ pkg'[d].at = pkg[d].at
    /\ pkg'[d].pt = r.pt /\ pkg'[d].onnx = r.onnx /\ pkg'[d].meta = r.meta
    /\ UNCHANGED <<run, pointer, orphan, count>>

Emptied(c) == LET d == op[c].d IN
    /\ op[c].pc = "unlink" /\ op'[c].pc = "rmdir" /\ OnlyPackage(d)
    /\ pkg'[d].name = pkg[d].name /\ pkg'[d].at = pkg[d].at /\ pkg'[d].onnx = 0

Removed(c) == LET d == op[c].d IN
    /\ op[c].pc = "rmdir" /\ op'[c].pc = "idle" /\ OnlyPackage(d)
    /\ pkg[d].at = "stage" /\ pkg'[d] = NoPackage

Moved(x)   == LET d == Script(x).d IN
    /\ Script(x).prog = <<"mv">> /\ op' = op /\ OnlyPackage(d)
    /\ pkg[d].at = "stage" /\ pkg'[d].name = pkg[d].name
    /\ pkg'[d].pt = pkg[d].pt /\ pkg'[d].onnx = pkg[d].onnx /\ pkg'[d].meta = pkg[d].meta
    /\ pkg'[d].at = "nested" \/ (pkg'[d].at = "release" /\ ~IsReleased(Script(x).name))

PackageStep ==
    \/ pkg' = pkg
    \/ NotesOnly
    \/ \E c \in Clients : Staged(c) \/ Filled(c) \/ Emptied(c) \/ Removed(c)
    \/ \E x \in Clients \cup {"orphan"} : Moved(x)

LEMMA PackageSteps ==
  ASSUME StructureInv, [Next]_vars
  PROVE  PackageStep
<1>1. ASSUME NEW c \in Clients, TrainingAction(c) \/ UsingAction(c)
      PROVE  PackageStep
  BY <1>1, OutsideIs DEF OutsideStep, PackageStep
<1>2. ASSUME NEW c \in Clients, (\E n \in Names : StartDeploy(c, n)) \/ DeployTrained(c)
      PROVE  PackageStep
  BY <1>2, NewDeploymentIs DEF NewDeployment, PackageStep
<1>3. ASSUME NEW c \in Clients, DeployAction(c)
      PROVE  PackageStep
  <2>1. CASE RequireArtifacts(c) \/ Installed(c) \/ Cleanup(c) \/ UseActivates(c) \/ Activated(c)
    <3>1. pkg' = pkg
      BY <2>1, RequireArtifactsIs, InstalledIs, WalksIs, UseActivatesIs, ActivatedIs
    <3> QED
      BY <3>1 DEF PackageStep
  <2>2. CASE MakeStage(c)
    <3>1. Staged(c)
      BY <2>2, MakeStageIs DEF Staged, GoesTo
    <3> QED
      BY <3>1 DEF PackageStep
  <2>3. CASE Upload(c)
    <3>1. pkg' = pkg \/ Filled(c)
      BY <2>3, UploadIs DEF Filled, GoesTo, OnlyPackage
    <3> QED
      BY <3>1 DEF PackageStep
  <2>4. CASE Unlink(c)
    <3>1. Emptied(c)
      BY <2>4, UnlinkIs DEF Emptied, GoesTo, OnlyPackage
    <3> QED
      BY <3>1 DEF PackageStep
  <2>5. CASE RemoveStage(c)
    <3>1. pkg' = pkg \/ Removed(c)
      BY <2>5, RemoveStageIs, IdleIs DEF Removed, Ends, OnlyPackage
    <3> QED
      BY <3>1 DEF PackageStep
  <2>6. CASE Announce(c)
    BY <2>6, AnnounceIs DEF PackageStep
  <2> QED
    BY <1>3, <2>1, <2>2, <2>3, <2>4, <2>5, <2>6 DEF DeployAction
<1>4. ASSUME NEW c \in Clients, LoseConnection(c)
      PROVE  PackageStep
  <2>1. pkg' = pkg \/ NotesOnly \/ Staged(c)
    BY <1>4, LoseConnectionIs, IdleIs DEF Staged, Ends
  <2> QED
    BY <2>1 DEF PackageStep
<1>5. ASSUME NEW c \in Clients, Killed(c)
      PROVE  PackageStep
  BY <1>5, KilledIs DEF PackageStep
<1>6. ASSUME NEW x \in Clients \cup {"orphan"}, RemoteStep(x)
      PROVE  PackageStep
  <2>1. CASE MoveStage(x)
    <3>1. pkg' = pkg \/ Moved(x)
      BY <2>1, MoveStageIs DEF Moved, OnlyPackage
    <3> QED
      BY <3>1 DEF PackageStep
  <2>2. CASE ~MoveStage(x)
    BY <1>6, <2>2 DEF RemoteStep, Unpack, CheckAbsent, CopyCurrent, Link, PackageStep
  <2> QED
    BY <2>1, <2>2
<1>7. CASE OrphanEnds \/ UNCHANGED vars
  BY <1>7 DEF OrphanEnds, vars, PackageStep
<1> QED
  BY <1>1, <1>2, <1>3, <1>4, <1>5, <1>6, <1>7, Steps

\* A release is made only of a name that is not released, and it keeps its place and name.
LEMMA ReleasesStay ==
  ASSUME StructureInv, PackageStep, NEW d \in Deploys, pkg[d].at = "release"
  PROVE  pkg'[d].at = "release" /\ pkg'[d].name = pkg[d].name
<1>1. CASE pkg' = pkg \/ NotesOnly
  BY <1>1 DEF NotesOnly
<1>2. ASSUME NEW c \in Clients, Staged(c)
      PROVE  d # op[c].d
  <2>1. pkg[op[c].d] = NoPackage
    BY <1>2 DEF Staged, StructureInv, PackageInv
  <2> QED
    BY <2>1, BlankIs DEF None
<1>3. ASSUME NEW c \in Clients, Filled(c) \/ Emptied(c) \/ Removed(c)
      PROVE  pkg'[d].at = "release" /\ pkg'[d].name = pkg[d].name
  BY <1>3 DEF Filled, Emptied, Removed, OnlyPackage
<1>4. ASSUME NEW x \in Clients \cup {"orphan"}, Moved(x)
      PROVE  pkg'[d].at = "release" /\ pkg'[d].name = pkg[d].name
  BY <1>4 DEF Moved, OnlyPackage
<1> QED
  BY <1>1, <1>2, <1>3, <1>4 DEF PackageStep, Staged, StageMade

LEMMA ReleasesAreNew ==
  ASSUME StructureInv, PackageStep, NEW d \in Deploys, pkg[d].at # "release",
         pkg'[d].at = "release"
  PROVE  \E x \in Clients \cup {"orphan"} :
            /\ Moved(x) /\ d = Script(x).d /\ pkg'[d].name = Script(x).name
            /\ ~IsReleased(pkg'[d].name)
<1>1. CASE pkg' = pkg \/ NotesOnly
  BY <1>1 DEF NotesOnly
<1>2. ASSUME NEW c \in Clients, Staged(c)
      PROVE  FALSE
  <2>1. pkg[op[c].d] \in Package /\ op[c].d \in Deploys
    BY <1>2, CommandIs DEF Staged, DeployingPC, TypeOK
  <2>2. pkg'[op[c].d].at = "stage"
    BY <1>2, <2>1 DEF Staged, StageMade, Package
  <2> QED
    BY <1>2, <2>2 DEF Staged, StageMade
<1>3. ASSUME NEW c \in Clients, Filled(c) \/ Emptied(c) \/ Removed(c)
      PROVE  FALSE
  BY <1>3, BlankIs DEF Filled, Emptied, Removed, OnlyPackage, None
<1>4. ASSUME NEW x \in Clients \cup {"orphan"}, Moved(x)
      PROVE  /\ d = Script(x).d /\ pkg'[d].name = Script(x).name
             /\ ~IsReleased(pkg'[d].name)
  <2>1. d = Script(x).d
    BY <1>4 DEF Moved, OnlyPackage
  <2>2. MovesItsOwn(Script(x)) /\ Script(x).prog \in InstallPrograms
    BY <1>4, InstallScriptIs DEF Moved, InstallPrograms
  <2>3. pkg[d].name = Script(x).name
    BY <1>4, <2>1, <2>2 DEF Moved, MovesItsOwn, None
  <2> QED
    BY <1>4, <2>1, <2>3 DEF Moved
<1> QED
  BY <1>1, <1>2, <1>3, <1>4 DEF PackageStep

LEMMA NextOneRelease ==
  ASSUME StructureInv, [Next]_vars
  PROVE  OneReleasePerName'
<1>1. PackageStep
  BY PackageSteps
<1> SUFFICES ASSUME NEW d \in Deploys, NEW e \in Deploys,
                    pkg'[d].at = "release", pkg'[e].at = "release", pkg'[d].name = pkg'[e].name
             PROVE  d = e
  BY DEF OneReleasePerName
<1>2. CASE pkg[d].at = "release" /\ pkg[e].at = "release"
  BY <1>1, <1>2, ReleasesStay DEF StructureInv, OneReleasePerName
<1>3. CASE pkg[d].at # "release" /\ pkg[e].at # "release"
  <2>1. PICK x \in Clients \cup {"orphan"} : Moved(x) /\ d = Script(x).d
    BY <1>1, <1>3, ReleasesAreNew
  <2>2. pkg'[e] = pkg[e] \/ e = d
    BY <2>1 DEF Moved, OnlyPackage
  <2> QED
    BY <1>3, <2>2
<1>4. CASE pkg[d].at = "release" /\ pkg[e].at # "release"
  BY <1>1, <1>4, ReleasesStay, ReleasesAreNew DEF IsReleased
<1>5. CASE pkg[d].at # "release" /\ pkg[e].at = "release"
  BY <1>1, <1>5, ReleasesStay, ReleasesAreNew DEF IsReleased
<1> QED
  BY <1>2, <1>3, <1>4, <1>5

\* How a command comes to a position where its stage is still its own.
LEMMA ReadySteps ==
  ASSUME StructureInv, [Next]_vars, NEW b \in Clients,
         op'[b].pc \in {"require", "mkdir", "upload"}
  PROVE  \/ op'[b] = op[b]
         \/ NewDeployment(b)
         \/ /\ op[b].pc = "require" /\ op'[b].pc = "mkdir" /\ op'[b].d = op[b].d
            /\ pkg' = pkg
         \/ /\ op[b].pc = "mkdir" /\ op'[b].pc = "upload" /\ StageMade(b)
            /\ op'[b].d = op[b].d /\ op'[b].name = op[b].name
<1> DEFINE Goal == \/ op'[b] = op[b]
                   \/ NewDeployment(b)
                   \/ /\ op[b].pc = "require" /\ op'[b].pc = "mkdir" /\ op'[b].d = op[b].d
                      /\ pkg' = pkg
                   \/ /\ op[b].pc = "mkdir" /\ op'[b].pc = "upload" /\ StageMade(b)
                      /\ op'[b].d = op[b].d /\ op'[b].name = op[b].name
<1>1. ASSUME NEW c \in Clients, OnlyActs(c), c # b
      PROVE  Goal
  BY <1>1 DEF OnlyActs
<1>2. ASSUME NEW c \in Clients, TrainingAction(c) \/ UsingAction(c)
      PROVE  Goal
  BY <1>1, <1>2, OutsideIs DEF OutsideStep, Outside, DeployingPC
<1>3. ASSUME NEW c \in Clients, (\E n \in Names : StartDeploy(c, n)) \/ DeployTrained(c)
      PROVE  Goal
  BY <1>1, <1>3, NewDeploymentIs DEF NewDeployment
<1>4. ASSUME NEW c \in Clients, DeployAction(c)
      PROVE  Goal
  <2>1. CASE c # b
    BY <1>1, <1>4, <2>1, DeployCommand
  <2>2. CASE c = b
    <3> USE IdleIs DEF GoesTo, Ends
    <3>1. CASE RequireArtifacts(c)
      BY <2>2, <3>1, RequireArtifactsIs
    <3>2. CASE MakeStage(c)
      BY <2>2, <3>2, MakeStageIs
    <3>3. CASE Upload(c)
      BY <2>2, <3>3, UploadIs
    <3>4. CASE Installed(c)
      BY <2>2, <3>4, InstalledIs
    <3>5. CASE Cleanup(c)
      BY <2>2, <3>5, WalksIs
    <3>6. CASE Unlink(c)
      BY <2>2, <3>6, UnlinkIs
    <3>7. CASE RemoveStage(c)
      BY <2>2, <3>7, RemoveStageIs
    <3>8. CASE Announce(c)
      BY <2>2, <3>8, AnnounceIs, ActivatesIs
    <3>9. CASE UseActivates(c)
      BY <2>2, <3>9, UseActivatesIs, ActivatesIs
    <3>10. CASE Activated(c)
      BY <2>2, <3>10, ActivatedIs
    <3> QED
      BY <1>4, <3>1, <3>2, <3>3, <3>4, <3>5, <3>6, <3>7, <3>8, <3>9, <3>10 DEF DeployAction
  <2> QED
    BY <2>1, <2>2
<1>5. ASSUME NEW c \in Clients, LoseConnection(c) \/ Killed(c)
      PROVE  Goal
  <2>1. OnlyActs(c) /\ op'[c].pc \in {"idle", "cleanup"}
    BY <1>5, LoseConnectionIs, KilledIs, IdleIs DEF GoesTo, Ends
  <2> QED
    BY <1>1, <2>1
<1>6. ASSUME NEW x \in Clients \cup {"orphan"}, RemoteStep(x)
      PROVE  Goal
  BY <1>6, RemoteIs DEF StructureInv
<1>7. CASE OrphanEnds \/ UNCHANGED vars
  BY <1>7 DEF OrphanEnds, vars
<1> QED
  BY <1>2, <1>3, <1>4, <1>5, <1>6, <1>7, Steps

\* An install script is the rest of one, or has just begun.
Rest(t, s) == s.prog \in InstallPrograms /\ t.d = s.d /\ t.name = s.name

LEMMA TurnedRest ==
  ASSUME NEW s \in ScriptOf, NEW t \in ScriptOf, Advanced(s, t) \/ Aborted(s, t),
         t.prog \in InstallPrograms
  PROVE  Rest(t, s)
<1>1. s.prog \in InstallPrograms \cup ActivationPrograms /\ t.d = s.d /\ t.name = s.name
  BY DEF Advanced, Aborted, ScriptOf
<1>2. t.prog = <<>> \/ t.prog = Tail(s.prog)
  BY DEF Advanced, Aborted
<1> QED
  BY <1>1, <1>2, ProgramSteps, ProgramsDiffer DEF Rest

InstallStep ==
    /\ \A b \in Clients : sh'[b].prog \in InstallPrograms =>
          \/ Rest(sh'[b], sh[b])
          \/ Filled(b) /\ sh'[b].d = op[b].d /\ sh'[b].name = op[b].name
    /\ orphan'.prog \in InstallPrograms =>
          Rest(orphan', orphan) \/ \E c \in Clients : Rest(orphan', sh[c])

LEMMA InstallSteps ==
  ASSUME StructureInv, [Next]_vars
  PROVE  InstallStep
<1>1. TypeOK
  BY DEF StructureInv
<1>2. ASSUME NEW c \in Clients, \A b \in Clients \ {c} : sh'[b] = sh[b], orphan' = orphan,
             sh'[c].prog \notin InstallPrograms \/ sh'[c] = sh[c]
      PROVE  InstallStep
  BY <1>2 DEF InstallStep, Rest
<1>3. ASSUME sh' = sh, orphan' = orphan
      PROVE  InstallStep
  BY <1>3 DEF InstallStep, Rest
<1>4. ASSUME NEW c \in Clients, TrainingAction(c) \/ UsingAction(c)
      PROVE  InstallStep
  BY <1>3, <1>4, OutsideIs DEF OutsideStep
<1>5. ASSUME NEW c \in Clients, (\E n \in Names : StartDeploy(c, n)) \/ DeployTrained(c)
      PROVE  InstallStep
  BY <1>3, <1>5, NewDeploymentIs DEF NewDeployment
<1>6. ASSUME NEW c \in Clients, op[c].pc # "idle", BeginActivation(c, op[c].name), orphan' = orphan
      PROVE  InstallStep
  <2>1. sh'[c].prog \notin InstallPrograms
    BY <1>6, ActivatesIs, ProgramsDiffer DEF ActivationPrograms
  <2> QED
    BY <1>2, <1>6, <2>1, ActivatesIs
<1>7. ASSUME NEW c \in Clients, DeployAction(c)
      PROVE  InstallStep
  <2>1. CASE RequireArtifacts(c) \/ MakeStage(c) \/ Cleanup(c) \/ Unlink(c) \/ RemoveStage(c)
    BY <1>3, <2>1, RequireArtifactsIs, MakeStageIs, WalksIs, UnlinkIs, RemoveStageIs
  <2>2. CASE Upload(c)
    <3>1. CASE sh' = sh
      BY <1>3, <2>2, <3>1, UploadIs
    <3>2. CASE sh' # sh
      <4>1. /\ Filled(c) /\ sh'[c].d = op[c].d /\ sh'[c].name = op[c].name
            /\ \A b \in Clients \ {c} : sh'[b] = sh[b]
            /\ orphan' = orphan
        BY <2>2, <3>2, UploadIs DEF Filled, GoesTo, OnlyPackage
      <4> QED
        BY <4>1 DEF InstallStep, Rest
    <3> QED
      BY <3>1, <3>2
  <2>3. CASE Installed(c) \/ Activated(c)
    <3>1. /\ \A b \in Clients \ {c} : sh'[b] = sh[b]
          /\ orphan' = orphan /\ sh'[c] = NoScript
      BY <2>3, InstalledIs, ActivatedIs
    <3> QED
      BY <1>2, <3>1, BlankIs, ProgramsDiffer
  <2>4. CASE Announce(c)
    BY <1>3, <1>6, <2>4, AnnounceIs
  <2>5. CASE UseActivates(c)
    BY <1>6, <2>5, UseActivatesIs
  <2> QED
    BY <1>7, <2>1, <2>2, <2>3, <2>4, <2>5 DEF DeployAction
<1>8. ASSUME NEW c \in Clients, LoseConnection(c) \/ Killed(c)
      PROVE  InstallStep
  <2>1. Detached(c)
    BY <1>8, LoseConnectionIs, KilledIs
  <2> QED
    BY <2>1, BlankIs, ProgramsDiffer DEF Detached, InstallStep, Rest
<1>9. ASSUME NEW x \in Clients \cup {"orphan"}, RemoteStep(x)
      PROVE  InstallStep
  <2>1. PICK t \in ScriptOf : Put(x, t) /\ (Advanced(Script(x), t) \/ Aborted(Script(x), t))
    BY <1>1, <1>9, RemoteIs DEF ScriptMoves
  <2>2. t.prog \in InstallPrograms => Rest(t, Script(x))
    BY <1>1, <2>1, ScriptIs, TurnedRest
  <2> QED
    BY <1>1, <2>1, <2>2, PutIs, ScriptIs DEF InstallStep, Rest
<1>10. CASE OrphanEnds
  BY <1>10, BlankIs, ProgramsDiffer DEF OrphanEnds, InstallStep, Rest
<1>11. CASE UNCHANGED vars
  BY <1>3, <1>11 DEF vars
<1> QED
  BY <1>4, <1>5, <1>7, <1>8, <1>9, <1>10, <1>11, Steps

\* The directory of an install script keeps its name.
LEMMA InstallNames ==
  ASSUME StructureInv, PackageStep, NEW x \in Clients \cup {"orphan"},
         Script(x).prog \in InstallPrograms
  PROVE  LET d == Script(x).d IN
         pkg'[d].at # None => pkg[d].at # None /\ pkg'[d].name = pkg[d].name
<1> DEFINE d == Script(x).d
<1>1. /\ d \in Deploys
      /\ \A c \in Clients : op[c].d = d => op[c].pc \in {"install", "cleanup", "unlink", "rmdir"}
  BY InstallScriptIs, ReleaseConstants
<1>2. CASE pkg' = pkg \/ NotesOnly
  BY <1>1, <1>2 DEF NotesOnly
<1>3. ASSUME NEW c \in Clients, Staged(c)
      PROVE  pkg'[d] = pkg[d]
  BY <1>1, <1>3 DEF Staged, StageMade
<1>4. ASSUME NEW c \in Clients, Filled(c) \/ Emptied(c) \/ Removed(c)
      PROVE  pkg'[d].at # None => pkg[d].at # None /\ pkg'[d].name = pkg[d].name
  BY <1>1, <1>4, BlankIs DEF Filled, Emptied, Removed, OnlyPackage
<1>5. ASSUME NEW y \in Clients \cup {"orphan"}, Moved(y)
      PROVE  pkg'[d].at # None => pkg[d].at # None /\ pkg'[d].name = pkg[d].name
  BY <1>1, <1>5 DEF Moved, OnlyPackage, None
<1> QED
  BY <1>2, <1>3, <1>4, <1>5 DEF PackageStep

LEMMA NextPackages ==
  ASSUME StructureInv, [Next]_vars
  PROVE  PackageInv'
<1>1. /\ PackageStep /\ InstallStep /\ TypeOK /\ PackageInv /\ CommandInv
      /\ count.deploy =< count'.deploy /\ TypeOK'
  BY PackageSteps, InstallSteps, NextCommands, NextTypes DEF StructureInv
<1>2. count.deploy \in Nat /\ count'.deploy \in Nat /\ Deploys \subseteq Nat
  BY <1>1, ReleaseConstants DEF TypeOK, Deploys
\* The deployments to come have no directory.
<1>3. \A d \in Deploys : d > count'.deploy => pkg'[d] = NoPackage
  <2>1. TAKE d \in Deploys
  <2>2. HAVE d > count'.deploy
  <2>22. d > count.deploy
    BY <1>1, <1>2, <2>2
  <2>3. d > count.deploy /\ pkg[d] = NoPackage
    BY <1>1, <2>22 DEF PackageInv
  <2>4. \A c \in Clients : op[c].d # d
    BY <1>2, <2>3, CommandIs DEF CommandSound
  <2>5. \A x \in Clients \cup {"orphan"} : ~(Moved(x) /\ Script(x).d = d)
    BY <2>3, BlankIs DEF Moved, None
  <2> QED
    BY <1>1, <2>3, <2>4, <2>5, BlankIs
       DEF PackageStep, NotesOnly, Staged, StageMade, Filled, Emptied, Removed, Moved,
           OnlyPackage, None
\* A directory that is its command's own stays as it is.
<1>4. ASSUME NEW b \in Clients, op[b].pc \in {"require", "mkdir", "upload"}, op'[b] = op[b]
      PROVE  pkg'[op[b].d] = pkg[op[b].d]
  <2>1. op[b].d \in Deploys /\ op[b].d # 0
    BY <1>4, CommandIs, ReleaseConstants DEF DeployingPC, Deploys
  <2>2. \A c \in Clients : op[c].d = op[b].d => c = b
    BY <1>1, <2>1 DEF CommandInv
  <2>3. pkg[op[b].d].at # "release"
    BY <1>1, <1>4, <2>1, BlankIs DEF PackageInv, NoPackage, None
  <2>4. \A x \in Clients \cup {"orphan"} : Moved(x) => Script(x).d # op[b].d
    <3>1. TAKE x \in Clients \cup {"orphan"}
    <3>2. HAVE Moved(x)
    <3>3. Script(x).prog \in InstallPrograms
      BY <3>2 DEF Moved, InstallPrograms
    <3> QED
      BY <1>4, <3>3, InstallScriptIs, ReleaseConstants
  <2> QED
    BY <1>1, <1>4, <2>1, <2>2, <2>3, <2>4
       DEF PackageStep, NotesOnly, Staged, StageMade, Filled, Emptied, Removed, Moved,
           OnlyPackage
<1>5. ASSUME NEW b \in Clients
      PROVE  /\ op'[b].pc \in {"require", "mkdir"} => pkg'[op'[b].d] = NoPackage
             /\ op'[b].pc = "upload" =>
                  pkg'[op'[b].d] = [NoPackage EXCEPT !.name = op'[b].name, !.at = "stage"]
  <2>1. CASE op'[b] = op[b]
    <3>1. op'[b].pc = op[b].pc /\ op'[b].d = op[b].d /\ op'[b].name = op[b].name
      BY <2>1
    <3>2. op[b].pc \in {"require", "mkdir", "upload"} => pkg'[op'[b].d] = pkg[op[b].d]
      BY <1>4, <2>1
    <3> QED
      BY <1>1, <3>1, <3>2 DEF PackageInv
  <2>2. CASE NewDeployment(b)
    <3>1. count.deploy + 1 \in Deploys /\ count.deploy + 1 > count.deploy
      BY <1>2, <2>2, ReleaseConstants DEF NewDeployment, Deploys
    <3> QED
      BY <1>1, <2>2, <3>1 DEF NewDeployment, PackageInv
  <2>3. CASE op[b].pc = "require" /\ op'[b].pc = "mkdir" /\ op'[b].d = op[b].d /\ pkg' = pkg
    BY <1>1, <2>3 DEF PackageInv
  <2>4. CASE /\ op[b].pc = "mkdir" /\ op'[b].pc = "upload" /\ StageMade(b)
             /\ op'[b].d = op[b].d /\ op'[b].name = op[b].name
    BY <1>1, <2>4 DEF PackageInv, StageMade
  <2> QED
    BY <2>1, <2>2, <2>3, <2>4, ReadySteps
\* The scripts move what has their name.
<1>6. ASSUME NEW x \in Clients \cup {"orphan"}, NEW t, t.prog \in InstallPrograms,
             Rest(t, Script(x)), pkg'[t.d].at # None
      PROVE  pkg'[t.d].name = t.name
  <2>1. Script(x).prog \in InstallPrograms /\ t.d = Script(x).d /\ t.name = Script(x).name
    BY <1>6 DEF Rest
  <2> QED
    BY <1>1, <1>6, <2>1, InstallNames, InstallScriptIs DEF MovesItsOwn
<1>7. ASSUME NEW b \in Clients, sh'[b].prog \in InstallPrograms, pkg'[sh'[b].d].at # None
      PROVE  pkg'[sh'[b].d].name = sh'[b].name
  <2>1. CASE Rest(sh'[b], sh[b])
    <3>1. Script(b) = sh[b]
      BY ReleaseConstants DEF Script
    <3> QED
      BY <1>6, <1>7, <2>1, <3>1
  <2>2. CASE Filled(b) /\ sh'[b].d = op[b].d /\ sh'[b].name = op[b].name
    <3>1. pkg[op[b].d] = [NoPackage EXCEPT !.name = op[b].name, !.at = "stage"]
      BY <1>1, <2>2 DEF PackageInv, Filled
    <3>2. pkg[op[b].d].name = op[b].name
      BY <3>1 DEF NoPackage
    <3> QED
      BY <2>2, <3>2 DEF Filled
  <2> QED
    BY <1>1, <1>7, <2>1, <2>2 DEF InstallStep
<1>8. ASSUME orphan'.prog \in InstallPrograms, pkg'[orphan'.d].at # None
      PROVE  pkg'[orphan'.d].name = orphan'.name
  <2>1. CASE Rest(orphan', orphan)
    BY <1>6, <1>8, <2>1 DEF Script
  <2>2. ASSUME NEW c \in Clients, Rest(orphan', sh[c])
        PROVE  pkg'[orphan'.d].name = orphan'.name
    <3>1. Script(c) = sh[c]
      BY ReleaseConstants DEF Script
    <3> QED
      BY <1>6, <1>8, <2>2, <3>1
  <2> QED
    BY <1>1, <1>8, <2>1, <2>2 DEF InstallStep
<1> QED
  BY <1>3, <1>5, <1>7, <1>8 DEF PackageInv, MovesItsOwn

-----------------------------------------------------------------------------
(* While no connection is lost.                                            *)

\* Then no client is killed either, and no script is left behind.
LEMMA LostSteps ==
  ASSUME StructureInv, [Next]_vars, count'.lost = 0
  PROVE  /\ count.lost = 0
         /\ \A c \in Clients : ~LoseConnection(c) /\ ~Killed(c)
         /\ orphan.prog = <<>> => orphan'.prog = <<>>
<1>1. TypeOK
  BY DEF StructureInv
<1>2. \A c \in Clients : ~LoseConnection(c) /\ ~Killed(c)
  BY LoseConnectionIs, KilledIs DEF Detached
<1>3. ASSUME NEW c \in Clients, DeployAction(c)
      PROVE  count'.lost = count.lost /\ orphan' = orphan
  BY <1>3, DeployCommand, RequireArtifactsIs, MakeStageIs, UploadIs, InstalledIs, WalksIs,
     UnlinkIs, RemoveStageIs, AnnounceIs, UseActivatesIs, ActivatedIs DEF DeployAction
<1>4. ASSUME NEW c \in Clients,
             \/ TrainingAction(c) \/ UsingAction(c)
             \/ (\E n \in Names : StartDeploy(c, n)) \/ DeployTrained(c)
      PROVE  count'.lost = count.lost /\ orphan' = orphan
  BY <1>4, OutsideIs, NewDeploymentIs DEF OutsideStep, NewDeployment
<1>5. ASSUME NEW x \in Clients \cup {"orphan"}, RemoteStep(x)
      PROVE  count'.lost = count.lost /\ (orphan.prog = <<>> => orphan' = orphan)
  <2>1. PICK t \in ScriptOf : Put(x, t) /\ (Advanced(Script(x), t) \/ Aborted(Script(x), t))
    BY <1>1, <1>5, RemoteIs DEF ScriptMoves
  <2>2. Script(x).prog # <<>>
    BY <2>1 DEF Advanced, Aborted
  <2> QED
    BY <1>1, <1>5, <2>1, <2>2, RemoteIs, PutIs, ScriptIs
<1>6. CASE OrphanEnds \/ UNCHANGED vars
  BY <1>2, <1>6, BlankIs DEF OrphanEnds, vars
<1> QED
  BY <1>2, <1>3, <1>4, <1>5, <1>6, Steps

\* A package is where it was, and whole if it was.
SamePlace(d) ==
    pkg'[d].at = pkg[d].at /\ pkg'[d].onnx = pkg[d].onnx /\ pkg'[d].meta = pkg[d].meta

\* A step of c keeps what only c may disturb.
LEMMA UncutKeeps ==
  ASSUME StructureInv, Uncut, NEW c \in Clients, OnlyActs(c), orphan'.prog = <<>>,
         \A b \in Clients \ {c} : sh'[b] = sh[b],
         \A e \in Deploys \ {op[c].d, op'[c].d} : SamePlace(e),
         op'[c].d \in {0, op[c].d, count.deploy + 1},
         Placed(op'[c], sh'[c], pkg'[op'[c].d]),
         \A e \in {op[c].d, op'[c].d} \cap Deploys : StageOwned(e)' /\ ReleaseWhole(e)'
  PROVE  Uncut'
<1>1. TypeOK /\ CommandInv /\ count.deploy \in Nat /\ \A b \in Clients : op[b].d =< count.deploy
  BY CommandIs, ReleaseConstants DEF StructureInv
<1>2. \A b \in Clients : op[b].d \in Nat /\ (op[b].d = 0 \/ op[b].d \in Deploys)
  BY <1>1, CommandIs, ReleaseConstants DEF Command, Deploys
<1>3. ASSUME NEW b \in Clients \ {c}
      PROVE  Placed(op'[b], sh'[b], pkg'[op'[b].d])
  <2>1. op'[b] = op[b] /\ sh'[b] = sh[b] /\ Placed(op[b], sh[b], pkg[op[b].d])
    BY DEF OnlyActs, Uncut
  <2>2. CASE op[b].d = 0
    BY <2>1, <2>2, CommandIs DEF Placed, CommandSound, DeployingPC
  <2>3. CASE op[b].d # 0
    <3>1. op[b].d # op[c].d /\ op[b].d # op'[c].d /\ op[b].d \in Deploys
      BY <1>1, <1>2, <2>3 DEF CommandInv
    <3>2. SamePlace(op[b].d)
      BY <3>1
    <3> QED
      BY <2>1, <3>2 DEF Placed, SamePlace
  <2> QED
    BY <2>2, <2>3
<1>4. ASSUME NEW e \in Deploys, e \notin {op[c].d, op'[c].d}
      PROVE  StageOwned(e)' /\ ReleaseWhole(e)'
  BY <1>4 DEF Uncut, StageOwned, ReleaseWhole, SamePlace, OnlyActs
<1> QED
  BY <1>3, <1>4 DEF Uncut

\* The steps of a deployment.
LEMMA DeployUncut ==
  ASSUME StructureInv, StructureInv', Uncut, NEW c \in Clients, DeployAction(c)
  PROVE  Uncut'
<1> DEFINE d == op[c].d
           WholeAfter == pkg'[d].at = "release" => pkg'[d].onnx # 0 /\ pkg'[d].meta # 0
<1>1. /\ TypeOK /\ CommandInv /\ CommandInv' /\ PackageInv /\ CommandSound(op[c])
      /\ Placed(op[c], sh[c], pkg[d]) /\ orphan.prog = <<>>
      /\ op[c].pc \in DeployingPC => d \in Deploys
      /\ d \in Deploys \/ d = 0
      /\ TypeOK' /\ ScriptInv
  BY CommandIs, ReleaseConstants DEF StructureInv, Uncut, Command, Deploys
<1>2. \A e \in Deploys : StageOwned(e) /\ ReleaseWhole(e)
  BY DEF Uncut
<1>3. 0 \notin Deploys
  BY ReleaseConstants DEF Deploys
\* A command that goes on in its directory.
<1>4. ASSUME OnlyActs(c), op'[c].d = d, orphan' = orphan,
             \A b \in Clients \ {c} : sh'[b] = sh[b],
             \A e \in Deploys \ {d} : SamePlace(e),
             Placed(op'[c], sh'[c], pkg'[d]),
             d \in Deploys => WholeAfter
      PROVE  Uncut'
  <2>1. \A e \in Deploys : e = d => StageOwned(e)' /\ ReleaseWhole(e)'
    BY <1>4 DEF StageOwned, ReleaseWhole
  <2> QED
    BY <1>1, <1>4, <2>1, UncutKeeps
\* A command that ends without a stage.
<1>5. ASSUME Ends(c), orphan' = orphan, \A b \in Clients \ {c} : sh'[b] = sh[b],
             \A e \in Deploys \ {d} : SamePlace(e),
             d \in Deploys => pkg'[d].at # "stage" /\ WholeAfter
      PROVE  Uncut'
  <2>1. Placed(op'[c], sh'[c], pkg'[op'[c].d])
    BY <1>5, IdleIs DEF Ends, Placed
  <2>2. \A e \in {d, op'[c].d} \cap Deploys : StageOwned(e)' /\ ReleaseWhole(e)'
    BY <1>3, <1>5, IdleIs DEF Ends, StageOwned, ReleaseWhole
  <2> QED
    BY <1>1, <1>5, <2>1, <2>2, IdleIs, UncutKeeps DEF Ends
<1>6. ASSUME pkg' = pkg
      PROVE  (\A e \in Deploys : SamePlace(e)) /\ (d \in Deploys => WholeAfter)
  BY <1>2, <1>6 DEF SamePlace, ReleaseWhole
<1>7. ASSUME NotesOnly
      PROVE  (\A e \in Deploys : SamePlace(e)) /\ (d \in Deploys => WholeAfter)
  BY <1>2, <1>7 DEF SamePlace, ReleaseWhole, NotesOnly
<1>8. CASE RequireArtifacts(c)
  <2>1. pkg[d] = NoPackage /\ d \in Deploys
    BY <1>1, <1>8 DEF PackageInv, RequireArtifacts, DeployingPC
  <2>2. pkg[d].at # "stage"
    BY <2>1, BlankIs DEF None
  <2>3. CASE Ends(c)
    BY <1>5, <1>6, <1>8, <2>2, <2>3, RequireArtifactsIs
  <2>4. CASE GoesTo(c, "mkdir")
    <3>1. Placed(op'[c], sh'[c], pkg'[d])
      BY <2>4 DEF GoesTo, Placed
    <3> QED
      BY <1>4, <1>6, <1>8, <2>4, <3>1, RequireArtifactsIs DEF GoesTo
  <2> QED
    BY <1>8, <2>3, <2>4, RequireArtifactsIs
<1>9. CASE MakeStage(c)
  <2>1. GoesTo(c, "upload") /\ StageMade(c) /\ d \in Deploys /\ UNCHANGED <<sh, orphan>>
    BY <1>1, <1>9, MakeStageIs DEF DeployingPC
  <2>2. pkg'[d].at = "stage"
    BY <1>1, <2>1 DEF StageMade, TypeOK, Package
  <2>3. Placed(op'[c], sh'[c], pkg'[d]) /\ WholeAfter
    BY <2>1, <2>2 DEF GoesTo, Placed
  <2> QED
    BY <1>4, <2>1, <2>3 DEF GoesTo, StageMade, SamePlace
<1>10. CASE Upload(c)
  <2>1. pkg[d] = [NoPackage EXCEPT !.name = op[c].name, !.at = "stage"] /\ d \in Deploys
    BY <1>1, <1>10 DEF PackageInv, Upload, DeployingPC
  <2>2. pkg[d].at = "stage"
    BY <2>1, BlankIs DEF Package
  <2>3. CASE GoesTo(c, "install")
    <3>1. Filled(c) /\ OnlyPackage(d) /\ pkg'[d].at = "stage" /\ orphan' = orphan
      BY <1>10, <2>2, <2>3, UploadIs DEF Filled, GoesTo, OnlyPackage
    <3>2. /\ sh'[c].prog = <<"unpack", "absent", "mv">> /\ sh'[c].result = None
          /\ \A b \in Clients \ {c} : sh'[b] = sh[b]
      BY <1>10, <2>3, UploadIs DEF GoesTo
    <3>3. Placed(op'[c], sh'[c], pkg'[d]) /\ WholeAfter
      BY <2>3, <3>1, <3>2, Programs DEF GoesTo, Placed, None
    <3> QED
      BY <1>4, <2>3, <3>1, <3>2, <3>3 DEF GoesTo, OnlyPackage, SamePlace
  <2>4. CASE GoesTo(c, "cleanup")
    <3>1. UNCHANGED <<pkg, sh, orphan>>
      BY <1>10, <2>4, UploadIs DEF GoesTo
    <3>2. Placed(op'[c], sh'[c], pkg'[d])
      BY <2>2, <2>4, <3>1 DEF GoesTo, Placed
    <3> QED
      BY <1>4, <1>6, <2>1, <2>4, <3>1, <3>2 DEF GoesTo
  <2> QED
    BY <1>10, <2>3, <2>4, UploadIs
<1>11. CASE Installed(c)
  <2>1. /\ pkg' = pkg /\ orphan' = orphan /\ sh'[c] = NoScript
        /\ \A b \in Clients \ {c} : sh'[b] = sh[b]
        /\ \/ sh[c].result = "ok" /\ GoesTo(c, "announce")
           \/ sh[c].result # "ok" /\ GoesTo(c, "cleanup")
        /\ op[c].pc = "install" /\ sh[c].result # None
    BY <1>11, InstalledIs
  <2>2. sh[c].result \in {None, "ok", "failed"}
    BY <1>1 DEF TypeOK, ScriptOf
  <2>3. Placed(op'[c], sh'[c], pkg'[d])
    BY <1>1, <2>1, <2>2 DEF GoesTo, Placed
  <2> QED
    BY <1>4, <1>6, <2>1, <2>3 DEF GoesTo
<1>12. CASE Cleanup(c)
  <2>1. op[c].pc = "cleanup" /\ pkg[d].at = "stage"
    BY <1>1, <1>12 DEF Cleanup, Placed
  <2>2. GoesTo(c, "unlink") /\ UNCHANGED <<pkg, sh, orphan>>
    BY <1>12, <2>1, WalksIs
  <2>3. Placed(op'[c], sh'[c], pkg'[d])
    BY <2>1, <2>2 DEF GoesTo, Placed
  <2> QED
    BY <1>4, <1>6, <2>2, <2>3 DEF GoesTo
<1>13. CASE Unlink(c)
  <2>1. /\ op[c].pc = "unlink" /\ pkg'[d].at = pkg[d].at /\ GoesTo(c, "rmdir")
        /\ UNCHANGED <<sh, orphan>> /\ \A e \in Deploys \ {d} : pkg'[e] = pkg[e]
    BY <1>13, UnlinkIs
  <2>2. pkg[d].at = "stage"
    BY <1>1, <2>1 DEF Placed
  <2>3. Placed(op'[c], sh'[c], pkg'[d]) /\ WholeAfter
    BY <2>1, <2>2 DEF GoesTo, Placed
  <2> QED
    BY <1>4, <2>1, <2>3 DEF GoesTo, SamePlace
<1>14. CASE RemoveStage(c)
  <2>1. op[c].pc = "rmdir" /\ pkg[d].at = "stage" /\ d \in Deploys
    BY <1>1, <1>14 DEF RemoveStage, Placed, DeployingPC
  <2>2. /\ Ends(c) /\ pkg'[d] = NoPackage /\ UNCHANGED <<sh, orphan>>
        /\ \A e \in Deploys \ {d} : pkg'[e] = pkg[e]
    BY <1>14, <2>1, RemoveStageIs
  <2>3. pkg'[d].at # "stage" /\ WholeAfter
    BY <2>2, BlankIs DEF None
  <2> QED
    BY <1>5, <2>2, <2>3 DEF SamePlace
<1>15. CASE Announce(c)
  <2>1. /\ op[c].pc = "announce" /\ NotesOnly /\ orphan' = orphan
        /\ BeginActivation(c, op[c].name) \/ (Ends(c) /\ sh' = sh)
    BY <1>15, AnnounceIs
  <2>2. d \in Deploys /\ pkg[d].at \in {"release", "nested"} /\ SamePlace(d)
    BY <1>1, <1>3, <1>7, <2>1 DEF Placed, DeployingPC
  <2>3. CASE BeginActivation(c, op[c].name)
    <3>1. GoesTo(c, "activate") /\ \A b \in Clients \ {c} : sh'[b] = sh[b]
      BY <2>1, <2>3, ActivatesIs
    <3>2. Placed(op'[c], sh'[c], pkg'[d])
      BY <2>2, <3>1 DEF GoesTo, Placed, SamePlace
    <3> QED
      BY <1>4, <1>7, <2>1, <3>1, <3>2 DEF GoesTo
  <2>4. CASE Ends(c) /\ sh' = sh
    <3>1. pkg'[d].at # "stage"
      BY <2>2 DEF SamePlace
    <3> QED
      BY <1>5, <1>7, <2>1, <2>4, <3>1
  <2> QED
    BY <2>1, <2>3, <2>4
<1>16. CASE UseActivates(c)
  <2>1. /\ op[c].pc = "use" /\ BeginActivation(c, op[c].name) /\ pkg' = pkg /\ orphan' = orphan
        /\ d = 0
    BY <1>1, <1>16, UseActivatesIs DEF CommandSound
  <2>2. GoesTo(c, "activate") /\ \A b \in Clients \ {c} : sh'[b] = sh[b]
    BY <2>1, ActivatesIs
  <2>3. Placed(op'[c], sh'[c], pkg'[d])
    BY <2>1, <2>2 DEF GoesTo, Placed
  <2> QED
    BY <1>3, <1>4, <1>6, <2>1, <2>2, <2>3 DEF GoesTo
<1>17. CASE Activated(c)
  <2>1. /\ op[c].pc = "activate" /\ Ends(c) /\ pkg' = pkg /\ orphan' = orphan
        /\ \A b \in Clients \ {c} : sh'[b] = sh[b]
    BY <1>17, ActivatedIs
  <2>2. d \in Deploys => pkg[d].at \in {"release", "nested"}
    BY <1>1, <1>3, <2>1 DEF Placed
  <2> QED
    BY <1>5, <1>6, <2>1, <2>2
<1> QED
  BY <1>8, <1>9, <1>10, <1>11, <1>12, <1>13, <1>14, <1>15, <1>16, <1>17 DEF DeployAction

\* The steps of the remote scripts.
LEMMA RemoteUncut ==
  ASSUME StructureInv, Uncut, NEW x \in Clients \cup {"orphan"}, RemoteStep(x)
  PROVE  Uncut'
<1>1. TypeOK /\ ScriptMoves(x) /\ UNCHANGED <<run, op, count, hist>>
  BY RemoteIs DEF StructureInv
<1>2. x \in Clients /\ Script(x) = sh[x] /\ sh[x].prog # <<>>
  BY <1>1, ScriptIs DEF ScriptMoves, Advanced, Aborted, Uncut
<1> DEFINE d == op[x].d
<1>3. /\ Placed(op[x], sh[x], pkg[d]) /\ \A e \in Deploys : StageOwned(e) /\ ReleaseWhole(e)
      /\ orphan.prog = <<>> /\ OnlyActs(x) /\ op'[x] = op[x]
  BY <1>1, <1>2 DEF Uncut, TypeOK, OnlyActs
<1>5. ASSUME NEW t \in ScriptOf, Put(x, t)
      PROVE  orphan' = orphan /\ sh'[x] = t /\ \A b \in Clients \ {x} : sh'[b] = sh[b]
  BY <1>1, <1>2, <1>5, PutIs, ReleaseConstants
<1>6. ASSUME NEW t \in ScriptOf, Put(x, t), Placed(op[x], t, pkg'[d]),
             \A e \in Deploys \ {d} : SamePlace(e),
             d \in Deploys =>
               (pkg'[d].at = "release" => pkg'[d].onnx # 0 /\ pkg'[d].meta # 0)
      PROVE  Uncut'
  <2>1. \A e \in Deploys : e = d => StageOwned(e)' /\ ReleaseWhole(e)'
    BY <1>2, <1>3, <1>6 DEF StageOwned, ReleaseWhole
  <2> QED
    BY <1>2, <1>3, <1>5, <1>6, <2>1, UncutKeeps
<1>7. ASSUME pkg' = pkg
      PROVE  /\ \A e \in Deploys : SamePlace(e)
             /\ d \in Deploys =>
                  (pkg'[d].at = "release" => pkg'[d].onnx # 0 /\ pkg'[d].meta # 0)
  BY <1>3, <1>7 DEF SamePlace, ReleaseWhole
\* An install script.
<1>8. CASE sh[x].prog \in InstallPrograms
  <2>1. op[x].pc = "install" /\ sh[x].d = d /\ d \in Deploys
    BY <1>2, <1>8, InstallScriptIs, ReleaseConstants
  <2>2. pkg[d].at = "stage"
    BY <1>2, <1>3, <2>1 DEF Placed
  <2>3. ASSUME NEW t \in ScriptOf, Aborted(sh[x], t)
        PROVE  Placed(op[x], t, pkg[d])
    BY <2>1, <2>2, <2>3, Programs DEF Placed, Aborted
  <2>4. CASE Unpack(x)
    <3>1. PICK t \in ScriptOf :
            /\ Put(x, t)
            /\ \/ Aborted(sh[x], t)
               \/ Advanced(sh[x], t) /\ pkg[d].onnx # 0 /\ pkg[d].meta # 0
      BY <1>2, <2>1, <2>4, UnpackIs DEF Turns
    <3>2. pkg' = pkg /\ sh[x].prog = <<"unpack", "absent", "mv">>
      BY <1>2, <2>4, UnpackIs
    <3>3. ASSUME Advanced(sh[x], t), pkg[d].onnx # 0, pkg[d].meta # 0
          PROVE  Placed(op[x], t, pkg[d])
      <4>1. t.prog = <<"absent", "mv">> /\ t.prog # <<>>
        BY <3>2, <3>3, Programs, ProgramsDiffer DEF Advanced, InstallPrograms
      <4>2. t.result = None
        BY <3>3, <4>1 DEF Advanced
      <4> QED
        BY <2>1, <2>2, <3>3, <4>1, <4>2 DEF Placed, None
    <3>4. Placed(op[x], t, pkg'[d])
      BY <2>3, <3>1, <3>2, <3>3
    <3> QED
      BY <1>6, <1>7, <3>1, <3>2, <3>4
  <2>5. CASE CheckAbsent(x)
    <3>1. PICK t \in ScriptOf : Put(x, t) /\ (Aborted(sh[x], t) \/ Advanced(sh[x], t))
      BY <1>2, <2>5, CheckAbsentIs DEF Turns
    <3>2. pkg' = pkg /\ sh[x].prog = <<"absent", "mv">>
      BY <1>2, <2>5, CheckAbsentIs
    <3>3. ASSUME Advanced(sh[x], t)
          PROVE  Placed(op[x], t, pkg[d])
      <4>1. t.prog = <<"mv">> /\ t.prog # <<>>
        BY <3>2, <3>3, Programs, ProgramsDiffer DEF Advanced, InstallPrograms
      <4>2. t.result = None /\ pkg[d].onnx # 0 /\ pkg[d].meta # 0
        BY <1>3, <2>1, <3>2, <3>3, <4>1 DEF Advanced, Placed
      <4> QED
        BY <2>1, <2>2, <4>1, <4>2 DEF Placed, None
    <3>4. Placed(op[x], t, pkg'[d])
      BY <2>3, <3>1, <3>2, <3>3
    <3> QED
      BY <1>6, <1>7, <3>1, <3>2, <3>4
  <2>6. CASE MoveStage(x)
    <3>1. PICK t \in ScriptOf : Put(x, t) /\ Advanced(sh[x], t)
      BY <1>2, <2>1, <2>2, <2>6, MoveStageIs DEF Turns
    <3>2. /\ sh[x].prog = <<"mv">> /\ \A e \in Deploys \ {d} : pkg'[e] = pkg[e]
          /\ pkg'[d].at \in {"release", "nested"}
          /\ pkg'[d].onnx = pkg[d].onnx /\ pkg'[d].meta = pkg[d].meta
      BY <1>2, <2>1, <2>2, <2>6, MoveStageIs
    <3>3. pkg[d].onnx # 0 /\ pkg[d].meta # 0
      BY <1>3, <2>1, <3>2 DEF Placed
    <3>4. t.prog = <<>> /\ t.result = "ok"
      BY <3>1, <3>2, Programs DEF Advanced
    <3>5. Placed(op[x], t, pkg'[d])
      BY <2>1, <3>2, <3>4, Programs DEF Placed
    <3> QED
      BY <1>6, <3>1, <3>2, <3>3, <3>5 DEF SamePlace
  <2>7. CASE CopyCurrent(x) \/ Link(x, "onnx") \/ Link(x, "manifest")
    <3>1. Script(x).prog \in ActivationPrograms
      BY <2>7, CopyCurrentIs, LinkIs DEF ActivationPrograms
    <3> QED
      BY <1>2, <1>8, <3>1, ProgramsDiffer
  <2> QED
    BY <2>4, <2>5, <2>6, <2>7 DEF RemoteStep
\* An activation script.
<1>9. CASE sh[x].prog \notin InstallPrograms
  <2>1. op[x].pc = "activate"
    BY <1>2, <1>9, BlankIs DEF StructureInv, ScriptInv
  <2>2. pkg' = pkg
    <3>1. ~MoveStage(x)
      BY <1>2, <1>9, MoveStageIs DEF InstallPrograms
    <3> QED
      BY <3>1 DEF RemoteStep, Unpack, CheckAbsent, CopyCurrent, Link
  <2>3. PICK t \in ScriptOf : Put(x, t)
    BY <1>1 DEF ScriptMoves
  <2>4. Placed(op[x], t, pkg'[d])
    BY <1>3, <2>1, <2>2 DEF Placed
  <2> QED
    BY <1>6, <1>7, <2>2, <2>3, <2>4
<1> QED
  BY <1>8, <1>9

LEMMA NextUncut ==
  ASSUME StructureInv, StructureInv', UncutInv, [Next]_vars
  PROVE  UncutInv'
<1> SUFFICES ASSUME count'.lost = 0
             PROVE  Uncut'
  BY DEF UncutInv
<1>1. /\ Uncut /\ \A c \in Clients : ~LoseConnection(c) /\ ~Killed(c)
      /\ orphan'.prog = <<>>
  BY LostSteps DEF UncutInv, Uncut
<1>2. \A e \in Deploys : StageOwned(e) /\ ReleaseWhole(e)
  BY <1>1 DEF Uncut
<1>3. ASSUME NEW c \in Clients, TrainingAction(c) \/ UsingAction(c)
      PROVE  Uncut'
  <2>1. OutsideStep(c)
    BY <1>3, OutsideIs
  <2>2. Placed(op'[c], sh'[c], pkg'[op'[c].d])
    BY <2>1 DEF OutsideStep, Outside, Placed, DeployingPC
  <2>3. 0 \notin Deploys
    BY ReleaseConstants DEF Deploys
  <2>4. \A e \in {op[c].d, op'[c].d} \cap Deploys : StageOwned(e)' /\ ReleaseWhole(e)'
    BY <2>1, <2>3 DEF OutsideStep, Outside
  <2> QED
    BY <1>1, <2>1, <2>2, <2>4, UncutKeeps DEF OutsideStep, Outside, SamePlace
<1>4. ASSUME NEW c \in Clients, (\E n \in Names : StartDeploy(c, n)) \/ DeployTrained(c)
      PROVE  Uncut'
  <2>1. NewDeployment(c)
    BY <1>4, NewDeploymentIs
  <2>2. Placed(op'[c], sh'[c], pkg'[op'[c].d])
    BY <2>1 DEF NewDeployment, Placed
  <2>3. 0 \notin Deploys
    BY ReleaseConstants DEF Deploys
  <2>4. \A e \in {op[c].d, op'[c].d} \cap Deploys : StageOwned(e)' /\ ReleaseWhole(e)'
    BY <1>2, <2>1, <2>3 DEF NewDeployment, StageOwned, ReleaseWhole
  <2> QED
    BY <1>1, <2>1, <2>2, <2>4, UncutKeeps DEF NewDeployment, SamePlace
<1>5. ASSUME NEW c \in Clients, DeployAction(c)
      PROVE  Uncut'
  BY <1>1, <1>5, DeployUncut
<1>6. ASSUME NEW x \in Clients \cup {"orphan"}, RemoteStep(x)
      PROVE  Uncut'
  BY <1>1, <1>6, RemoteUncut
<1>7. CASE OrphanEnds \/ UNCHANGED vars
  <2>1. UNCHANGED <<pkg, op, sh>>
    BY <1>7 DEF OrphanEnds, vars
  <2> QED
    BY <1>1, <2>1 DEF Uncut, StageOwned, ReleaseWhole
<1> QED
  BY <1>1, <1>3, <1>4, <1>5, <1>6, <1>7, Steps

-----------------------------------------------------------------------------
(* The pointers.                                                           *)

LEMMA ReleasedStays ==
  ASSUME StructureInv, PackageStep, NEW n, IsReleased(n)
  PROVE  IsReleased(n)'
BY ReleasesStay DEF IsReleased

\* A script that is about to link has just found its release, or goes on linking it.
LinkStep ==
    /\ \A b \in Clients : Links(sh'[b]) =>
          \/ Links(sh[b]) /\ sh'[b].name = sh[b].name
          \/ IsReleased(sh'[b].name)
    /\ Links(orphan') =>
          \/ Links(orphan) /\ orphan'.name = orphan.name
          \/ IsReleased(orphan'.name)
          \/ \E c \in Clients : Links(sh[c]) /\ orphan'.name = sh[c].name

LEMMA NoLinks ==
  /\ ~Links(NoScript)
  /\ \A s : s.prog = <<"unpack", "absent", "mv">> => ~Links(s)
  /\ \A s : s.prog = <<"current", "onnx", "manifest">> => ~Links(s)
<1>1. {<<"onnx", "manifest">>, <<"manifest">>} \subseteq ActivationPrograms
  BY DEF ActivationPrograms
<1>2. <<"unpack", "absent", "mv">> \in InstallPrograms
  BY DEF InstallPrograms
<1> QED
  BY <1>1, <1>2, BlankIs, ProgramsDiffer, Programs DEF Links

LEMMA LinkSteps ==
  ASSUME StructureInv, [Next]_vars
  PROVE  LinkStep
<1>1. TypeOK
  BY DEF StructureInv
<1>2. ASSUME NEW c \in Clients, \A b \in Clients \ {c} : sh'[b] = sh[b], orphan' = orphan,
             ~Links(sh'[c]) \/ sh'[c] = sh[c]
      PROVE  LinkStep
  BY <1>2 DEF LinkStep
<1>3. ASSUME sh' = sh, orphan' = orphan
      PROVE  LinkStep
  BY <1>3 DEF LinkStep
<1>4. ASSUME NEW c \in Clients, TrainingAction(c) \/ UsingAction(c)
      PROVE  LinkStep
  BY <1>3, <1>4, OutsideIs DEF OutsideStep
<1>5. ASSUME NEW c \in Clients, (\E n \in Names : StartDeploy(c, n)) \/ DeployTrained(c)
      PROVE  LinkStep
  BY <1>3, <1>5, NewDeploymentIs DEF NewDeployment
<1>6. ASSUME NEW c \in Clients, op[c].pc # "idle", BeginActivation(c, op[c].name), orphan' = orphan
      PROVE  LinkStep
  BY <1>2, <1>6, ActivatesIs, NoLinks
<1>7. ASSUME NEW c \in Clients, DeployAction(c)
      PROVE  LinkStep
  <2>1. CASE RequireArtifacts(c) \/ MakeStage(c) \/ Cleanup(c) \/ Unlink(c) \/ RemoveStage(c)
    BY <1>3, <2>1, RequireArtifactsIs, MakeStageIs, WalksIs, UnlinkIs, RemoveStageIs
  <2>2. CASE Upload(c)
    BY <1>2, <1>3, <2>2, UploadIs, NoLinks
  <2>3. CASE Installed(c) \/ Activated(c)
    BY <1>2, <2>3, InstalledIs, ActivatedIs, NoLinks
  <2>4. CASE Announce(c)
    BY <1>3, <1>6, <2>4, AnnounceIs
  <2>5. CASE UseActivates(c)
    BY <1>6, <2>5, UseActivatesIs
  <2> QED
    BY <1>7, <2>1, <2>2, <2>3, <2>4, <2>5 DEF DeployAction
<1>8. ASSUME NEW c \in Clients, LoseConnection(c) \/ Killed(c)
      PROVE  LinkStep
  <2>1. Detached(c)
    BY <1>8, LoseConnectionIs, KilledIs
  <2> QED
    BY <2>1, NoLinks DEF Detached, LinkStep
<1>9. ASSUME NEW x \in Clients \cup {"orphan"}, RemoteStep(x)
      PROVE  LinkStep
  <2>1. PICK t \in ScriptOf : Put(x, t) /\ (Advanced(Script(x), t) \/ Aborted(Script(x), t))
    BY <1>1, <1>9, RemoteIs DEF ScriptMoves
  <2>2. t.name = Script(x).name
    BY <2>1 DEF Advanced, Aborted
  <2>3. Links(t) => Links(Script(x)) \/ IsReleased(t.name)
    <3>1. HAVE Links(t)
    <3>2. t.prog \in ActivationPrograms /\ t.prog # <<>>
      BY <3>1, ProgramsDiffer DEF Links, ActivationPrograms
    <3>3. Advanced(Script(x), t) /\ t.prog = Tail(Script(x).prog)
      BY <2>1, <3>2 DEF Advanced, Aborted
    <3>4. Script(x).prog \in ActivationPrograms
      <4>1. Script(x).prog \in InstallPrograms \cup ActivationPrograms
        BY <1>1, <3>3, ScriptIs DEF Advanced, ScriptOf
      <4> QED
        BY <3>2, <3>3, <4>1, ProgramSteps, ProgramsDiffer
    <3>5. CASE Script(x).prog = <<"current", "onnx", "manifest">>
      <4>1. CopyCurrent(x)
        BY <1>9, <3>5, UnpackIs, CheckAbsentIs, MoveStageIs, LinkIs, Programs DEF RemoteStep
      <4>2. Turns(x, Aborted) \/ IsReleased(Script(x).name)
        BY <4>1, CopyCurrentIs
      <4>3. ~Turns(x, Aborted)
        <5>1. SUFFICES ASSUME NEW u \in ScriptOf, Put(x, u), Aborted(Script(x), u)
                       PROVE  FALSE
          BY DEF Turns
        <5>2. u = t
          BY <1>1, <2>1, <5>1, PutIs
        <5> QED
          BY <3>2, <5>1, <5>2 DEF Aborted
      <4> QED
        BY <2>2, <4>2, <4>3
    <3>6. CASE Script(x).prog # <<"current", "onnx", "manifest">>
      BY <3>4, <3>6 DEF Links, ActivationPrograms
    <3> QED
      BY <3>5, <3>6
  <2> QED
    BY <1>1, <2>1, <2>2, <2>3, PutIs, ScriptIs DEF LinkStep
<1>10. CASE OrphanEnds
  BY <1>10, NoLinks DEF OrphanEnds, LinkStep
<1>11. CASE UNCHANGED vars
  BY <1>3, <1>11 DEF vars
<1> QED
  BY <1>4, <1>5, <1>7, <1>8, <1>9, <1>10, <1>11, Steps

\* Only the activation scripts write the pointers.
LEMMA PointerSteps ==
  ASSUME StructureInv, [Next]_vars
  PROVE  \/ pointer' = pointer
         \/ \E x \in Clients \cup {"orphan"} :
              CopyCurrent(x) \/ Link(x, "onnx") \/ Link(x, "manifest")
<1>1. ASSUME NEW c \in Clients, DeployAction(c)
      PROVE  pointer' = pointer
  BY <1>1, RequireArtifactsIs, MakeStageIs, UploadIs, InstalledIs, WalksIs,
     UnlinkIs, RemoveStageIs, AnnounceIs, UseActivatesIs, ActivatedIs DEF DeployAction
<1>2. ASSUME NEW c \in Clients,
             \/ TrainingAction(c) \/ UsingAction(c)
             \/ (\E n \in Names : StartDeploy(c, n)) \/ DeployTrained(c)
      PROVE  pointer' = pointer
  BY <1>2, OutsideIs, NewDeploymentIs DEF OutsideStep, NewDeployment
<1>3. ASSUME NEW c \in Clients, LoseConnection(c) \/ Killed(c)
      PROVE  pointer' = pointer
  BY <1>3, LoseConnectionIs, KilledIs
<1>4. ASSUME NEW x \in Clients \cup {"orphan"}, RemoteStep(x)
      PROVE  \/ pointer' = pointer
             \/ CopyCurrent(x) \/ Link(x, "onnx") \/ Link(x, "manifest")
  BY <1>4, UnpackIs, CheckAbsentIs, MoveStageIs DEF RemoteStep
<1>5. CASE OrphanEnds \/ UNCHANGED vars
  BY <1>5 DEF OrphanEnds, vars
<1> QED
  BY <1>1, <1>2, <1>3, <1>4, <1>5, Steps

LEMMA NextPointers ==
  ASSUME StructureInv, PointerInv, [Next]_vars
  PROVE  PointerInv'
<1>1. PackageStep /\ LinkStep /\ \A n : IsReleased(n) => IsReleased(n)'
  BY PackageSteps, LinkSteps, ReleasedStays
<1>2. \A n \in {pointer'.current, pointer'.onnx, pointer'.manifest} \ {None} : IsReleased(n)
  <2>1. CASE pointer' = pointer
    BY <2>1 DEF PointerInv
  <2>2. ASSUME NEW x \in Clients \cup {"orphan"}, CopyCurrent(x), pointer' # pointer
        PROVE  \A n \in {pointer'.current, pointer'.onnx, pointer'.manifest} \ {None} :
                  IsReleased(n)
    BY <2>2, CopyCurrentIs DEF PointerInv
  <2>3. ASSUME NEW x \in Clients \cup {"orphan"}, NEW which \in {"onnx", "manifest"},
               Link(x, which)
        PROVE  \A n \in {pointer'.current, pointer'.onnx, pointer'.manifest} \ {None} :
                  IsReleased(n)
    <3>1. Links(Script(x))
      BY <2>3, LinkIs DEF Links
    <3>2. IsReleased(Script(x).name)
      BY <3>1 DEF Script, PointerInv
    <3>3. /\ pointer'.current = pointer.current
          /\ \/ pointer'.onnx = Script(x).name /\ pointer'.manifest = pointer.manifest
             \/ pointer'.manifest = Script(x).name /\ pointer'.onnx = pointer.onnx
      BY <2>3, LinkIs
    <3> QED
      BY <3>2, <3>3 DEF PointerInv
  <2> QED
    BY <2>1, <2>2, <2>3, PointerSteps
<1>3. \A b \in Clients : Links(sh'[b]) => IsReleased(sh'[b].name)
  BY <1>1 DEF LinkStep, PointerInv
<1>4. Links(orphan') => IsReleased(orphan'.name)
  BY <1>1 DEF LinkStep, PointerInv
<1>5. \A n : IsReleased(n)' <=> \E d \in Deploys : pkg'[d].name = n /\ pkg'[d].at = "release"
  BY DEF IsReleased
<1> QED
  BY <1>1, <1>2, <1>3, <1>4, <1>5 DEF PointerInv, Links, IsReleased

-----------------------------------------------------------------------------
(* While no two activations overlap.                                       *)

\* What a step does to the history, apart from the trainings that begin or complete, the
\* deployments of train-deploy-model and the benchmarks.
LEMMA HistorySteps ==
  ASSUME StructureInv, [Next]_vars
  PROVE  /\ hist.raced => hist'.raced
         /\ hist.shared => hist'.shared
         /\ hist.passed \subseteq hist'.passed
         /\ hist.trained \subseteq hist'.trained
         /\ hist'.own = hist.own \/ \E c \in Clients : DeployTrained(c)
         /\ hist'.bench = hist.bench \/ \E c \in Clients : CopyManifest(c)
<1> DEFINE Grows == /\ hist.raced => hist'.raced
                    /\ hist.shared => hist'.shared
                    /\ hist.passed \subseteq hist'.passed
                    /\ hist.trained \subseteq hist'.trained
                    /\ hist'.own = hist.own \/ \E c \in Clients : DeployTrained(c)
                    /\ hist'.bench = hist.bench \/ \E c \in Clients : CopyManifest(c)
<1>1. hist \in History /\ hist' \in History
  BY NextTypes DEF StructureInv, TypeOK
<1>2. ASSUME hist' = hist
      PROVE  Grows
  BY <1>2
<1>3. ASSUME NEW c \in Clients, TrainingAction(c)
      PROVE  Grows
  <2>1. ASSUME NEW n \in Names, Train(c, n) \/ TrainDeploy(c, n)
        PROVE  Grows
    BY <1>2, <2>1 DEF Train, TrainDeploy, Start
  <2>2. CASE Preflight(c) \/ PrepareRunDir(c) \/ TrainWorldModel(c) \/ ExportOnnx(c)
    BY <1>2, <2>2, WalksIs, TrainWorldModelIs, ExportOnnxIs
  <2>3. CASE Begin(c)
    BY <1>1, <2>3, BeginIs DEF History
  <2>4. CASE RunGateAblation(c)
    BY <1>1, <2>4, RunGateAblationIs DEF History
  <2> QED
    BY <1>3, <2>1, <2>2, <2>3, <2>4 DEF TrainingAction
<1>4. ASSUME NEW c \in Clients, UsingAction(c)
      PROVE  Grows
  BY <1>1, <1>2, <1>4, UseIs, BenchCurrentIs, CopyModelIs, CopyManifestIs
     DEF UsingAction, History
<1>5. ASSUME NEW c \in Clients, (\E n \in Names : StartDeploy(c, n)) \/ DeployTrained(c)
      PROVE  Grows
  BY <1>1, <1>2, <1>5, StartDeployIs, DeployTrainedIs DEF History
<1>6. ASSUME NEW c \in Clients, op[c].pc # "idle", BeginActivation(c, op[c].name)
      PROVE  Grows
  BY <1>1, <1>6, ActivatesIs DEF History
<1>7. ASSUME NEW c \in Clients, DeployAction(c)
      PROVE  Grows
  <2>1. CASE Upload(c)
    BY <1>1, <1>2, <2>1, UploadIs DEF History
  <2>2. CASE Announce(c)
    BY <1>2, <1>6, <2>2, AnnounceIs
  <2>3. CASE UseActivates(c)
    BY <1>6, <2>3, UseActivatesIs
  <2> QED
    BY <1>2, <1>7, <2>1, <2>2, <2>3, RequireArtifactsIs, MakeStageIs, InstalledIs, WalksIs,
       UnlinkIs, RemoveStageIs, ActivatedIs DEF DeployAction
<1>8. ASSUME NEW c \in Clients, LoseConnection(c) \/ Killed(c)
      PROVE  Grows
  BY <1>2, <1>8, LoseConnectionIs, KilledIs
<1>9. ASSUME NEW x \in Clients \cup {"orphan"}, RemoteStep(x)
      PROVE  Grows
  BY <1>2, <1>9, RemoteIs DEF StructureInv
<1>10. CASE OrphanEnds \/ UNCHANGED vars
  BY <1>2, <1>10 DEF OrphanEnds, vars
<1> QED
  BY <1>3, <1>4, <1>5, <1>7, <1>8, <1>9, <1>10, Steps

\* Commands at a position of their own are of its kind.
LEMMA BenchKind ==
  ASSUME NEW x \in Command, CommandSound(x)
  PROVE  x.cmd = "bench" <=> x.pc \in BenchPC
BY IdleIs DEF CommandSound, Command, PC, TrainingPC, DeployingPC, BenchPC, None

\* A client activates while its script has something left to do.
IsActivating(x, s) == s.prog # <<>> /\ x.pc = "activate"

LEMMA ActivatingIs == \A c : c \in Activating <=> c \in Clients /\ IsActivating(op[c], sh[c])
BY DEF Activating, IsActivating

LEMMA ActivatingThen == \A c : c \in Activating' <=> c \in Clients /\ IsActivating(op'[c], sh'[c])
BY DEF Activating, IsActivating

\* A step of a client that activates nothing, and no benchmark.
LEMMA UnracedFrame ==
  ASSUME StructureInv, Unraced, NEW c \in Clients, OnlyActs(c),
         \A b \in Clients \ {c} : sh'[b] = sh[b],
         pointer' = pointer, hist'.bench = hist.bench,
         ~IsActivating(op[c], sh[c]), ~IsActivating(op'[c], sh'[c]),
         Benched(op'[c])
  PROVE  Unraced'
<1>1. Activating' = Activating
  BY ActivatingIs, ActivatingThen DEF OnlyActs
<1>2. \A b \in Activating : sh'[b] = sh[b]
  BY ActivatingIs DEF Activating
<1>3. \A b \in Clients : Benched(op'[b])
  BY DEF OnlyActs, Unraced
<1> QED
  BY <1>1, <1>2, <1>3 DEF Unraced, Benched, AllName, PointersFollow

\* An activation that begins while there is no other, and no benchmark.
LEMMA UnracedBegins ==
  ASSUME StructureInv, Unraced, NEW c \in Clients, op[c].pc # "idle", pointer' = pointer,
         BeginActivation(c, op[c].name), ~hist'.raced
  PROVE  Unraced'
<1>1. /\ OnlyActs(c) /\ op'[c].pc = "activate" /\ op'[c].cmd = op[c].cmd
      /\ sh'[c].prog = <<"current", "onnx", "manifest">>
      /\ \A b \in Clients \ {c} : sh'[b] = sh[b]
      /\ Activating = {} /\ \A b \in Clients : op[b].cmd # "bench"
      /\ hist'.bench = hist.bench
  BY ActivatesIs DEF GoesTo
<1>2. \A b \in Activating' : b = c
  BY <1>1, ActivatingIs, ActivatingThen DEF OnlyActs
<1>3. AllName(pointer.current)
  BY <1>1 DEF Unraced
<1>4. /\ sh'[c].prog # <<"onnx", "manifest">> /\ sh'[c].prog # <<"manifest">>
      /\ sh'[c].prog # <<>>
  BY <1>1, Programs, ProgramsDiffer DEF ActivationPrograms
<1>5. c \in Activating'
  BY <1>1, <1>4, ActivatingThen DEF IsActivating
<1>6. \A b \in Clients : op'[b].cmd # "bench"
  BY <1>1 DEF OnlyActs
<1> QED
  BY <1>1, <1>2, <1>3, <1>4, <1>5, <1>6 DEF Unraced, Benched, PointersFollow, AllName

LEMMA RemoteUnraced ==
  ASSUME StructureInv, Unraced, orphan.prog = <<>>, NEW x \in Clients \cup {"orphan"},
         RemoteStep(x)
  PROVE  Unraced'
<1>1. TypeOK /\ ScriptMoves(x) /\ UNCHANGED <<run, op, count, hist>>
  BY RemoteIs DEF StructureInv
<1>2. x \in Clients /\ Script(x) = sh[x] /\ sh[x].prog # <<>>
  BY <1>1, ScriptIs DEF ScriptMoves, Advanced, Aborted
<1>3. ASSUME NEW t \in ScriptOf, Put(x, t)
      PROVE  sh'[x] = t /\ \A b \in Clients \ {x} : sh'[b] = sh[b]
  BY <1>1, <1>2, <1>3, PutIs, ReleaseConstants
<1>4. OnlyActs(x) /\ op'[x] = op[x] /\ hist'.bench = hist.bench
  BY <1>1, <1>2 DEF TypeOK, OnlyActs
<1>5. CASE sh[x].prog \in InstallPrograms
  <2>1. op[x].pc = "install"
    BY <1>2, <1>5, InstallScriptIs, ReleaseConstants
  <2>2. pointer' = pointer
    <3>1. ~CopyCurrent(x) /\ ~Link(x, "onnx") /\ ~Link(x, "manifest")
      BY <1>2, <1>5, CopyCurrentIs, LinkIs, ProgramsDiffer DEF ActivationPrograms
    <3> QED
      BY <3>1, UnpackIs, CheckAbsentIs, MoveStageIs DEF RemoteStep
  <2>3. \A b \in Clients \ {x} : sh'[b] = sh[b]
    BY <1>1, <1>3 DEF ScriptMoves
  <2>4. ~IsActivating(op[x], sh[x]) /\ ~IsActivating(op'[x], sh'[x])
    BY <1>4, <2>1 DEF IsActivating
  <2>5. Benched(op'[x])
    BY <1>2, <1>4 DEF Unraced
  <2> QED
    BY <1>2, <1>4, <2>2, <2>3, <2>4, <2>5, UnracedFrame
<1>6. CASE sh[x].prog \notin InstallPrograms
  <2>1. op[x].pc = "activate"
    BY <1>2, <1>6, BlankIs DEF StructureInv, ScriptInv
  <2>2. /\ x \in Activating /\ \A b \in Activating : b = x
        /\ PointersFollow(sh[x]) /\ \A b \in Clients : op[b].cmd # "bench"
    BY <1>2, <2>1, ActivatingIs DEF Unraced, IsActivating, Benched
  <2>3. ASSUME NEW t \in ScriptOf, Put(x, t),
               t.prog = <<>> => AllName(pointer.current)',
               t.prog # <<>> => PointersFollow(t)'
        PROVE  Unraced'
    <3>1. \A b \in Activating' : b = x
      BY <1>3, <1>4, <2>2, <2>3, ActivatingIs, ActivatingThen DEF OnlyActs
    <3>2. x \in Activating' <=> t.prog # <<>>
      BY <1>2, <1>3, <1>4, <2>1, <2>3, ActivatingThen DEF IsActivating
    <3>3. \A b \in Clients : op'[b].cmd # "bench"
      BY <1>1, <2>2
    <3>4. sh'[x] = t
      BY <1>3, <2>3
    <3>5. x \in Activating' => PointersFollow(sh[x])'
      BY <2>3, <3>2, <3>4 DEF PointersFollow, AllName
    <3>6. Activating' = {} => AllName(pointer.current)'
      BY <2>3, <3>2
    <3>7. \A b \in Activating' : PointersFollow(sh[b])'
      BY <3>1, <3>5
    <3> QED
      BY <1>4, <3>1, <3>3, <3>6, <3>7 DEF Unraced, Benched
  <2>4. CASE CopyCurrent(x)
    <3>1. sh[x].prog = <<"current", "onnx", "manifest">> /\ AllName(pointer.current)
      BY <1>2, <2>2, <2>4, CopyCurrentIs DEF PointersFollow
    <3>2. CASE Turns(x, Aborted) /\ pointer' = pointer
      <4>1. PICK t \in ScriptOf : Put(x, t) /\ t.prog = <<>>
        BY <3>2 DEF Turns, Aborted
      <4> QED
        BY <2>3, <3>1, <3>2, <4>1 DEF AllName
    <3>3. CASE /\ Turns(x, Advanced) /\ pointer'.current = sh[x].name
               /\ pointer'.onnx = pointer.onnx /\ pointer'.manifest = pointer.manifest
      <4>1. PICK t \in ScriptOf : Put(x, t) /\ Advanced(sh[x], t)
        BY <1>2, <3>3 DEF Turns
      <4>2. t.prog = <<"onnx", "manifest">> /\ t.name = sh[x].name
        BY <3>1, <4>1, Programs DEF Advanced
      <4>3. PointersFollow(t)' /\ t.prog # <<>>
        BY <3>1, <3>3, <4>2, Programs, ProgramsDiffer
           DEF PointersFollow, AllName, ActivationPrograms
      <4> QED
        BY <2>3, <4>1, <4>3
    <3> QED
      BY <1>2, <2>4, <3>2, <3>3, CopyCurrentIs
  <2>5. CASE Link(x, "onnx")
    <3>1. /\ sh[x].prog = <<"onnx", "manifest">> /\ pointer'.current = pointer.current
          /\ pointer'.onnx = sh[x].name
      BY <1>2, <2>5, LinkIs
    <3>2. PICK t \in ScriptOf : Put(x, t) /\ Advanced(sh[x], t)
      BY <1>2, <2>5, LinkIs DEF Turns
    <3>3. t.prog = <<"manifest">> /\ t.name = sh[x].name
      BY <3>1, <3>2, Programs DEF Advanced
    <3>4. PointersFollow(t)' /\ t.prog # <<>>
      BY <2>2, <3>1, <3>3, Programs, ProgramsDiffer
         DEF PointersFollow, AllName, ActivationPrograms
    <3> QED
      BY <2>3, <3>2, <3>4
  <2>6. CASE Link(x, "manifest")
    <3>1. /\ sh[x].prog = <<"manifest">> /\ pointer'.current = pointer.current
          /\ pointer'.manifest = sh[x].name /\ pointer'.onnx = pointer.onnx
      BY <1>2, <2>6, LinkIs
    <3>2. PICK t \in ScriptOf : Put(x, t) /\ Advanced(sh[x], t)
      BY <1>2, <2>6, LinkIs DEF Turns
    <3>3. t.prog = <<>>
      BY <3>1, <3>2, Programs DEF Advanced
    <3>4. AllName(pointer.current)'
      BY <2>2, <3>1 DEF PointersFollow, AllName
    <3> QED
      BY <2>3, <3>2, <3>3, <3>4
  <2>7. ~Unpack(x) /\ ~CheckAbsent(x) /\ ~MoveStage(x)
    BY <1>2, <1>6, UnpackIs, CheckAbsentIs, MoveStageIs DEF InstallPrograms
  <2> QED
    BY <2>4, <2>5, <2>6, <2>7 DEF RemoteStep
<1> QED
  BY <1>5, <1>6

LEMMA NextRace ==
  ASSUME StructureInv, StructureInv', UncutInv, RaceInv, [Next]_vars
  PROVE  RaceInv'
<1> SUFFICES ASSUME ~hist'.raced, count'.lost = 0
             PROVE  Unraced'
  BY DEF RaceInv
<1>1. count.lost = 0 /\ ~hist.raced /\ \A c \in Clients : ~LoseConnection(c) /\ ~Killed(c)
  BY LostSteps, HistorySteps
<1>2. Unraced /\ Uncut /\ TypeOK
  BY <1>1 DEF RaceInv, UncutInv, StructureInv
<1>3. ASSUME NEW c \in Clients, TrainingAction(c) \/ UsingAction(c)
      PROVE  Unraced'
  <2>1. OutsideStep(c)
    BY <1>3, OutsideIs
  <2>2. ~IsActivating(op[c], sh[c]) /\ ~IsActivating(op'[c], sh'[c])
    BY <2>1 DEF OutsideStep, Outside, IsActivating
  <2>3. op[c] \in Command /\ op'[c] \in Command /\ CommandSound(op[c]) /\ CommandSound(op'[c])
    BY <2>1, CommandIs DEF OutsideStep, OnlyActs
  <2>4. \A b \in Clients \ {c} : sh'[b] = sh[b]
    BY <2>1 DEF OutsideStep
  <2>5. CASE CopyManifest(c)
    <3>1. /\ op[c].cmd = "bench" /\ pointer' = pointer /\ op[c].pc = "bench_meta" /\ Ends(c)
          /\ hist'.bench = hist.bench \cup {<<op[c].name, op[c].saw, pointer.manifest>>}
      BY <2>3, <2>5, CopyManifestIs, BenchKind DEF BenchPC
    <3>2. AllName(op[c].name) /\ op[c].saw = op[c].name /\ Activating = {}
      BY <1>2, <3>1 DEF Unraced, Benched
    <3>3. Activating' = {}
      BY <2>1, <2>2, <2>4, <3>2, ActivatingIs, ActivatingThen DEF OutsideStep, OnlyActs
    <3>4. \A b \in hist'.bench : b[1] = b[2] /\ b[2] = b[3]
      BY <1>2, <3>1, <3>2 DEF Unraced, AllName
    <3>5. \A b \in Clients : Benched(op'[b])
      BY <1>2, <3>1, IdleIs DEF Unraced, Benched, Ends, OnlyActs, None
    <3> QED
      BY <1>2, <3>1, <3>2, <3>3, <3>4, <3>5 DEF Unraced, Benched, AllName
  <2>6. CASE ~CopyManifest(c)
    <3>1. hist'.bench = hist.bench
      BY <2>1, <2>6, <1>3, BeginIs, RunGateAblationIs, WalksIs, TrainWorldModelIs, ExportOnnxIs,
         UseIs, BenchCurrentIs, CopyModelIs
         DEF TrainingAction, UsingAction, Train, TrainDeploy, Start
    <3>2. Benched(op'[c])
      <4>1. CASE TrainingAction(c)
        <5>1. op'[c].pc \notin BenchPC
          <6>1. ASSUME NEW n \in Names, Train(c, n) \/ TrainDeploy(c, n)
                PROVE  op'[c].pc \notin BenchPC
            BY <1>2, <6>1, StartIs DEF Train, TrainDeploy, BenchPC
          <6>2. CASE Preflight(c) \/ PrepareRunDir(c)
            <7>1. op[c].pc # "cleanup"
              BY <6>2 DEF Preflight, PrepareRunDir
            <7> QED
              BY <6>2, <7>1, WalksIs, IdleIs DEF GoesTo, Ends, BenchPC
          <6>3. CASE Begin(c)
            BY <6>3, BeginIs DEF GoesTo, BenchPC
          <6>4. CASE TrainWorldModel(c) \/ ExportOnnx(c)
            BY <6>4, TrainWorldModelIs, ExportOnnxIs, IdleIs DEF GoesTo, Ends, BenchPC
          <6>5. CASE RunGateAblation(c)
            BY <6>5, RunGateAblationIs, IdleIs DEF GoesTo, Ends, BenchPC
          <6> QED
            BY <4>1, <6>1, <6>2, <6>3, <6>4, <6>5 DEF TrainingAction
        <5> QED
          BY <2>3, <5>1, BenchKind DEF Benched
      <4>2. ASSUME NEW n \in Names, Use(c, n)
            PROVE  Benched(op'[c])
        <5>1. op[c].cmd # "bench"
          BY <2>3, <4>2, UseIs, BenchKind DEF BenchPC
        <5> QED
          BY <4>2, <5>1, UseIs DEF Benched
      <4>3. CASE BenchCurrent(c)
        BY <1>2, <4>3, BenchCurrentIs DEF Benched, Unraced
      <4>4. CASE CopyModel(c)
        <5>1. op[c].cmd = "bench"
          BY <2>3, <4>4, CopyModelIs, BenchKind DEF BenchPC
        <5> QED
          BY <1>2, <4>4, <5>1, CopyModelIs DEF Benched, Unraced, AllName
      <4> QED
        BY <1>3, <2>6, <4>1, <4>2, <4>3, <4>4 DEF UsingAction
    <3> QED
      BY <1>2, <2>1, <2>2, <2>4, <3>1, <3>2, UnracedFrame DEF OutsideStep
  <2> QED
    BY <2>5, <2>6
<1>4. ASSUME NEW c \in Clients, (\E n \in Names : StartDeploy(c, n)) \/ DeployTrained(c)
      PROVE  Unraced'
  <2>1. NewDeployment(c) /\ hist'.bench = hist.bench
    BY <1>4, NewDeploymentIs, StartDeployIs, DeployTrainedIs
  <2>2. ~IsActivating(op[c], sh[c]) /\ ~IsActivating(op'[c], sh'[c]) /\ Benched(op'[c])
    BY <2>1 DEF NewDeployment, IsActivating, Benched
  <2> QED
    BY <1>2, <2>1, <2>2, UnracedFrame DEF NewDeployment
<1>5. ASSUME NEW c \in Clients, DeployAction(c)
      PROVE  Unraced'
  <2>1. /\ OnlyActs(c) /\ op'[c] \in Command /\ CommandSound(op'[c])
    BY <1>5, DeployCommand DEF OnlyActs
  <2>2. pointer' = pointer
    BY <1>5, RequireArtifactsIs, MakeStageIs, UploadIs, InstalledIs, WalksIs,
       UnlinkIs, RemoveStageIs, AnnounceIs, UseActivatesIs, ActivatedIs DEF DeployAction
  <2>3. \A b \in Clients \ {c} : sh'[b] = sh[b]
    BY <1>5, RequireArtifactsIs, MakeStageIs, UploadIs, InstalledIs, WalksIs, ActivatesIs,
       UnlinkIs, RemoveStageIs, AnnounceIs, UseActivatesIs, ActivatedIs DEF DeployAction
  <2>4. ASSUME hist'.bench = hist.bench, ~IsActivating(op[c], sh[c]),
               op'[c].pc \in {"idle"} \cup DeployingPC
        PROVE  Unraced'
    <3>1. op'[c].pc \notin BenchPC /\ op'[c].pc # "activate"
      BY <2>4 DEF DeployingPC, BenchPC
    <3>2. Benched(op'[c])
      BY <2>1, <3>1, BenchKind DEF Benched
    <3> QED
      BY <1>2, <2>1, <2>2, <2>3, <2>4, <3>1, <3>2, UnracedFrame DEF IsActivating
  <2> USE IdleIs DEF GoesTo, Ends, DeployingPC, IsActivating
  <2>5. CASE RequireArtifacts(c)
    BY <2>4, <2>5, RequireArtifactsIs
  <2>6. CASE MakeStage(c)
    BY <2>4, <2>6, MakeStageIs
  <2>7. CASE Upload(c)
    BY <2>4, <2>7, UploadIs
  <2>8. CASE Installed(c)
    BY <2>4, <2>8, InstalledIs
  <2>9. CASE Cleanup(c)
    <3>1. op[c].pc = "cleanup"
      BY <2>9 DEF Cleanup
    <3> QED
      BY <2>4, <2>9, <3>1, WalksIs
  <2>10. CASE Unlink(c)
    BY <2>4, <2>10, UnlinkIs
  <2>11. CASE RemoveStage(c)
    BY <2>4, <2>11, RemoveStageIs
  <2>12. CASE Announce(c)
    BY <1>2, <2>2, <2>4, <2>12, AnnounceIs, UnracedBegins
  <2>13. CASE UseActivates(c)
    BY <1>2, <2>2, <2>13, UseActivatesIs, UnracedBegins
  <2>14. CASE Activated(c)
    <3>1. sh[c].prog = <<>>
      BY <2>14, ActivatedIs DEF StructureInv, ScriptInv
    <3> QED
      BY <2>4, <2>14, <3>1, ActivatedIs
  <2> QED
    BY <1>5, <2>5, <2>6, <2>7, <2>8, <2>9, <2>10, <2>11, <2>12, <2>13, <2>14 DEF DeployAction
<1>6. ASSUME NEW x \in Clients \cup {"orphan"}, RemoteStep(x)
      PROVE  Unraced'
  BY <1>2, <1>6, RemoteUnraced DEF Uncut
<1>7. CASE OrphanEnds \/ UNCHANGED vars
  <2>1. UNCHANGED <<op, sh, pointer, hist>>
    BY <1>7 DEF OrphanEnds, vars
  <2> QED
    BY <1>2, <2>1 DEF Unraced, Benched, AllName, PointersFollow, Activating
<1> QED
  BY <1>1, <1>3, <1>4, <1>5, <1>6, <1>7, Steps

-----------------------------------------------------------------------------
(* While nobody trains into the directory of somebody else.                *)

\* A command goes on with its deployment and training, or ends.
Carries(c) ==
    \/ op'[c] = Idle
    \/ /\ op'[c].d = op[c].d /\ op'[c].gen = op[c].gen /\ op'[c].cmd = op[c].cmd
       /\ op'[c].name = op[c].name

LEMMA DeployCarries ==
  ASSUME StructureInv, NEW c \in Clients, DeployAction(c) \/ LoseConnection(c) \/ Killed(c)
  PROVE  OnlyActs(c) /\ Carries(c) /\ count'.deploy = count.deploy /\ hist'.own = hist.own
<1> USE DEF Carries, GoesTo, Ends
<1>1. CASE RequireArtifacts(c) \/ MakeStage(c)
  BY <1>1, RequireArtifactsIs, MakeStageIs
<1>2. CASE Upload(c)
  BY <1>2, UploadIs
<1>3. CASE Installed(c)
  BY <1>3, InstalledIs
<1>4. CASE Cleanup(c)
  BY <1>4, WalksIs
<1>5. CASE Unlink(c) \/ RemoveStage(c)
  BY <1>5, UnlinkIs, RemoveStageIs
<1>6. CASE Announce(c)
  BY <1>6, AnnounceIs, ActivatesIs
<1>7. CASE UseActivates(c)
  BY <1>7, UseActivatesIs, ActivatesIs
<1>8. CASE Activated(c)
  BY <1>8, ActivatedIs
<1>9. CASE LoseConnection(c) \/ Killed(c)
  BY <1>9, LoseConnectionIs, KilledIs DEF Detached
<1> QED
  BY <1>1, <1>2, <1>3, <1>4, <1>5, <1>6, <1>7, <1>8, <1>9 DEF DeployAction

LEMMA NextNumbers ==
  ASSUME StructureInv, OwnNumbers, [Next]_vars
  PROVE  OwnNumbers'
<1>1. /\ TypeOK /\ count.deploy \in Nat /\ count.deploy =< count'.deploy
      /\ count'.deploy \in Nat
  BY NextCommands, NextTypes, ReleaseConstants DEF StructureInv, TypeOK
<1>2. \A o \in hist.own : o[1] \in Nat /\ o[1] # 0
  BY <1>1, ReleaseConstants DEF TypeOK, History
<1>3. ASSUME NEW c \in Clients, OnlyActs(c), hist'.own = hist.own,
             \A o \in hist.own : NumbersKept(op'[c], o)
      PROVE  OwnNumbers'
  BY <1>1, <1>2, <1>3 DEF OwnNumbers, OnlyActs, NumbersKept
<1>4. ASSUME op' = op, hist'.own = hist.own
      PROVE  OwnNumbers'
  BY <1>1, <1>2, <1>4 DEF OwnNumbers, NumbersKept
<1>5. ASSUME NEW c \in Clients, TrainingAction(c) \/ UsingAction(c)
      PROVE  OwnNumbers'
  <2>1. OutsideStep(c) /\ hist'.own = hist.own
    BY <1>1, <1>5, OutsideIs, BeginIs, RunGateAblationIs, WalksIs, TrainWorldModelIs,
       ExportOnnxIs, UseIs, BenchCurrentIs, CopyModelIs, CopyManifestIs
       DEF TrainingAction, UsingAction, Train, TrainDeploy, Start
  <2> QED
    BY <1>2, <1>3, <2>1 DEF OutsideStep, Outside, NumbersKept
<1>6. ASSUME NEW c \in Clients, NEW n \in Names, StartDeploy(c, n)
      PROVE  OwnNumbers'
  <2>1. \A o \in hist.own : NumbersKept(op'[c], o)
    BY <1>1, <1>2, <1>6, StartDeployIs DEF OwnNumbers, NumbersKept
  <2> QED
    BY <1>3, <1>6, <2>1, StartDeployIs
<1>7. ASSUME NEW c \in Clients, DeployTrained(c)
      PROVE  OwnNumbers'
  <2> DEFINE new == <<count.deploy + 1, op[c].gen>>
  <2>1. /\ hist'.own = hist.own \cup {new} /\ OnlyActs(c) /\ op'[c].d = count.deploy + 1
        /\ op'[c].gen = op[c].gen /\ op'[c].cmd = op[c].cmd
        /\ count'.deploy = count.deploy + 1 /\ op[c].pc = "new_deploy"
    BY <1>7, DeployTrainedIs
  <2>2. op[c].cmd = "train_deploy"
    BY <2>1, CommandIs DEF CommandSound
  <2>3. \A b \in Clients : op[b].d =< count.deploy /\ op[b].d \in Nat
    BY <1>1, CommandIs, ReleaseConstants DEF Command
  <2>4. \A o \in hist.own : o[1] =< count.deploy /\ o[1] # new[1]
    BY <1>1, <1>2 DEF OwnNumbers
  <2>5. new[1] = count.deploy + 1 /\ new[2] = op[c].gen
    OBVIOUS
  <2>6. \A b \in Clients : NumbersKept(op'[b], new)
    BY <1>1, <2>1, <2>2, <2>3, <2>5 DEF OnlyActs, NumbersKept
  <2>7. \A o \in hist.own, b \in Clients : NumbersKept(op'[b], o)
    BY <2>1, <2>4, <2>5 DEF OnlyActs, NumbersKept, OwnNumbers
  <2>8. \A o \in hist'.own, b \in Clients : NumbersKept(op'[b], o)
    BY <2>1, <2>6, <2>7
  <2>9. \A o, p \in hist'.own : p[1] = o[1] => p[2] = o[2]
    BY <2>1, <2>4 DEF OwnNumbers
  <2>10. \A o \in hist'.own : o[1] =< count'.deploy
    BY <1>1, <1>2, <2>1, <2>4, <2>5
  <2> QED
    BY <2>8, <2>9, <2>10 DEF OwnNumbers, NumbersKept
<1>8. ASSUME NEW c \in Clients, DeployAction(c) \/ LoseConnection(c) \/ Killed(c)
      PROVE  OwnNumbers'
  <2>1. OnlyActs(c) /\ Carries(c) /\ hist'.own = hist.own
    BY <1>8, DeployCarries
  <2>2. \A o \in hist.own : NumbersKept(op'[c], o)
    BY <1>2, <2>1, IdleIs DEF Carries, NumbersKept, OwnNumbers
  <2> QED
    BY <1>3, <2>1, <2>2
<1>9. ASSUME NEW x \in Clients \cup {"orphan"}, RemoteStep(x)
      PROVE  OwnNumbers'
  BY <1>1, <1>4, <1>9, RemoteIs
<1>10. CASE OrphanEnds \/ UNCHANGED vars
  BY <1>4, <1>10 DEF OrphanEnds, vars
<1> QED
  BY <1>5, <1>6, <1>7, <1>8, <1>9, <1>10, Steps

\* Artifacts are written by the training of the directory.
LEMMA RunSteps ==
  ASSUME StructureInv, [Next]_vars, NEW n \in Names
  PROVE  \/ SameFiles(n)
         \/ \E c \in Clients : /\ op[c].name = n
                               /\ Begin(c) \/ TrainWorldModel(c) \/ ExportOnnx(c)
<1> DEFINE Goal == \/ SameFiles(n)
                   \/ \E c \in Clients :
                        /\ op[c].name = n
                        /\ Begin(c) \/ TrainWorldModel(c) \/ ExportOnnx(c)
<1>1. ASSUME run' = run
      PROVE  Goal
  BY <1>1 DEF SameFiles
<1>2. ASSUME NEW c \in Clients, TrainingAction(c) \/ UsingAction(c)
      PROVE  Goal
  <2>1. CASE Begin(c)
    BY <2>1, BeginIs DEF SameFiles
  <2>2. CASE TrainWorldModel(c) \/ ExportOnnx(c)
    BY <2>2, TrainWorldModelIs, ExportOnnxIs
  <2>3. CASE RunGateAblation(c)
    BY <2>3, RunGateAblationIs
  <2>4. CASE run' = run
    BY <1>1, <2>4
  <2> QED
    BY <1>2, <2>1, <2>2, <2>3, <2>4, WalksIs, UseIs, BenchCurrentIs, CopyModelIs, CopyManifestIs
       DEF TrainingAction, UsingAction, Train, TrainDeploy, Start
<1>3. ASSUME NEW c \in Clients, (\E m \in Names : StartDeploy(c, m)) \/ DeployTrained(c)
      PROVE  Goal
  BY <1>1, <1>3, NewDeploymentIs DEF NewDeployment
<1>4. ASSUME NEW c \in Clients, DeployAction(c)
      PROVE  Goal
  BY <1>1, <1>4, RequireArtifactsIs, MakeStageIs, UploadIs, InstalledIs, WalksIs,
     UnlinkIs, RemoveStageIs, AnnounceIs, UseActivatesIs, ActivatedIs DEF DeployAction
<1>5. ASSUME NEW c \in Clients, LoseConnection(c) \/ Killed(c)
      PROVE  Goal
  BY <1>1, <1>5, LoseConnectionIs, KilledIs
<1>6. ASSUME NEW x \in Clients \cup {"orphan"}, RemoteStep(x)
      PROVE  Goal
  BY <1>1, <1>6, RemoteIs DEF StructureInv
<1>7. CASE OrphanEnds \/ UNCHANGED vars
  BY <1>1, <1>7 DEF OrphanEnds, vars
<1> QED
  BY <1>2, <1>3, <1>4, <1>5, <1>6, <1>7, Steps

\* How a command comes to own the directory of its name, and goes on owning it.
StillOwns(b) ==
    Owns(op[b]) /\ op'[b].name = op[b].name /\ op'[b].gen = op[b].gen

LEMMA OwnerSteps ==
  ASSUME StructureInv, [Next]_vars, NEW b \in Clients, Owns(op'[b])
  PROVE  \/ op'[b] = op[b]
         \/ Begin(b) /\ op'[b].pc = "train"
         \/ StillOwns(b) /\ TrainWorldModel(b) /\ op'[b].pc = "export"
         \/ StillOwns(b) /\ ExportOnnx(b) /\ op'[b].pc = "ablate"
         \/ StillOwns(b) /\ RunGateAblation(b) /\ op'[b].pc = "new_deploy"
         \/ /\ StillOwns(b) /\ op[b].pc \in {"new_deploy", "require", "mkdir"}
            /\ op'[b].pc \in {"require", "mkdir", "upload"}
<1> DEFINE Goal == \/ op'[b] = op[b]
                   \/ Begin(b) /\ op'[b].pc = "train"
                   \/ StillOwns(b) /\ TrainWorldModel(b) /\ op'[b].pc = "export"
                   \/ StillOwns(b) /\ ExportOnnx(b) /\ op'[b].pc = "ablate"
                   \/ StillOwns(b) /\ RunGateAblation(b) /\ op'[b].pc = "new_deploy"
                   \/ /\ StillOwns(b) /\ op[b].pc \in {"new_deploy", "require", "mkdir"}
                      /\ op'[b].pc \in {"require", "mkdir", "upload"}
<1>1. ASSUME NEW c \in Clients, OnlyActs(c), c # b
      PROVE  Goal
  BY <1>1 DEF OnlyActs
<1>2. TypeOK /\ CommandSound(op[b]) /\ Idle.cmd \notin {"train", "train_deploy"}
  BY CommandIs, IdleIs DEF None
<1>3. ASSUME NEW c \in Clients, TrainingAction(c)
      PROVE  Goal
  <2>1. CASE c # b
    BY <1>1, <1>3, <2>1, OutsideIs DEF OutsideStep
  <2>2. CASE c = b
    <3>1. ASSUME NEW n \in Names, Train(c, n) \/ TrainDeploy(c, n)
          PROVE  Goal
      BY <1>2, <2>2, <3>1, StartIs DEF Train, TrainDeploy, Owns
    <3>2. CASE Preflight(c) \/ PrepareRunDir(c)
      <4>1. op[c].pc # "cleanup"
        BY <3>2 DEF Preflight, PrepareRunDir
      <4> QED
        BY <1>2, <2>2, <3>2, <4>1, WalksIs DEF GoesTo, Ends, Owns
    <3>3. CASE Begin(c)
      BY <2>2, <3>3, BeginIs DEF GoesTo
    <3>4. CASE TrainWorldModel(c)
      BY <1>2, <2>2, <3>4, TrainWorldModelIs DEF GoesTo, Ends, Owns, StillOwns
    <3>5. CASE ExportOnnx(c)
      BY <1>2, <2>2, <3>5, ExportOnnxIs DEF GoesTo, Ends, Owns, StillOwns
    <3>6. CASE RunGateAblation(c)
      BY <1>2, <2>2, <3>6, RunGateAblationIs DEF GoesTo, Ends, Owns, StillOwns
    <3> QED
      BY <1>3, <3>1, <3>2, <3>3, <3>4, <3>5, <3>6 DEF TrainingAction
  <2> QED
    BY <2>1, <2>2
<1>4. ASSUME NEW c \in Clients, UsingAction(c)
      PROVE  Goal
  <2>1. CASE c # b
    BY <1>1, <1>4, <2>1, OutsideIs DEF OutsideStep
  <2>2. CASE c = b
    BY <1>2, <1>4, <2>2, UseIs, BenchCurrentIs, CopyModelIs, CopyManifestIs
       DEF UsingAction, Owns, Ends
  <2> QED
    BY <2>1, <2>2
<1>5. ASSUME NEW c \in Clients, NEW n \in Names, StartDeploy(c, n)
      PROVE  Goal
  BY <1>1, <1>5, StartDeployIs DEF Owns
<1>6. ASSUME NEW c \in Clients, DeployTrained(c)
      PROVE  Goal
  BY <1>1, <1>6, DeployTrainedIs DEF Owns, StillOwns
<1>7. ASSUME NEW c \in Clients, DeployAction(c)
      PROVE  Goal
  <2>1. CASE c # b
    BY <1>1, <1>7, <2>1, DeployCommand
  <2>2. CASE c = b
    <3> USE DEF GoesTo, Ends, Owns, StillOwns
    <3>1. CASE RequireArtifacts(c)
      BY <1>2, <2>2, <3>1, RequireArtifactsIs
    <3>2. CASE MakeStage(c)
      BY <1>2, <2>2, <3>2, MakeStageIs
    <3>3. CASE Upload(c)
      BY <2>2, <3>3, UploadIs
    <3>4. CASE Installed(c)
      BY <2>2, <3>4, InstalledIs
    <3>5. CASE Cleanup(c)
      <4>1. op[c].pc = "cleanup"
        BY <3>5 DEF Cleanup
      <4> QED
        BY <1>2, <2>2, <3>5, <4>1, WalksIs
    <3>6. CASE Unlink(c)
      BY <2>2, <3>6, UnlinkIs
    <3>7. CASE RemoveStage(c)
      BY <1>2, <2>2, <3>7, RemoveStageIs
    <3>8. CASE Announce(c)
      BY <1>2, <2>2, <3>8, AnnounceIs, ActivatesIs
    <3>9. CASE UseActivates(c)
      BY <2>2, <3>9, UseActivatesIs, ActivatesIs
    <3>10. CASE Activated(c)
      BY <1>2, <2>2, <3>10, ActivatedIs
    <3> QED
      BY <1>7, <3>1, <3>2, <3>3, <3>4, <3>5, <3>6, <3>7, <3>8, <3>9, <3>10 DEF DeployAction
  <2> QED
    BY <2>1, <2>2
<1>8. ASSUME NEW c \in Clients, LoseConnection(c) \/ Killed(c)
      PROVE  Goal
  <2>1. OnlyActs(c) /\ (op'[c] = Idle \/ op'[c].pc = "cleanup")
    BY <1>8, LoseConnectionIs, KilledIs DEF GoesTo, Ends
  <2> QED
    BY <1>1, <1>2, <2>1 DEF Owns
<1>9. ASSUME NEW x \in Clients \cup {"orphan"}, RemoteStep(x)
      PROVE  Goal
  BY <1>2, <1>9, RemoteIs
<1>10. CASE OrphanEnds \/ UNCHANGED vars
  BY <1>10 DEF OrphanEnds, vars
<1> QED
  BY <1>3, <1>4, <1>5, <1>6, <1>7, <1>8, <1>9, <1>10, Steps

LEMMA NextOwn ==
  ASSUME StructureInv, StructureInv', OwnNumbers, OwnInv, [Next]_vars
  PROVE  OwnInv'
<1> SUFFICES ASSUME ~hist'.shared
             PROVE  Unshared'
  BY DEF OwnInv
<1>1. /\ ~hist.shared /\ hist.passed \subseteq hist'.passed /\ hist.trained \subseteq hist'.trained
      /\ hist'.own = hist.own \/ \E c \in Clients : DeployTrained(c)
  BY HistorySteps
<1>2. Unshared /\ TypeOK /\ TypeOK' /\ PackageStep /\ PackageInv /\ CommandInv
  BY <1>1, PackageSteps DEF OwnInv, StructureInv
\* Nobody begins to train where somebody is training.
<1>3. ASSUME NEW b \in Clients, Owns(op[b]), NEW c \in Clients, Begin(c)
      PROVE  op[c].name # op[b].name
  BY <1>2, <1>3, BeginIs DEF Unshared, OwnerSound
<1>4. ASSUME NEW b \in Clients, Owns(op[b]), ~TrainWorldModel(b), ~ExportOnnx(b)
      PROVE  op[b].name \in Names /\ SameFiles(op[b].name)
  <2>1. op[b].name \in Names
    BY <1>4, CommandIs DEF Owns
  <2>2. ASSUME NEW c \in Clients, op[c].name = op[b].name, TrainWorldModel(c) \/ ExportOnnx(c)
        PROVE  FALSE
    <3>1. op[c].pc \in {"train", "export"}
      BY <2>2 DEF TrainWorldModel, ExportOnnx
    <3>2. Owns(op[c])
      BY <3>1, CommandIs DEF Owns, CommandSound, TrainingPC
    <3> QED
      BY <1>2, <1>4, <2>2, <3>2 DEF Unshared
  <2> QED
    BY <1>3, <1>4, <2>1, <2>2, RunSteps
<1>5. ASSUME NEW b \in Clients, Owns(op'[b])
      PROVE  OwnerSound(op[b])'
  <2> DEFINE x == op[b]  y == op'[b]  n == op[b].name
  <2>1. CASE y = x
    <3>1. ~TrainWorldModel(b) /\ ~ExportOnnx(b)
      BY <1>5, <2>1, TrainWorldModelIs, ExportOnnxIs, IdleIs DEF GoesTo, Ends, Owns, None
    <3>2. n \in Names /\ SameFiles(n) /\ OwnerSound(x)
      BY <1>2, <1>4, <1>5, <2>1, <3>1 DEF Unshared
    <3> QED
      BY <1>1, <1>5, <2>1, <3>2 DEF OwnerSound, SameFiles, Whole
  <2>2. CASE Begin(b) /\ y.pc = "train"
    BY <2>2, BeginIs DEF OwnerSound, GoesTo
  <2>3. CASE StillOwns(b)
    <3>1. Owns(x) /\ y.name = n /\ y.gen = x.gen /\ OwnerSound(x)
      BY <1>2, <2>3 DEF StillOwns, Unshared
    <3>2. n \in hist'.trained
      BY <1>1, <3>1 DEF OwnerSound
    <3>3. CASE TrainWorldModel(b) /\ y.pc = "export"
      BY <3>1, <3>2, <3>3, TrainWorldModelIs, IdleIs DEF OwnerSound, GoesTo, Ends
    <3>4. CASE ExportOnnx(b) /\ y.pc = "ablate"
      <4>1. Whole(run'[n], x.gen)
        BY <3>1, <3>4, ExportOnnxIs, IdleIs DEF OwnerSound, GoesTo, Ends
      <4> QED
        BY <3>1, <3>2, <3>4, <4>1 DEF OwnerSound
    <3>5. CASE RunGateAblation(b) /\ y.pc = "new_deploy"
      <4>1. /\ op[b].pc = "ablate" /\ hist'.passed = hist.passed \cup {x.gen} /\ SameFiles(n)
        BY <3>5, RunGateAblationIs, IdleIs, CommandIs DEF GoesTo, Ends
      <4>2. Whole(run'[n], x.gen)
        BY <3>1, <4>1 DEF OwnerSound, SameFiles, Whole
      <4> QED
        BY <3>1, <3>2, <3>5, <4>1, <4>2 DEF OwnerSound
    <3>6. CASE x.pc \in {"new_deploy", "require", "mkdir"} /\ y.pc \in {"require", "mkdir", "upload"}
      <4>1. ~TrainWorldModel(b) /\ ~ExportOnnx(b)
        BY <3>6 DEF TrainWorldModel, ExportOnnx
      <4>2. SameFiles(n)
        BY <1>4, <3>1, <4>1
      <4>3. Whole(run'[n], x.gen) /\ x.gen \in hist'.passed
        BY <1>1, <3>1, <3>6, <4>2 DEF OwnerSound, SameFiles, Whole
      <4> QED
        BY <3>1, <3>2, <3>6, <4>3 DEF OwnerSound
    <3>7. CASE y = x
      BY <2>1, <3>7
    <3>8. CASE Begin(b)
      BY <3>1, <3>8 DEF Begin, Owns
    <3> QED
      BY <1>5, <3>3, <3>4, <3>5, <3>6, <3>7, <3>8, OwnerSteps
  <2> QED
    BY <1>5, <2>1, <2>2, <2>3, OwnerSteps
<1>6. ASSUME NEW a \in Clients, NEW b \in Clients, Owns(op'[a]), Owns(op'[b]),
             op'[a].name = op'[b].name
      PROVE  a = b
  <2>1. ASSUME NEW e \in Clients, NEW f \in Clients, e # f, Owns(op'[f]),
               Begin(e), op'[e].name = op'[f].name
        PROVE  FALSE
    <3>1. op'[f] = op[f] /\ op'[e].name = op[e].name
      BY <2>1, BeginIs DEF GoesTo, OnlyActs
    <3> QED
      BY <1>3, <2>1, <3>1
  <2>2. CASE ~Begin(a) /\ ~Begin(b)
    <3>1. Owns(op[a]) /\ op'[a].name = op[a].name /\ Owns(op[b]) /\ op'[b].name = op[b].name
      BY <1>6, <2>2, OwnerSteps DEF StillOwns
    <3> QED
      BY <1>2, <1>6, <3>1 DEF Unshared
  <2> QED
    BY <1>6, <2>1, <2>2
\* What train-deploy-model has released stays what it was.
<1>7. ASSUME NEW o \in hist'.own, pkg'[o[1]].onnx # 0
      PROVE  Whole(pkg'[o[1]], o[2]) /\ o[2] \in hist'.passed
  <2> DEFINE d == o[1]
  <2>1. hist' \in History /\ d \in Deploys
    BY <1>2, <1>7 DEF TypeOK, History, Deploys
  <2>2. CASE o \notin hist.own
    <3>1. PICK c \in Clients : DeployTrained(c)
      BY <1>1, <1>7, <2>2
    <3>2. d = count.deploy + 1 /\ pkg' = pkg
      BY <1>7, <2>2, <3>1, DeployTrainedIs
    <3>3. d > count.deploy
      BY <1>2, <3>2, ReleaseConstants DEF TypeOK
    <3>4. pkg[d] = NoPackage
      BY <1>2, <2>1, <3>3 DEF PackageInv
    <3> QED
      BY <1>7, <3>2, <3>4, BlankIs
  <2>3. CASE o \in hist.own
    <3>1. pkg[d].onnx # 0 => Whole(pkg[d], o[2]) /\ o[2] \in hist'.passed
      BY <1>1, <1>2, <2>3 DEF Unshared
    <3>2. CASE pkg'[d].pt = pkg[d].pt /\ pkg'[d].onnx = pkg[d].onnx /\ pkg'[d].meta = pkg[d].meta
      BY <1>7, <3>1, <3>2 DEF Whole
    <3>3. ASSUME NEW c \in Clients, Filled(c)
          PROVE  Whole(pkg'[d], o[2]) /\ o[2] \in hist'.passed
      <4>1. CASE d # op[c].d
        BY <2>1, <3>2, <3>3, <4>1 DEF Filled, OnlyPackage
      <4>2. CASE d = op[c].d
        <5>1. op[c].gen = o[2] /\ op[c].cmd = "train_deploy"
          BY <2>3, <4>2 DEF OwnNumbers, NumbersKept
        <5>2. Owns(op[c]) /\ op[c].pc = "upload"
          BY <3>3, <5>1 DEF Filled, Owns
        <5>3. Whole(run[op[c].name], o[2]) /\ o[2] \in hist.passed
          BY <1>2, <5>1, <5>2 DEF Unshared, OwnerSound
        <5> QED
          BY <1>1, <3>3, <4>2, <5>3 DEF Filled, Whole
      <4> QED
        BY <4>1, <4>2
    <3>4. ASSUME NEW c \in Clients, Staged(c)
          PROVE  Whole(pkg'[d], o[2]) /\ o[2] \in hist'.passed
      <4>1. d # op[c].d
        <5>1. pkg[op[c].d] = NoPackage
          BY <1>2, <3>4 DEF Staged, PackageInv
        <5>2. pkg'[op[c].d].onnx = 0
          BY <3>4, <5>1, BlankIs DEF Staged, StageMade, Package
        <5> QED
          BY <1>7, <5>2
      <4> QED
        BY <2>1, <3>2, <3>4, <4>1 DEF Staged, StageMade
    <3>5. ASSUME NEW c \in Clients, Emptied(c) \/ Removed(c)
          PROVE  Whole(pkg'[d], o[2]) /\ o[2] \in hist'.passed
      <4>1. d # op[c].d
        BY <1>7, <3>5, BlankIs DEF Emptied, Removed
      <4> QED
        BY <2>1, <3>2, <3>5, <4>1 DEF Emptied, Removed, OnlyPackage
    <3>6. ASSUME NEW x \in Clients \cup {"orphan"}, Moved(x)
          PROVE  Whole(pkg'[d], o[2]) /\ o[2] \in hist'.passed
      BY <2>1, <3>2, <3>6 DEF Moved, OnlyPackage
    <3>7. CASE pkg' = pkg \/ NotesOnly
      BY <2>1, <3>2, <3>7 DEF NotesOnly
    <3> QED
      BY <1>2, <3>3, <3>4, <3>5, <3>6, <3>7 DEF PackageStep
  <2> QED
    BY <2>2, <2>3
<1>8. \A b \in Clients : OwnerSound(op[b])'
  BY <1>5 DEF OwnerSound, Owns
<1> QED
  BY <1>6, <1>7, <1>8 DEF Unshared, Owns, Whole

-----------------------------------------------------------------------------
(* The theorems.                                                           *)

LEMMA InitRelease == Init => ReleaseInv
<1> SUFFICES ASSUME Init PROVE ReleaseInv
  OBVIOUS
<1>1. StructureInv
  BY InitStructure
<1>2. /\ \A c \in Clients : op[c] = Idle /\ sh[c] = NoScript
      /\ orphan = NoScript /\ \A d \in Deploys : pkg[d] = NoPackage
      /\ hist.own = {} /\ hist.bench = {}
      /\ pointer.current = None /\ pointer.onnx = None /\ pointer.manifest = None
  BY DEF Init
<1>3. Uncut
  BY <1>2, BlankIs, IdleIs DEF Uncut, Placed, StageOwned, ReleaseWhole, None
<1>4. PointerInv
  BY <1>2, NoLinks DEF PointerInv
<1>5. Unraced
  BY <1>2, BlankIs, IdleIs DEF Unraced, Activating, Benched, AllName, None
<1>6. OwnNumbers /\ Unshared
  BY <1>2, IdleIs DEF OwnNumbers, Unshared, OwnerSound, Owns
<1> QED
  BY <1>1, <1>3, <1>4, <1>5, <1>6 DEF ReleaseInv, UncutInv, RaceInv, OwnInv

LEMMA NextStructure ==
  ASSUME StructureInv, [Next]_vars
  PROVE  StructureInv'
BY NextTypes, NextCommands, NextScripts, NextOrphan, NextPackages, NextOneRelease
   DEF StructureInv

LEMMA NextRelease ==
  ASSUME ReleaseInv, [Next]_vars
  PROVE  ReleaseInv'
<1>1. StructureInv /\ StructureInv'
  BY NextStructure DEF ReleaseInv
<1> QED
  BY <1>1, NextUncut, NextPointers, NextRace, NextNumbers, NextOwn DEF ReleaseInv

\* The inductive invariant holds of the training and release commands of model/pipeline.py,
\* model/release.py and nk_cli.py, in whatever order their steps and remote scripts come.
THEOREM ReleaseInvariant == Spec => []ReleaseInv
BY InitRelease, NextRelease, PTL DEF Spec

\* What train-deploy-model has released is what it has trained, whole, and has passed
\* (model/release.py train_deploy_model), for every state of the invariant.
THEOREM OwnTraining == Spec => []OwnTrainingUnlessShared
<1>1. ASSUME ReleaseInv PROVE OwnTrainingUnlessShared
  <2>1. hist.shared \/ Unshared
    BY <1>1 DEF ReleaseInv, OwnInv
  <2> QED
    BY <2>1 DEF OwnTrainingUnlessShared, Unshared, Whole
<1> QED
  BY <1>1, ReleaseInvariant, PTL

\* The links and current.json lead to a whole release, unless a connection was lost
\* (model/release.py activate_model_release).
THEOREM PointersResolve == Spec => []PointersResolveUnlessLost
<1>1. ASSUME ReleaseInv PROVE PointersResolveUnlessLost
  <2>1. SUFFICES ASSUME count.lost = 0,
                        NEW n \in {pointer.current, pointer.onnx, pointer.manifest} \ {None}
                 PROVE  /\ Released(n) # 0
                        /\ pkg[Released(n)].onnx # 0 /\ pkg[Released(n)].meta # 0
    BY DEF PointersResolveUnlessLost
  <2>2. IsReleased(n) /\ Uncut
    BY <1>1, <2>1 DEF ReleaseInv, PointerInv, UncutInv
  <2>3. Released(n) # 0 /\ Released(n) \in Deploys /\ pkg[Released(n)].at = "release"
    BY <2>2, ReleasedIs
  <2> QED
    BY <2>2, <2>3 DEF Uncut, ReleaseWhole
<1> QED
  BY <1>1, ReleaseInvariant, PTL

\* The pointers name one release when nobody is activating, and a benchmark copies one
\* release, unless activations overlapped or one was cut (_activate_remote_release and
\* nk_cli.py _run_benchmark_current_action).
THEOREM OneReleaseIsCurrent == Spec => []OneReleaseIsCurrentUnlessRaced
<1>1. ASSUME ReleaseInv PROVE OneReleaseIsCurrentUnlessRaced
  BY <1>1 DEF ReleaseInv, RaceInv, Unraced, AllName, OneReleaseIsCurrentUnlessRaced
<1> QED
  BY <1>1, ReleaseInvariant, PTL

\* A deployment that fails leaves no stage behind, unless its connection was lost or its
\* client killed (model/release.py deploy_training_run).
THEOREM StagesAreCleaned == Spec => []StagesAreCleanedUnlessLost
<1>1. ASSUME ReleaseInv PROVE StagesAreCleanedUnlessLost
  BY <1>1 DEF ReleaseInv, UncutInv, Uncut, StageOwned, StagesAreCleanedUnlessLost
<1> QED
  BY <1>1, ReleaseInvariant, PTL

\* A release stays where it is, however many deployments found its name free; and its files
\* stay, unless a connection was lost (_remote_assert_release_absent and the install script
\* of deploy_training_run).
THEOREM ReleasesStand == Spec => ReleaseStands
<1> DEFINE Stands == \A n \in Names : LET d == Released(n) IN
              d # 0 => /\ pkg'[d].at = "release"
                       /\ count'.lost = 0 => <<pkg'[d].pt, pkg'[d].onnx, pkg'[d].meta>>
                                               = <<pkg[d].pt, pkg[d].onnx, pkg[d].meta>>
<1>1. ASSUME ReleaseInv, [Next]_vars PROVE [Stands]_pkg
  <2>1. SUFFICES ASSUME NEW n \in Names, Released(n) # 0
                 PROVE  LET d == Released(n) IN
                        /\ pkg'[d].at = "release"
                        /\ count'.lost = 0 => <<pkg'[d].pt, pkg'[d].onnx, pkg'[d].meta>>
                                                = <<pkg[d].pt, pkg[d].onnx, pkg[d].meta>>
    BY Zenon
  <2> DEFINE d == Released(n)
  <2>2. d \in Deploys /\ pkg[d].at = "release"
    BY <2>1, ReleasedIs
  <2>3. StructureInv /\ PackageStep /\ PackageInv
    BY <1>1, PackageSteps DEF ReleaseInv, StructureInv
  <2> HIDE DEF d
  <2>4. pkg'[d].at = "release"
    BY <2>2, <2>3, ReleasesStay
  <2>5. ASSUME count'.lost = 0
        PROVE  pkg'[d].pt = pkg[d].pt /\ pkg'[d].onnx = pkg[d].onnx /\ pkg'[d].meta = pkg[d].meta
    <3>1. Uncut
      BY <1>1, <2>3, <2>5, LostSteps DEF ReleaseInv, UncutInv
    <3>2. ASSUME NEW c \in Clients, Staged(c) \/ Filled(c)
          PROVE  d # op[c].d
      <4>1. CASE Staged(c)
        BY <2>2, <2>3, <4>1, BlankIs DEF Staged, PackageInv, None
      <4>2. CASE Filled(c)
        <5>1. pkg[op[c].d] = [NoPackage EXCEPT !.name = op[c].name, !.at = "stage"]
          BY <2>3, <4>2 DEF Filled, PackageInv
        <5>2. pkg[op[c].d].at = "stage"
          BY <5>1, BlankIs DEF Package
        <5> QED
          BY <2>2, <5>2
      <4> QED
        BY <3>2, <4>1, <4>2
    <3>3. ASSUME NEW c \in Clients, Emptied(c) \/ Removed(c)
          PROVE  d # op[c].d
      BY <2>2, <3>1, <3>3 DEF Emptied, Removed, Uncut, Placed
    <3>4. ASSUME NEW x \in Clients \cup {"orphan"}, Moved(x)
          PROVE  d # Script(x).d
      BY <2>2, <3>4 DEF Moved
    <3> QED
      BY <2>2, <2>3, <3>2, <3>3, <3>4
         DEF PackageStep, NotesOnly, Staged, StageMade, Filled, Emptied, Removed, Moved,
             OnlyPackage
  <2> QED
    BY <2>4, <2>5 DEF d
<1>2. ReleaseStands <=> [][Stands]_pkg
  BY DEF ReleaseStands
<1> HIDE DEF Stands
<1> QED
  BY <1>1, <1>2, ReleaseInvariant, PTL DEF Spec
=============================================================================
