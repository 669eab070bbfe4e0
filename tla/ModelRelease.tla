--------------------------- MODULE ModelRelease ---------------------------
(***************************************************************************)
(* Training runs and model releases (model/pipeline.py, model/release.py,   *)
(* nk_cli.py).  Operators at their terminals train a model into a local run *)
(* directory, copy the directory over ssh to a versioned release directory  *)
(* of the edge machine, and point the machine's current model at a release. *)
(* Every remote shell script is a list of commands which other operators'   *)
(* commands may interleave with, and which goes on without its client when  *)
(* the connection is lost.                                                  *)
(***************************************************************************)
EXTENDS Naturals, Sequences, FiniteSets

CONSTANTS Clients,       \* terminals, each running one command at a time
          Names,         \* names of training runs, which are release names
          MaxTrainings,  \* bound: trainings started
          MaxDeploys,    \* bound: deployments started
          MaxExtras      \* bound: "nk use" and "nk bench-current" commands, connections
                         \* lost and clients killed, all together

ASSUME ReleaseConstants ==
    /\ IsFiniteSet(Clients) /\ IsFiniteSet(Names)
    /\ {MaxTrainings, MaxDeploys, MaxExtras} \subseteq Nat
    /\ "none" \notin Names /\ "orphan" \notin Clients  \* used for something else below

VARIABLES
    run,      \* run[n]: the local run directory of n
    pkg,      \* pkg[d]: the directory that deployment d made on the edge machine
    pointer,  \* what current.json and the two symbolic links name
    op,       \* op[c]: the command client c is running
    sh,       \* sh[c]: the remote script of client c
    orphan,   \* the remote script whose client is gone
    count,    \* how much of each bound is used
    hist      \* history, read by the properties only

vars == <<run, pkg, pointer, op, sh, orphan, count, hist>>

None == "none"
Deploys == 1 .. MaxDeploys

(***************************************************************************)
(* A run directory: the status in training_pipeline_manifest.json and, for  *)
(* each artifact, the training that wrote it (0: there is none).  "pt"      *)
(* stands for world_model.pt and train_result.json, "meta" for              *)
(* world_model.manifest.json and onnx_export.json, which are written one    *)
(* after the other.  "note" is model_release_manifest.json: the deployment  *)
(* that wrote it and the status it gives.                                   *)
(***************************************************************************)
NoNote == [by |-> 0, status |-> None]
EmptyRun == [status |-> None, pt |-> 0, onnx |-> 0, meta |-> 0, note |-> NoNote]
NoPackage == [name |-> None, at |-> None, pt |-> 0, onnx |-> 0, meta |-> 0, note |-> NoNote]
NoScript == [prog |-> <<>>, name |-> None, d |-> 0, result |-> None]
Idle == [pc |-> "idle", cmd |-> None, name |-> None, gen |-> 0, d |-> 0,
         overwrite |-> FALSE, activate |-> FALSE, saw |-> None]

\* Runs that were trained before the first step, which is a state the commands lead to.
Earlier == MaxTrainings + 1
TrainedRun == [EmptyRun EXCEPT !.status = "completed", !.pt = Earlier, !.onnx = Earlier,
                               !.meta = Earlier]

Init ==
    /\ \E trained \in SUBSET Names :
          /\ run = [n \in Names |-> IF n \in trained THEN TrainedRun ELSE EmptyRun]
    /\ pkg = [d \in Deploys |-> NoPackage]
    /\ pointer = [current |-> None, status |-> None, onnx |-> None, manifest |-> None]
    /\ op = [c \in Clients |-> Idle]
    /\ sh = [c \in Clients |-> NoScript]
    /\ orphan = NoScript
    /\ count = [training |-> 0, deploy |-> 0, extra |-> 0, lost |-> 0]
    /\ hist = [passed |-> {}, trained |-> {}, raced |-> FALSE, shared |-> FALSE,
               bench |-> {}, own |-> {}]

Goto(c, pc) == op' = [op EXCEPT ![c].pc = pc]
Stop(c) == op' = [op EXCEPT ![c] = Idle]
Bump(field) == count' = [count EXCEPT ![field] = @ + 1]

\* The release directory of n: the deployment whose package was moved there, 0 if none.
Released(n) ==
    LET at == {d \in Deploys : pkg[d].name = n /\ pkg[d].at = "release"}
    IN  IF at = {} THEN 0 ELSE CHOOSE d \in at : TRUE

(***************************************************************************)
(* run_training_pipeline.                                                   *)
(***************************************************************************)
\* A training with its number and options.
Start(c, n, cmd, pc) ==
    /\ op[c].pc = "idle"
    /\ count.training < MaxTrainings
    /\ \E overwrite, activate \in BOOLEAN :
         /\ cmd = "train" => ~activate
         /\ op' = [op EXCEPT ![c] = [Idle EXCEPT
                !.pc = pc, !.cmd = cmd, !.name = n, !.overwrite = overwrite,
                !.activate = activate, !.gen = count.training + 1]]
    /\ Bump("training")
    /\ UNCHANGED <<run, pkg, pointer, sh, orphan, hist>>

\* nk train stops after the training; train-deploy-model goes on with a deployment.
Train(c, n) == Start(c, n, "train", "prepare")
TrainDeploy(c, n) == Start(c, n, "train_deploy", "preflight")

\* _preflight_model_release: the local directory is free and no release has the name;
\* a dry run ends here.
Preflight(c) ==
    /\ op[c].pc = "preflight"
    /\ \/ /\ run[op[c].name].status = None \/ op[c].overwrite
          /\ Released(op[c].name) = 0
          /\ Goto(c, "prepare")
       \/ Stop(c)
    /\ UNCHANGED <<run, pkg, pointer, sh, orphan, count, hist>>

\* _prepare_run_dir: the check.  What an earlier training left stays where it is.
PrepareRunDir(c) ==
    /\ op[c].pc = "prepare"
    /\ IF run[op[c].name].status = None \/ op[c].overwrite
       THEN Goto(c, "begin")
       ELSE Stop(c)
    /\ UNCHANGED <<run, pkg, pointer, sh, orphan, count, hist>>

Training(c) == op[c].pc \in {"begin", "train", "export", "ablate"}

\* The first write of the status file.  (The history notes a directory that is trained
\* into for a second time, or while somebody deploys it.)
Begin(c) ==
    LET n == op[c].name IN
    /\ op[c].pc = "begin"
    /\ run' = [run EXCEPT ![n].status = "running"]
    /\ hist' = [hist EXCEPT !.trained = @ \cup {n},
                            !.shared = @ \/ n \in hist.trained]
    /\ Goto(c, "train")
    /\ UNCHANGED <<pkg, pointer, sh, orphan, count>>

\* The except branch: the status becomes failed and the exception ends the command, so
\* that train_deploy_model deploys nothing.  The artifacts stay.
FailRun(c) ==
    /\ run' = [run EXCEPT ![op[c].name].status = "failed"]
    /\ Stop(c)
    /\ UNCHANGED <<pkg, pointer, sh, orphan, count, hist>>

\* The steps validate_features, check_dataset_gates and train_world_model, which saves
\* the checkpoint, and train_result.json.
TrainWorldModel(c) ==
    /\ op[c].pc = "train"
    /\ \/ /\ run' = [run EXCEPT ![op[c].name].pt = op[c].gen]
          /\ Goto(c, "export")
          /\ UNCHANGED <<pkg, pointer, sh, orphan, count, hist>>
       \/ FailRun(c)

\* The two evaluations and export_world_model_onnx: the file is written before it is
\* verified, its manifest after.
ExportOnnx(c) ==
    LET n == op[c].name IN
    /\ op[c].pc = "export"
    /\ \/ /\ run' = [run EXCEPT ![n].onnx = run[n].pt, ![n].meta = run[n].pt]
          /\ Goto(c, "ablate")
       \/ /\ run' = [run EXCEPT ![n].onnx = run[n].pt, ![n].status = "failed"]
          /\ Stop(c)
       \/ /\ run' = [run EXCEPT ![n].status = "failed"]
          /\ Stop(c)
    /\ UNCHANGED <<pkg, pointer, sh, orphan, count, hist>>

\* Mutant: a model that is not promoted fails the run and is deployed nevertheless.
RunGateAblationLax(c) ==
    LET n == op[c].name IN
    /\ op[c].pc = "ablate"
    /\ \/ /\ run' = [run EXCEPT ![n].status = "completed"]
          /\ hist' = [hist EXCEPT !.passed = @ \cup {op[c].gen}]
       \/ /\ run' = [run EXCEPT ![n].status = "failed"]
          /\ UNCHANGED hist
    /\ IF op[c].cmd = "train_deploy" THEN Goto(c, "new_deploy") ELSE Stop(c)
    /\ UNCHANGED <<pkg, pointer, sh, orphan, count>>

\* run_gate_ablation, unless it is skipped: the run completes when the model is promoted
\* or its failure allowed.  train_deploy_model goes on with the deployment.
RunGateAblation(c) ==
    LET n == op[c].name IN
    /\ op[c].pc = "ablate"
    /\ \/ /\ run' = [run EXCEPT ![n].status = "completed"]
          /\ hist' = [hist EXCEPT !.passed = @ \cup {op[c].gen}]
          /\ IF op[c].cmd = "train_deploy" THEN Goto(c, "new_deploy") ELSE Stop(c)
          /\ UNCHANGED <<pkg, pointer, sh, orphan, count>>
       \/ FailRun(c)

(***************************************************************************)
(* deploy_training_run.                                                     *)
(***************************************************************************)
\* nk deploy and nk deploy-use of an existing run directory.
StartDeploy(c, n) ==
    /\ op[c].pc = "idle"
    /\ run[n].status # None
    /\ count.deploy < MaxDeploys
    /\ \E activate \in BOOLEAN :
         op' = [op EXCEPT ![c] = [Idle EXCEPT !.pc = "require", !.cmd = "deploy", !.name = n,
                                              !.activate = activate, !.d = count.deploy + 1]]
    /\ Bump("deploy")
    /\ UNCHANGED <<run, pkg, pointer, sh, orphan, hist>>

\* train_deploy_model calls deploy_training_run with the run it has trained.
DeployTrained(c) ==
    /\ op[c].pc = "new_deploy"
    /\ count.deploy < MaxDeploys
    /\ op' = [op EXCEPT ![c].pc = "require", ![c].d = count.deploy + 1]
    /\ hist' = [hist EXCEPT !.own = @ \cup {<<count.deploy + 1, op[c].gen>>}]
    /\ Bump("deploy")
    /\ UNCHANGED <<run, pkg, pointer, sh, orphan>>

\* _require_release_artifacts asks whether the files exist, whatever the status says.
HasArtifacts(n) == run[n].pt # 0 /\ run[n].onnx # 0 /\ run[n].meta # 0

\* The release manifest "prepared" is written into the run directory, and
\* _remote_assert_release_absent asks for the name a first time.
RequireArtifacts(c) ==
    LET n == op[c].name IN
    /\ op[c].pc = "require"
    /\ run' = IF HasArtifacts(n)
              THEN [run EXCEPT ![n].note = [by |-> op[c].d, status |-> "prepared"]]
              ELSE run
    /\ IF HasArtifacts(n) /\ Released(n) = 0 THEN Goto(c, "mkdir") ELSE Stop(c)
    /\ UNCHANGED <<pkg, pointer, sh, orphan, count, hist>>

\* mkdir of the stage directory.  Its name has the time in it: another deployment's
\* stage is another directory.
MakeStage(c) ==
    LET d == op[c].d IN
    /\ op[c].pc = "mkdir"
    /\ pkg' = [pkg EXCEPT ![d].name = op[c].name, ![d].at = "stage"]
    /\ Goto(c, "upload")
    /\ UNCHANGED <<run, pointer, sh, orphan, count, hist>>

\* _package_run_dir: what the run directory holds now, the release manifest of another
\* deployment of it too.
Packed(d, n) == [pkg[d] EXCEPT !.pt = run[n].pt, !.onnx = run[n].onnx, !.meta = run[n].meta,
                               !.note = run[n].note]

\* scp of the package, after which the install script begins.
Upload(c) ==
    LET d == op[c].d
        n == op[c].name
    IN
    /\ op[c].pc = "upload"
    /\ \/ /\ pkg' = [pkg EXCEPT ![d] = Packed(d, n)]
          /\ hist' = [hist EXCEPT
                !.shared = @ \/ \E b \in Clients \ {c} : Training(b) /\ op[b].name = n]
          /\ sh' = [sh EXCEPT ![c] = [NoScript EXCEPT !.prog = <<"unpack", "absent", "mv">>,
                                                      !.name = n, !.d = d]]
          /\ Goto(c, "install")
          /\ UNCHANGED <<run, pointer, orphan, count>>
       \/ Goto(c, "cleanup") /\ UNCHANGED <<run, pkg, pointer, sh, orphan, count, hist>>

\* Mutant: a script that fails leaves the stage where it is.
InstalledUncleaned(c) ==
    /\ op[c].pc = "install"
    /\ sh[c].result # None
    /\ IF sh[c].result = "ok"
       THEN /\ run' = [run EXCEPT ![op[c].name].note = [by |-> op[c].d, status |-> "deployed"]]
            /\ Goto(c, "announce")
       ELSE Stop(c) /\ UNCHANGED run
    /\ sh' = [sh EXCEPT ![c] = NoScript]
    /\ UNCHANGED <<pkg, pointer, orphan, count, hist>>

\* The script has ended: the local release manifest says deployed, or the stage is
\* cleaned up.
Installed(c) ==
    /\ op[c].pc = "install"
    /\ sh[c].result # None
    /\ IF sh[c].result = "ok"
       THEN /\ run' = [run EXCEPT ![op[c].name].note = [by |-> op[c].d, status |-> "deployed"]]
            /\ Goto(c, "announce")
       ELSE Goto(c, "cleanup") /\ UNCHANGED run
    /\ sh' = [sh EXCEPT ![c] = NoScript]
    /\ UNCHANGED <<pkg, pointer, orphan, count, hist>>

\* _cleanup_remote_stage runs rm -rf, which opens the directory, removes what is in it,
\* wherever it is by then, and then the name of the stage.
Cleanup(c) ==
    /\ op[c].pc = "cleanup"
    /\ IF pkg[op[c].d].at = "stage" THEN Goto(c, "unlink") ELSE Stop(c)
    /\ UNCHANGED <<run, pkg, pointer, sh, orphan, count, hist>>

\* Mutant: the clean-up is given the release directory.
UnlinkRelease(c) ==
    LET d == IF Released(op[c].name) = 0 THEN op[c].d ELSE Released(op[c].name) IN
    /\ op[c].pc = "unlink"
    /\ pkg' = [pkg EXCEPT ![d] = [NoPackage EXCEPT !.name = pkg[d].name, !.at = pkg[d].at]]
    /\ Goto(c, "rmdir")
    /\ UNCHANGED <<run, pointer, sh, orphan, count, hist>>

Unlink(c) ==
    /\ op[c].pc = "unlink"
    /\ pkg' = [pkg EXCEPT ![op[c].d] = [NoPackage EXCEPT !.name = pkg[op[c].d].name,
                                                         !.at = pkg[op[c].d].at]]
    /\ Goto(c, "rmdir")
    /\ UNCHANGED <<run, pointer, sh, orphan, count, hist>>

RemoveStage(c) ==
    /\ op[c].pc = "rmdir"
    /\ pkg' = IF pkg[op[c].d].at = "stage" THEN [pkg EXCEPT ![op[c].d] = NoPackage] ELSE pkg
    /\ Stop(c)
    /\ UNCHANGED <<run, pointer, sh, orphan, count, hist>>

\* Mutant: the second link is forgotten.
ActivationScriptShort == <<"current", "onnx">>
ActivationScript == <<"current", "onnx", "manifest">>
Activating == {x \in Clients : sh[x].prog # <<>> /\ op[x].pc = "activate"}

\* _activate_remote_release begins: while another activation runs, the history says so.
BeginActivation(c, n) ==
    /\ sh' = [sh EXCEPT ![c] = [NoScript EXCEPT !.prog = ActivationScript, !.name = n]]
    /\ hist' = [hist EXCEPT !.raced = @ \/ Activating # {} \/ orphan.prog # <<>>
                                      \/ \E b \in Clients : op[b].cmd = "bench"]
    /\ Goto(c, "activate")

\* scp of the local release manifest over the one in the release directory, by name;
\* without activation the command is done.
Announce(c) ==
    LET n == op[c].name IN
    /\ op[c].pc = "announce"
    /\ pkg' = [pkg EXCEPT ![Released(n)].note = run[n].note]
    /\ IF op[c].activate
       THEN BeginActivation(c, n)
       ELSE Stop(c) /\ UNCHANGED <<sh, hist>>
    /\ UNCHANGED <<run, pointer, orphan, count>>

\* The activation script has ended and the command with it.
Activated(c) ==
    /\ op[c].pc = "activate"
    /\ sh[c].result # None
    /\ sh' = [sh EXCEPT ![c] = NoScript]
    /\ Stop(c)
    /\ UNCHANGED <<run, pkg, pointer, orphan, count, hist>>

(***************************************************************************)
(* nk use and nk bench-current.                                             *)
(***************************************************************************)
\* activate_model_release: the three files must be there.
Use(c, n) ==
    LET d == Released(n) IN
    /\ op[c].pc = "idle"
    /\ count.extra + count.lost < MaxExtras
    /\ Bump("extra")
    /\ op' = IF d # 0 /\ pkg[d].onnx # 0 /\ pkg[d].meta # 0 /\ pkg[d].note # NoNote
             THEN [op EXCEPT ![c] = [Idle EXCEPT !.pc = "use", !.cmd = "use", !.name = n]]
             ELSE op
    /\ UNCHANGED <<run, pkg, pointer, sh, orphan, hist>>

UseActivates(c) ==
    /\ op[c].pc = "use"
    /\ BeginActivation(c, op[c].name)
    /\ UNCHANGED <<run, pkg, pointer, orphan, count>>

\* current_model_release: the name in current.json, an error when there is none.
CurrentRelease == pointer.current

\* _run_benchmark_current_action reads the name ...
BenchCurrent(c) ==
    /\ op[c].pc = "idle"
    /\ count.extra + count.lost < MaxExtras
    /\ CurrentRelease # None
    /\ Bump("extra")
    /\ op' = [op EXCEPT ![c] = [Idle EXCEPT !.pc = "bench", !.cmd = "bench",
                                            !.name = CurrentRelease]]
    /\ hist' = [hist EXCEPT !.raced = @ \/ Activating # {} \/ orphan.prog # <<>>]
    /\ UNCHANGED <<run, pkg, pointer, sh, orphan>>

\* ... and copies the model that the links lead to, one after the other.
CopyModel(c) ==
    /\ op[c].pc = "bench"
    /\ pointer.onnx # None
    /\ op' = [op EXCEPT ![c].pc = "bench_meta", ![c].saw = pointer.onnx]
    /\ UNCHANGED <<run, pkg, pointer, sh, orphan, count, hist>>

CopyManifest(c) ==
    /\ op[c].pc = "bench_meta"
    /\ pointer.manifest # None
    /\ hist' = [hist EXCEPT !.bench = @ \cup {<<op[c].name, op[c].saw, pointer.manifest>>}]
    /\ Stop(c)
    /\ UNCHANGED <<run, pkg, pointer, sh, orphan, count>>

(***************************************************************************)
(* The remote scripts, one command at a time (set -e: the first that fails  *)
(* ends the script).  x is a client's script or the orphan.                 *)
(***************************************************************************)
Script(x) == IF x = "orphan" THEN orphan ELSE sh[x]
Put(x, s) == IF x = "orphan" THEN orphan' = s /\ UNCHANGED sh
                             ELSE sh' = [sh EXCEPT ![x] = s] /\ UNCHANGED orphan
Running(x, command) == Script(x).prog # <<>> /\ Head(Script(x).prog) = command
Advance(x) == Put(x, [Script(x) EXCEPT !.prog = Tail(@),
                                      !.result = IF Len(Script(x).prog) = 1 THEN "ok" ELSE None])
Abort(x) == Put(x, [Script(x) EXCEPT !.prog = <<>>, !.result = "failed"])

\* tar, and the tests for the three files.
Unpack(x) ==
    LET d == Script(x).d IN
    /\ Running(x, "unpack")
    /\ IF pkg[d].at = "stage" /\ pkg[d].onnx # 0 /\ pkg[d].meta # 0 /\ pkg[d].note # NoNote
       THEN Advance(x) ELSE Abort(x)
    /\ UNCHANGED <<run, pkg, pointer, op, count, hist>>

\* The second check that nobody has released the name.
CheckAbsent(x) ==
    /\ Running(x, "absent")
    /\ IF Released(Script(x).name) = 0 THEN Advance(x) ELSE Abort(x)
    /\ UNCHANGED <<run, pkg, pointer, op, count, hist>>

\* Mutant: mv -T over the release that is there.
MoveStageOver(x) ==
    LET d == Script(x).d
        old == Released(Script(x).name)
    IN
    /\ Running(x, "mv")
    /\ IF pkg[d].at = "stage"
       THEN /\ pkg' = [e \in Deploys |-> IF e = d THEN [pkg[d] EXCEPT !.at = "release"]
                                        ELSE IF e = old THEN NoPackage ELSE pkg[e]]
            /\ Advance(x)
       ELSE Abort(x) /\ UNCHANGED pkg
    /\ UNCHANGED <<run, pointer, op, count, hist>>

\* mv: into the release directory when there is one by now.
MoveStage(x) ==
    LET d == Script(x).d IN
    /\ Running(x, "mv")
    /\ IF pkg[d].at = "stage"
       THEN /\ pkg' = [pkg EXCEPT ![d].at = IF Released(Script(x).name) = 0 THEN "release"
                                                                          ELSE "nested"]
            /\ Advance(x)
       ELSE Abort(x) /\ UNCHANGED pkg
    /\ UNCHANGED <<run, pointer, op, count, hist>>

\* cp of the release manifest, then the two links.
CopyCurrent(x) ==
    LET n == Script(x).name IN
    /\ Running(x, "current")
    /\ IF Released(n) # 0 /\ pkg[Released(n)].note # NoNote
       THEN /\ pointer' = [pointer EXCEPT !.current = n, !.status = pkg[Released(n)].note.status]
            /\ Advance(x)
       ELSE Abort(x) /\ UNCHANGED pointer
    /\ UNCHANGED <<run, pkg, op, count, hist>>

\* Mutant: ln -s without -f keeps the link that is there.
LinkIfFree(x, which) ==
    /\ Running(x, which)
    /\ pointer' = [pointer EXCEPT ![which] = IF @ = None THEN Script(x).name ELSE @]
    /\ Advance(x)
    /\ UNCHANGED <<run, pkg, op, count, hist>>

Link(x, which) ==
    /\ Running(x, which)
    /\ pointer' = [pointer EXCEPT ![which] = Script(x).name]
    /\ Advance(x)
    /\ UNCHANGED <<run, pkg, op, count, hist>>

RemoteStep(x) ==
    \/ Unpack(x) \/ CheckAbsent(x) \/ MoveStage(x)
    \/ CopyCurrent(x) \/ Link(x, "onnx") \/ Link(x, "manifest")

(***************************************************************************)
(* Lost connections and killed clients.  A script goes on without them.     *)
(***************************************************************************)
\* The remote script of c is nobody's from now on.
Detach(c) ==
    /\ count.extra + count.lost < MaxExtras
    /\ orphan.prog = <<>>
    /\ Bump("lost")
    /\ orphan' = sh[c]
    /\ sh' = [sh EXCEPT ![c] = NoScript]

\* ssh gives up: the client takes the script for failed, and removes the stage it made.
\* A stage whose mkdir was answered by nobody is not known to the client.
LoseConnection(c) ==
    /\ op[c].pc \in {"mkdir", "install", "cleanup", "announce", "activate"}
    /\ Detach(c)
    /\ IF op[c].pc = "install" THEN Goto(c, "cleanup") ELSE Stop(c)
    /\ \/ UNCHANGED pkg
       \/ /\ op[c].pc = "mkdir"
          /\ pkg' = [pkg EXCEPT ![op[c].d].name = op[c].name, ![op[c].d].at = "stage"]
       \/ /\ op[c].pc = "announce"
          /\ pkg' = [pkg EXCEPT ![Released(op[c].name)].note = run[op[c].name].note]
    /\ UNCHANGED <<run, pointer, hist>>

\* Ctrl-C or the end of the machine: no except branch runs.
Killed(c) ==
    /\ op[c].pc # "idle"
    /\ Detach(c)
    /\ Stop(c)
    /\ UNCHANGED <<run, pkg, pointer, hist>>

\* The machine behind a script whose client is gone may end it too.
OrphanEnds ==
    /\ orphan.prog # <<>>
    /\ orphan' = NoScript
    /\ UNCHANGED <<run, pkg, pointer, op, sh, count, hist>>

ClientStep(c) ==
    \/ \E n \in Names : Train(c, n) \/ TrainDeploy(c, n) \/ StartDeploy(c, n) \/ Use(c, n)
    \/ Preflight(c) \/ PrepareRunDir(c) \/ Begin(c)
    \/ TrainWorldModel(c) \/ ExportOnnx(c) \/ RunGateAblation(c)
    \/ DeployTrained(c) \/ RequireArtifacts(c) \/ MakeStage(c)
    \/ Upload(c) \/ Installed(c) \/ Cleanup(c) \/ Unlink(c) \/ RemoveStage(c)
    \/ Announce(c) \/ Activated(c)
    \/ UseActivates(c) \/ BenchCurrent(c) \/ CopyModel(c) \/ CopyManifest(c)

Next ==
    \/ \E c \in Clients : ClientStep(c) \/ LoseConnection(c) \/ Killed(c)
    \/ \E x \in Clients \cup {"orphan"} : RemoteStep(x)
    \/ OrphanEnds

Spec == Init /\ [][Next]_vars

(***************************************************************************)
(* Properties.                                                              *)
(***************************************************************************)
\* train-deploy-model releases the model it has trained, whole, and only after its
\* training has passed the gates and the ablation (or was excused from them), unless
\* somebody trains into the same run directory (model/release.py train_deploy_model).
OwnTrainingUnlessShared ==
    hist.shared \/ \A o \in hist.own :
        pkg[o[1]].onnx # 0 => /\ {pkg[o[1]].pt, pkg[o[1]].onnx, pkg[o[1]].meta} = {o[2]}
                              /\ o[2] \in hist.passed

\* A release is never replaced, not by a deployment that found the name free a moment
\* ago either; and its files stay unless a connection was lost, whose cleanup may meet
\* the script it takes for failed (docs/10_training_pipeline.md: existing models are not
\* overwritten).
ReleaseStands ==
    [][\A n \in Names : LET d == Released(n) IN
        d # 0 => /\ pkg'[d].at = "release"
                 /\ count'.lost = 0 => <<pkg'[d].pt, pkg'[d].onnx, pkg'[d].meta>>
                                         = <<pkg[d].pt, pkg[d].onnx, pkg[d].meta>>]_pkg

\* What the current model's links lead to is a whole release, at every moment, unless a
\* connection was lost (model/release.py activate_model_release).
PointersResolveUnlessLost ==
    count.lost = 0 => \A n \in {pointer.current, pointer.onnx, pointer.manifest} \ {None} :
        /\ Released(n) # 0
        /\ pkg[Released(n)].onnx # 0 /\ pkg[Released(n)].meta # 0

\* Unless two activations overlapped or one was cut (_activate_remote_release), the
\* links and current.json name one release whenever no activation is under way, and the
\* model and manifest that bench-current copies are those of the release under whose name
\* it records the result (nk_cli.py _run_benchmark_current_action).
OneReleaseIsCurrentUnlessRaced ==
    (~hist.raced /\ count.lost = 0) =>
        /\ Activating = {} =>
             pointer.current = pointer.onnx /\ pointer.onnx = pointer.manifest
        /\ \A b \in hist.bench : b[1] = b[2] /\ b[2] = b[3]

\* A stage directory belongs to a deployment that is still running, whatever failed
\* earlier, unless a connection was lost or a client killed (deploy_training_run).
StagesAreCleanedUnlessLost ==
    count.lost = 0 => \A d \in Deploys :
        pkg[d].at = "stage" => \E c \in Clients : op[c].d = d
=============================================================================
