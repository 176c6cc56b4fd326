------------------------------ MODULE PackerBuild ------------------------------
(* One PackerBuild object (packer_build_controller.rs), its workspace and the    *)
(* images packer has registered. A reconcile works from a copy of the object     *)
(* and stamps the copy's generation as observed; a user edits the spec while     *)
(* it runs, and the pod may die with or without its workspace. An image is its   *)
(* place in the sequence of images, and records which generation its template    *)
(* and its variables came from.                                                  *)
EXTENDS Naturals, Sequences

CONSTANTS
  MaxGen,      \* bound: generations of the spec
  MaxImages,   \* bound: images in the account
  MaxFaults    \* bound: deaths, failed calls and failed applies in all

VARIABLES
  build,    \* the object; generation 0: there is none
  disk,     \* the workspace: generation of template.pkr.json, image in the manifest
  images,   \* the images, the first one being in use before any pipeline
  copy,     \* the copy of the reconcile in progress
  faults    \* faults so far

buildVars == <<build, disk, images, copy, faults>>

NoImage == 0
NoBuild == [gen |-> 0, phase |-> "Pending", obs |-> 0, ami |-> NoImage]
Empty   == [tpl |-> 0, img |-> NoImage]
Image(tpl, vars) == [tpl |-> tpl, vars |-> vars]

Phases == {"Pending", "Compiling", "Validating", "Building", "Extracting", "Ready", "Failed"}

Init ==
  /\ build = NoBuild
  /\ disk = Empty
  /\ images = <<Image(0, 0)>>
  /\ copy = NoBuild
  /\ faults = 0

(* The user changes the spec. *)
Edit ==
  /\ build.gen \in 1 .. MaxGen - 1
  /\ build' = [build EXCEPT !.gen = @ + 1]
  /\ UNCHANGED <<disk, images, copy, faults>>

\* Mutant: a spec edit is looked for only once the build is over.
ChangedWhenDone(b) == b.gen # b.obs /\ b.obs > 0 /\ b.phase \in {"Ready", "Failed"}

(* The spec was edited since the last status write. *)
Changed(b) == b.gen # b.obs /\ b.obs > 0

(* A reconcile that will do something takes its copy. *)
Start ==
  /\ copy = NoBuild /\ build # NoBuild
  /\ Changed(build) \/ build.phase \notin {"Ready", "Failed"}
  /\ copy' = build
  /\ UNCHANGED <<build, disk, images, faults>>

(* update_phase, update_phase_with_error and update_status_with_ami. *)
Put(phase) == [build EXCEPT !.phase = phase, !.obs = copy.gen]
InPhase(phase) == copy # NoBuild /\ ~Changed(copy) /\ copy.phase = phase
Done == copy' = NoBuild

Restart ==
  /\ copy # NoBuild /\ Changed(copy)
  /\ build' = Put("Pending")
  /\ Done /\ UNCHANGED <<disk, images, faults>>

HandlePending ==
  /\ InPhase("Pending")
  /\ build' = Put("Compiling")
  /\ Done /\ UNCHANGED <<disk, images, faults>>

HandleCompiling ==
  /\ InPhase("Compiling")
  /\ disk' = [disk EXCEPT !.tpl = copy.gen]
  /\ build' = Put("Validating")
  /\ Done /\ UNCHANGED <<images, faults>>

HandleValidating ==
  /\ InPhase("Validating") /\ disk.tpl # 0
  /\ build' = Put("Building")
  /\ Done /\ UNCHANGED <<disk, images, faults>>

\* Mutant: the manifest's entry past the last one.
RunPackerPastEnd ==
  /\ InPhase("Building") /\ disk.tpl # 0 /\ Len(images) < MaxImages
  /\ images' = Append(images, Image(disk.tpl, copy.gen))
  /\ disk' = [disk EXCEPT !.img = Len(images') + 1]

(* packer build: the template on disk with the copy's variables. *)
RunPacker ==
  /\ InPhase("Building") /\ disk.tpl # 0 /\ Len(images) < MaxImages
  /\ images' = Append(images, Image(disk.tpl, copy.gen))
  /\ disk' = [disk EXCEPT !.img = Len(images')]

HandleBuilding ==
  /\ RunPacker
  /\ build' = Put("Extracting")
  /\ Done /\ UNCHANGED faults

\* The last build of the manifest is the image.
HandleExtracting ==
  /\ InPhase("Extracting") /\ disk.img # NoImage
  /\ build' = [Put("Ready") EXCEPT !.ami = disk.img]
  /\ Done /\ UNCHANGED <<disk, images, faults>>

(* An error of a phase handler, whatever its cause, also of the status write     *)
(* after packer's success; that of Restart is only returned. Nothing but an edit *)
(* of the spec leaves Failed.                                                    *)
Fail ==
  /\ copy # NoBuild /\ ~Changed(copy)
  /\ UNCHANGED <<disk, images>> \/ RunPacker
  /\ build' = Put("Failed")
  /\ Done /\ UNCHANGED faults

(* The pod dies, also between packer's success and the write of the phase; a     *)
(* pod that is replaced starts with an empty workspace.                          *)
Die ==
  /\ copy # NoBuild /\ faults < MaxFaults /\ faults' = faults + 1
  /\ \/ disk' \in {disk, Empty} /\ UNCHANGED images
     \/ RunPacker
  /\ Done /\ UNCHANGED build

Handle ==
  \/ Restart \/ HandlePending \/ HandleCompiling \/ HandleValidating
  \/ HandleBuilding \/ HandleExtracting \/ Fail

Next == Edit \/ Start \/ Handle \/ Die

Objects == [gen : 0 .. MaxGen, phase : Phases, obs : 0 .. MaxGen, ami : 0 .. Len(images)]

(* Phases, generations and images stay in range: the manifest and the status name  *)
(* images that exist (PackerBuildStatus, read_manifest).                         *)
TypeOK ==
  /\ build \in Objects /\ copy \in Objects
  /\ disk \in [tpl : 0 .. MaxGen, img : 0 .. Len(images)]
  /\ images \in Seq([tpl : 0 .. MaxGen, vars : 0 .. MaxGen])
  /\ faults \in 0 .. MaxFaults

(* The image a build that is Ready for its present spec names was made from      *)
(* that spec alone, its template and its variables: no edit made while the       *)
(* phases went on, no death and no rerun mixes two generations                   *)
(* (reconcile_packer_build, the observedGeneration of update_phase).             *)
AmiOfSpec ==
  build.phase = "Ready" /\ build.obs = build.gen =>
    images[build.ami] = Image(build.gen, build.gen)
================================================================================
