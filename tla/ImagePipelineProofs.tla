-------------------------- MODULE ImagePipelineProofs --------------------------
(* Proofs about ImagePipeline, and about the PackerBuild and the AmiTest in it,   *)
(* for any suites, dependencies, deploy specs and bounds.                         *)
EXTENDS ImagePipeline, SequenceTheorems, TLAPS

--------------------------------------------------------------------------------
(* The PackerBuild. AmiOfSpec is not inductive: what a Ready build names was      *)
(* decided phases earlier, when the template was written and when packer ran, by  *)
(* copies of the object that must have been of one generation.                    *)

Made(n) == Build!Image(n, n)

BuildInv ==
  /\ Build!TypeOK
  /\ Len(images) \in 1 .. MaxImages /\ images[1] = Made(0)
  /\ build.obs <= build.gen
  /\ build.gen = 0 => build = Build!NoBuild
  /\ build.obs = 0 => build.phase = "Pending"
  /\ copy # Build!NoBuild =>
       /\ copy.phase = build.phase /\ copy.obs = build.obs /\ copy.ami = build.ami
       /\ copy.gen \in 1 .. build.gen /\ copy.obs <= copy.gen
       /\ Build!Changed(copy) \/ copy.phase \notin {"Ready", "Failed"}
  /\ build.phase \in {"Validating", "Building", "Extracting"} /\ disk.tpl # 0
       => disk.tpl = build.obs
  /\ build.phase = "Extracting" /\ disk.img # 0 => images[disk.img] = Made(build.obs)
  /\ build.phase = "Ready" => build.ami # 0 /\ images[build.ami] = Made(build.obs)

(* The AmiTest. A suite that is recorded as Succeeded had its Job succeed, and a  *)
(* Job exists only for the image the test has settled on and behind Jobs that     *)
(* have succeeded.                                                                *)
TestInv ==
  /\ Test!TypeOK
  /\ test.phase \in {"None", "Pending", "Resolving"} => \A s \in Suites : jobs[s] = Test!NoJob
  /\ test.phase \in {"Running", "Passed", "Cleaning"} => test.ami # 0
  /\ test.phase = "Passed" => \A s \in Suites : test.suite[s] = "Succeeded"
  /\ \A s \in Suites : test.suite[s] = "Succeeded" => jobs[s].state = "Succeeded"
  /\ \A s \in Suites : jobs[s] # Test!NoJob =>
       /\ jobs[s].ami = test.ami
       /\ \A d \in test.deps[s] : d \in Suites /\ jobs[d].state = "Succeeded"

(* While nobody edits the child build, whoever took its image took the one it     *)
(* still names.                                                                   *)
SourceInv ==
  build.gen <= 1 =>
    /\ pipe.ami # 0 => build.phase = "Ready" /\ build.ami = pipe.ami
    /\ test.ami # 0 => build.phase = "Ready" /\ build.ami = test.ami

(* The pipeline's image has passed, as far as the test is asked for and the build *)
(* is left alone.                                                                 *)
Tested == conf.tests /\ build.gen <= 1 => test.phase = "Passed" /\ test.ami = pipe.ami

Early  == {"Pending", "Building", "Testing"}
Undone == {"RollingBack", "Failed"}
New    == 2 .. MaxImages

(* The writes a reconcile has yet to make, by the phase it found: what their      *)
(* arguments owe to the reads that chose them still holds when they are made.     *)
Afterwards == IF conf.tests THEN "Testing" ELSE "Planning"

Fails == pipe.phase \notin {"Completed", "Failed"} /\ rec.todo = <<W("phase", "Failed")>>
Creates ==
  /\ pipe.phase = "Pending"
  /\ rec.todo \in {<<W("build", 0), W("phase", "Building")>>, <<W("phase", "Building")>>}
Takes ==
  /\ pipe.phase = "Building"
  /\ \E a \in New : /\ rec.todo = <<W("ami", a), W("phase", Afterwards)>>
                    /\ build.gen <= 1 => build.phase = "Ready" /\ build.ami = a
Took == pipe.phase = "Building" /\ rec.todo = <<W("phase", Afterwards)>> /\ pipe.ami \in New
Tests ==
  /\ pipe.phase = "Testing"
  /\ \/ rec.todo = <<W("test", 0)>>
     \/ rec.todo = <<W("phase", "Planning")>> /\ Tested
Plans ==
  /\ pipe.phase = "Planning"
  /\ \/ rec.todo = <<W("look", 0)>>
     \/ \E v \in {OldImage, pipe.ami} :
          \/ rec.todo = <<W("var", pipe.ami), W("prev", v), W("look", 0)>>
          \/ rec.todo = <<W("prev", v), W("look", 0)>>
Captures ==
  /\ pipe.phase = "Planning"
  /\ ~conf.used => tmpl.made = pipe.ami /\ tmpl.want = pipe.ami
  /\ \E to \in {"Applying", "AwaitingApproval", "Failed"} :
       \/ rec.todo = <<W("phase", to)>>
       \/ \E h \in Hashes : rec.todo = <<W("hash", h), W("phase", to)>>
Approved == pipe.phase = "AwaitingApproval" /\ rec.todo = <<W("phase", "Applying")>>
Applies ==
  /\ pipe.phase = "Applying"
  /\ \/ rec.todo \in {<<W("phase", "RollingBack")>>, <<W("phase", "Planning")>>}
     \/ /\ \E to \in {"Verifying", "Completed"} : rec.todo = <<W("phase", to)>>
        /\ conf.used \/ pipe.ami \in applied
     \/ \E h \in Hashes \cap seen : rec.todo = <<W("approve", h)>>
Verifies ==
  /\ pipe.phase = "Verifying"
  /\ rec.todo \in {<<W("phase", "Completed")>>, <<W("phase", "RollingBack")>>}
Reverts ==
  /\ pipe.phase = "RollingBack"
  /\ \E v \in {OldImage, pipe.ami} : v # 0 /\ rec.todo = <<W("var", v), W("phase", "Failed")>>

TodoInv ==
  \/ rec = Idle
  \/ Fails \/ Creates \/ Takes \/ Took \/ Tests \/ Plans \/ Captures \/ Approved
  \/ Applies \/ Verifies \/ Reverts

PipeInv ==
  /\ conf \in Confs /\ pipe \in Pipes /\ rec = [pipe |-> rec.pipe, todo |-> rec.todo]
  /\ rec.pipe \in Pipes
  /\ pipe.phase \notin Undone \cup {"Pending", "Building"} => pipe.ami \in New
  /\ pipe.ami \in New \cup {0}
  /\ pipe.phase \in {"Pending", "Building"} =>
       pipe.prev = 0 /\ (rec.todo # <<>> => rec.pipe.prev = 0)
  /\ pipe.prev \in {0, OldImage, pipe.ami}
  /\ rec.todo # <<>> => rec.pipe.prev \in {0, OldImage, pipe.ami}
  /\ pipe.hash # NoHash => pipe.hash \in seen
  /\ pipe.phase \in {"Verifying", "Completed"} => conf.used \/ pipe.ami \in applied
  /\ pipe.phase \notin Early \cup {"Failed"} \/ tmpl.want # OldImage => Tested

(* The plans that may be approved: the captured ones, and the one that an approval *)
(* from before the pipeline is for.                                                *)
Trusted == seen \cup (IF conf.used THEN {Earlier} ELSE {})

(* A template that shows no plan of an earlier apply shows none before it renders *)
(* the pipeline's image: one that applies by itself never does, and any other does   *)
(* not even start to plan. That is what CompletedIsDeployed rests on.              *)
TmplInv ==
  /\ tmpl \in [want : Images, made : Images, phase : TmplPhases, pend : Hashes, ok : Hashes]
  /\ plan \in [on : BOOLEAN, hash : Hashes, ok : BOOLEAN]
  /\ live \in Hashes /\ live[1] # 0 /\ seen \subseteq Hashes /\ drifts \in 0 .. MaxDrift
  /\ applied \subseteq {OldImage, pipe.ami} /\ 0 \notin applied /\ applied \subseteq Images
  /\ tmpl.want \in {OldImage, pipe.ami} /\ tmpl.made \in {OldImage, pipe.ami}
  /\ tmpl.want # 0 /\ tmpl.made # 0
  /\ pipe.phase \in Early => tmpl.want = OldImage /\ applied \subseteq {OldImage}
  /\ tmpl.want = OldImage /\ pipe.phase \notin Undone => tmpl.made = OldImage
  /\ conf.target = "auto" /\ plan.on => plan.ok
  /\ ~conf.used /\ conf.target = "auto" => tmpl.pend = NoHash
  /\ ~conf.used /\ conf.target # "auto" /\ tmpl.made = OldImage /\ pipe.phase \notin Undone =>
       /\ tmpl.pend = NoHash /\ ~plan.on
       /\ tmpl.phase \in {"Ready", "Drifted"} \/ (tmpl.phase = "Failed" /\ tmpl.want # OldImage)
  /\ ~conf.used /\ pipe.phase \in {"AwaitingApproval", "Applying"} =>
       tmpl.made = pipe.ami /\ tmpl.want = pipe.ami
  /\ live[1] \in {OldImage} \cup applied
  /\ plan.on => plan.hash[1] \in {OldImage} \cup applied
  /\ tmpl.phase \in {"Ready", "Drifted"} => tmpl.made \in {OldImage} \cup applied
  /\ tmpl.ok # NoHash => tmpl.ok \in Trusted
  /\ plan.on /\ plan.ok => plan.hash \in Trusted \/ conf.target = "auto"
  /\ (tmpl.made # OldImage \/ \E a \in applied : a # OldImage) => Tested

IInv == BuildInv /\ TestInv /\ SourceInv /\ TodoInv /\ PipeInv /\ TmplInv

--------------------------------------------------------------------------------
(* The bounds are numbers. *)
LEMMA Bounds ==
  /\ MaxGen \in Nat /\ MaxGen >= 1 /\ MaxImages \in Nat /\ MaxImages >= 1
  /\ MaxDrift \in Nat /\ MaxReplans \in Nat /\ MaxFaults \in Nat
  /\ OldImage = 1 /\ NoImage = 0
BY PipelineAssumption DEF OldImage, NoImage

(* The parts of BuildInv that make a copy and the object typed, in the terms the  *)
(* handlers use.                                                                  *)
LEMMA BuildTypes ==
  ASSUME BuildInv
  PROVE  /\ build = [gen |-> build.gen, phase |-> build.phase, obs |-> build.obs, ami |-> build.ami]
         /\ build.gen \in 0 .. MaxGen /\ build.obs \in 0 .. MaxGen
         /\ build.phase \in Build!Phases /\ build.ami \in 0 .. Len(images)
         /\ copy.gen \in 0 .. MaxGen /\ copy.obs \in 0 .. MaxGen
         /\ disk = [tpl |-> disk.tpl, img |-> disk.img]
         /\ disk.tpl \in 0 .. MaxGen /\ disk.img \in 0 .. Len(images)
         /\ images \in Seq([tpl : 0 .. MaxGen, vars : 0 .. MaxGen]) /\ Len(images) \in Nat
         /\ faults \in 0 .. MaxFaults
BY DEF BuildInv, Build!TypeOK, Build!Objects

(* What a status write of the PackerBuild leaves in the object. *)
LEMMA PutIs ==
  ASSUME BuildInv, NEW phase, NEW ami
  PROVE  /\ Build!Put(phase) = [gen |-> build.gen, phase |-> phase, obs |-> copy.gen, ami |-> build.ami]
         /\ [Build!Put(phase) EXCEPT !.ami = ami]
              = [gen |-> build.gen, phase |-> phase, obs |-> copy.gen, ami |-> ami]
<1> DEFINE first == [build EXCEPT !.phase = phase]
           put == [gen |-> build.gen, phase |-> phase, obs |-> copy.gen, ami |-> build.ami]
<1>1. first = [gen |-> build.gen, phase |-> phase, obs |-> build.obs, ami |-> build.ami]
  BY BuildTypes, SMTT(30)
<1>2. [first EXCEPT !.obs = copy.gen] = put
  <2> HIDE DEF first
  <2> QED BY <1>1
<1>3. Build!Put(phase) = put
  BY <1>2 DEF Build!Put
<1>4. [put EXCEPT !.ami = ami] = [gen |-> build.gen, phase |-> phase, obs |-> copy.gen, ami |-> ami]
  OBVIOUS
<1> QED BY <1>3, <1>4

(* A status write of the reconcile that holds the copy: the types are kept, the   *)
(* copy is given back, and the generation it stamps is one the object has had.    *)
LEMMA PutKeeps ==
  ASSUME BuildInv, copy # Build!NoBuild, copy' = Build!NoBuild,
         NEW phase \in Build!Phases, NEW ami,
         build' = [gen |-> build.gen, phase |-> phase, obs |-> copy.gen, ami |-> ami],
         Len(images') \in 1 .. MaxImages, images'[1] = Made(0),
         images' \in Seq([tpl : 0 .. MaxGen, vars : 0 .. MaxGen]),
         ami \in 0 .. Len(images'),
         disk' \in [tpl : 0 .. MaxGen, img : 0 .. Len(images')], faults' \in 0 .. MaxFaults,
         phase \in {"Validating", "Building", "Extracting"} /\ disk'.tpl # 0 => disk'.tpl = copy.gen,
         phase = "Extracting" /\ disk'.img # 0 => images'[disk'.img] = Made(copy.gen),
         phase = "Ready" => ami # 0 /\ images'[ami] = Made(copy.gen)
  PROVE  BuildInv'
<1> USE Bounds
<1>1. build'.gen = build.gen /\ build'.phase = phase /\ build'.obs = copy.gen /\ build'.ami = ami
  OBVIOUS
<1>2. copy.gen \in 1 .. build.gen /\ build.gen \in 0 .. MaxGen
  BY BuildTypes DEF BuildInv
<1>3. copy' \in Build!Objects'
  BY DEF Build!NoBuild, Build!Objects, Build!Phases, Build!NoImage
<1>4. build' \in Build!Objects'
  BY <1>2, SMTT(30) DEF Build!Objects, Build!Phases
<1>5. Build!TypeOK'
  BY <1>3, <1>4 DEF Build!TypeOK
<1>6. copy' = Build!NoBuild' /\ Made(0)' = Made(0) /\ Made(build'.obs) = Made(copy.gen)
  BY <1>1 DEF Build!NoBuild, Build!NoImage, Made, Build!Image
<1>7. build'.obs <= build'.gen /\ build'.gen # 0 /\ build'.obs # 0
  BY <1>1, <1>2, SMTT(30)
<1> QED BY <1>1, <1>5, <1>6, <1>7 DEF BuildInv, Made, Build!Image

(* The copy a handler works from is of the observed generation or of none, and    *)
(* agrees with the object on everything but the generation.                       *)
LEMMA CopyIs ==
  ASSUME BuildInv, copy # Build!NoBuild
  PROVE  /\ copy.phase = build.phase /\ copy.obs = build.obs /\ copy.ami = build.ami
         /\ copy.gen \in 1 .. MaxGen /\ copy.gen <= build.gen
         /\ ~Build!Changed(copy) => copy.gen = build.obs \/ build.phase = "Pending"
<1> USE BuildTypes
<1>1. copy.phase = build.phase /\ copy.obs = build.obs /\ copy.ami = build.ami
      /\ copy.gen \in 1 .. build.gen /\ (build.obs = 0 => build.phase = "Pending")
  BY DEF BuildInv
<1>2. ~Build!Changed(copy) => copy.gen = build.obs \/ build.obs = 0
  BY <1>1 DEF Build!Changed
<1> QED BY <1>1, <1>2, Bounds

(* packer's run: one image more, made of the one generation that the template on  *)
(* disk and the copy are of, and nothing about the older images changes.          *)
LEMMA PackerRuns ==
  ASSUME BuildInv, Build!RunPacker
  PROVE  /\ copy # Build!NoBuild /\ build.phase = "Building" /\ copy.gen = build.obs
         /\ disk.tpl = copy.gen
         /\ Len(images') = Len(images) + 1 /\ Len(images') \in 1 .. MaxImages
         /\ images' \in Seq([tpl : 0 .. MaxGen, vars : 0 .. MaxGen])
         /\ \A i \in 1 .. Len(images) : images'[i] = images[i]
         /\ images'[Len(images')] = Made(copy.gen)
         /\ disk' = [tpl |-> disk.tpl, img |-> Len(images')]
<1>1. copy # Build!NoBuild /\ ~Build!Changed(copy) /\ copy.phase = "Building" /\ disk.tpl # 0
      /\ Len(images) < MaxImages
  BY DEF Build!RunPacker, Build!InPhase
<1>2. build.phase = "Building" /\ copy.gen = build.obs /\ copy.gen \in 1 .. MaxGen
  BY <1>1, CopyIs
<1>3. disk.tpl = copy.gen
  BY <1>1, <1>2, BuildTypes DEF BuildInv
<1> DEFINE img == Made(copy.gen)
<1>4. img \in [tpl : 0 .. MaxGen, vars : 0 .. MaxGen]
  BY <1>2 DEF Made, Build!Image
<1>5. images' = Append(images, img)
  BY <1>3 DEF Build!RunPacker, Made
<1> HIDE DEF img
<1>6. /\ Len(images') = Len(images) + 1
      /\ images' \in Seq([tpl : 0 .. MaxGen, vars : 0 .. MaxGen])
      /\ \A i \in 1 .. Len(images) : images'[i] = images[i]
      /\ images'[Len(images) + 1] = img
  BY <1>4, <1>5, BuildTypes
<1>7. disk' = [tpl |-> disk.tpl, img |-> Len(images')]
  <2>1. disk' = [disk EXCEPT !.img = Len(images')] /\ disk = [tpl |-> disk.tpl, img |-> disk.img]
    BY BuildTypes, Zenon DEF Build!RunPacker
  <2> QED BY <2>1
<1>8. Len(images') \in 1 .. MaxImages /\ images'[Len(images')] = img
  <2>1. Len(images) \in Nat /\ MaxImages \in Nat
    BY BuildTypes, Bounds
  <2> QED BY <1>1, <1>6, <2>1
<1> QED BY <1>1, <1>2, <1>3, <1>6, <1>7, <1>8, Zenon DEF img

(* A step that leaves the object and drops or keeps the copy, while the images    *)
(* only grow: what held of the workspace has to be shown anew.                    *)
LEMMA WorkspaceKeeps ==
  ASSUME BuildInv, build' = build, copy' \in {copy, Build!NoBuild},
         Len(images') \in Len(images) .. MaxImages,
         images' \in Seq([tpl : 0 .. MaxGen, vars : 0 .. MaxGen]),
         \A i \in 1 .. Len(images) : images'[i] = images[i],
         disk' \in [tpl : 0 .. MaxGen, img : 0 .. Len(images')], faults' \in 0 .. MaxFaults,
         disk'.tpl \in {0, disk.tpl},
         build.phase = "Extracting" => disk'.img \in {0, disk.img}
  PROVE  BuildInv'
<1> USE Bounds
<1>0. /\ build.ami \in 0 .. Len(images) /\ disk.img \in 0 .. Len(images) /\ Len(images) \in Nat
      /\ build \in Build!Objects /\ copy \in Build!Objects
  BY BuildTypes DEF BuildInv, Build!TypeOK
<1>1. build' \in Build!Objects' /\ copy' \in Build!Objects'
  <2>1. Build!Objects \subseteq Build!Objects'
    BY <1>0, SMTT(30) DEF Build!Objects, Build!Phases
  <2>2. Build!NoBuild \in Build!Objects
    BY <1>0 DEF Build!NoBuild, Build!Objects, Build!Phases, Build!NoImage
  <2> QED BY <1>0, <2>1, <2>2
<1>2. Build!TypeOK'
  BY <1>1 DEF Build!TypeOK
<1>3. Len(images) \in 1 .. MaxImages /\ images[1] = Made(0)
  BY DEF BuildInv
<1>4. Len(images') \in 1 .. MaxImages /\ images'[1] = Made(0)
  BY <1>3, SMTT(30)
<1>5. Build!NoBuild' = Build!NoBuild
  BY DEF Build!NoBuild, Build!NoImage
<1>6. copy' # Build!NoBuild =>
       /\ copy'.phase = build'.phase /\ copy'.obs = build'.obs /\ copy'.ami = build'.ami
       /\ copy'.gen \in 1 .. build'.gen /\ copy'.obs <= copy'.gen
       /\ Build!Changed(copy)' \/ copy'.phase \notin {"Ready", "Failed"}
  BY DEF BuildInv, Build!Changed
<1>7. build.phase = "Extracting" /\ disk'.img # 0 => images'[disk'.img] = Made(build.obs)
  <2>1. build.phase = "Extracting" /\ disk.img # 0 => images[disk.img] = Made(build.obs)
    BY DEF BuildInv
  <2>2. disk.img # 0 => disk.img \in 1 .. Len(images)
    BY <1>0
  <2>3. disk.img # 0 => images'[disk.img] = images[disk.img]
    BY <2>2, Zenon
  <2> QED BY <2>1, <2>3
<1>8. build.phase = "Ready" => build.ami # 0 /\ images'[build.ami] = Made(build.obs)
  <2>1. build.phase = "Ready" => build.ami # 0 /\ images[build.ami] = Made(build.obs)
    BY DEF BuildInv
  <2>2. build.ami # 0 => build.ami \in 1 .. Len(images)
    BY <1>0
  <2>3. build.ami # 0 => images'[build.ami] = images[build.ami]
    BY <2>2, Zenon
  <2> QED BY <2>1, <2>3
<1>9. build.obs <= build.gen /\ (build.gen = 0 => build = Build!NoBuild)
      /\ (build.obs = 0 => build.phase = "Pending")
      /\ (build.phase \in {"Validating", "Building", "Extracting"} /\ disk'.tpl # 0
            => disk'.tpl = build.obs)
  BY DEF BuildInv
<1> QED BY <1>2, <1>4, <1>5, <1>6, <1>7, <1>8, <1>9 DEF BuildInv, Made, Build!Image

(* Every step of the PackerBuild keeps BuildInv. *)
LEMMA BuildStep ==
  ASSUME BuildInv, Build!Next
  PROVE  BuildInv'
<1> USE Bounds
<1>0. /\ Len(images) \in 1 .. MaxImages /\ images[1] = Made(0)
      /\ images \in Seq([tpl : 0 .. MaxGen, vars : 0 .. MaxGen])
      /\ build.gen \in 0 .. MaxGen /\ build.ami \in 0 .. Len(images)
      /\ disk \in [tpl : 0 .. MaxGen, img : 0 .. Len(images)] /\ faults \in 0 .. MaxFaults
  BY BuildTypes DEF BuildInv, Build!TypeOK
<1>1. ASSUME NEW phase \in Build!Phases, phase \notin {"Validating", "Building", "Extracting", "Ready"},
             copy # Build!NoBuild, build' = Build!Put(phase), copy' = Build!NoBuild,
             UNCHANGED <<disk, images, faults>>
      PROVE  BuildInv'
  <2>1. build' = [gen |-> build.gen, phase |-> phase, obs |-> copy.gen, ami |-> build.ami]
    BY <1>1, PutIs
  <2> QED BY <1>0, <1>1, <2>1, PutKeeps
<1>2. CASE Build!Edit
  <2>1. /\ build.gen \in 1 .. MaxGen - 1
        /\ build' = [gen |-> build.gen + 1, phase |-> build.phase, obs |-> build.obs, ami |-> build.ami]
        /\ disk' = disk /\ images' = images /\ copy' = copy /\ faults' = faults
    BY <1>2, BuildTypes DEF Build!Edit
  <2>2. build'.gen = build.gen + 1 /\ build'.phase = build.phase /\ build'.obs = build.obs
        /\ build'.ami = build.ami
    BY <2>1
  <2>3. Build!TypeOK'
    <3>1. build'.gen \in 0 .. MaxGen /\ build.obs \in 0 .. MaxGen /\ build.phase \in Build!Phases
          /\ build.ami \in 0 .. Len(images')
      BY <2>1, <2>2, BuildTypes, SMTT(30)
    <3>3. build' \in Build!Objects'
      BY <2>1, <2>2, <3>1 DEF Build!Objects, Build!Phases
    <3>2. Build!Objects' = Build!Objects
      BY <2>1 DEF Build!Objects, Build!Phases
    <3> QED BY <2>1, <3>2, <3>3 DEF BuildInv, Build!TypeOK
  <2>4. copy' # Build!NoBuild =>
       /\ copy'.phase = build'.phase /\ copy'.obs = build'.obs /\ copy'.ami = build'.ami
       /\ copy'.gen \in 1 .. build'.gen /\ copy'.obs <= copy'.gen
       /\ Build!Changed(copy)' \/ copy'.phase \notin {"Ready", "Failed"}
    BY <2>1, <2>2 DEF BuildInv, Build!Changed
  <2>5. Build!NoBuild' = Build!NoBuild /\ build'.obs <= build'.gen
    BY <2>1, <2>2, BuildTypes DEF BuildInv, Build!NoBuild, Build!NoImage
  <2> QED BY <2>1, <2>2, <2>3, <2>4, <2>5 DEF BuildInv, Made, Build!Image
<1>3. CASE Build!Start
  <2>1. build' = build /\ disk' = disk /\ images' = images /\ copy' = build /\ faults' = faults
        /\ build # Build!NoBuild /\ (Build!Changed(build) \/ build.phase \notin {"Ready", "Failed"})
    BY <1>3 DEF Build!Start
  <2>2. Build!TypeOK'
    BY <2>1 DEF BuildInv, Build!TypeOK, Build!Objects
  <2>3. /\ copy'.phase = build'.phase /\ copy'.obs = build'.obs /\ copy'.ami = build'.ami
        /\ copy'.gen \in 1 .. build'.gen /\ copy'.obs <= copy'.gen
        /\ Build!Changed(copy)' \/ copy'.phase \notin {"Ready", "Failed"}
    <3>0. build.gen \in Nat
      BY BuildTypes
    <3>1. build.gen \in 1 .. build.gen /\ build.obs <= build.gen
      BY <2>1, <3>0 DEF BuildInv
    <3>2. Build!Changed(copy)' <=> Build!Changed(build)
      BY <2>1 DEF Build!Changed
    <3> QED BY <2>1, <3>1, <3>2
  <2>4. Build!NoBuild' = Build!NoBuild
    BY DEF Build!NoBuild, Build!NoImage
  <2> QED BY <2>1, <2>2, <2>3, <2>4 DEF BuildInv, Made, Build!Image
<1>4. CASE Build!Restart
  BY <1>1, <1>4 DEF Build!Restart, Build!Done, Build!Phases
<1>5. CASE Build!HandlePending
  BY <1>1, <1>5 DEF Build!HandlePending, Build!InPhase, Build!Done, Build!Phases
<1>6. CASE Build!Fail
  <2>1. /\ copy # Build!NoBuild /\ copy' = Build!NoBuild /\ faults' = faults /\ build' = Build!Put("Failed")
        /\ UNCHANGED <<disk, images>> \/ Build!RunPacker
    BY <1>6 DEF Build!Fail, Build!Done
  <2>2. CASE UNCHANGED <<disk, images>>
    BY <1>1, <2>1, <2>2 DEF Build!Phases
  <2>3. CASE Build!RunPacker
    <3>1. build' = [gen |-> build.gen, phase |-> "Failed", obs |-> copy.gen, ami |-> build.ami]
      BY <2>1, PutIs
    <3>2. /\ Len(images') = Len(images) + 1 /\ Len(images') \in 1 .. MaxImages
          /\ images' \in Seq([tpl : 0 .. MaxGen, vars : 0 .. MaxGen]) /\ images'[1] = images[1]
          /\ disk' = [tpl |-> disk.tpl, img |-> Len(images')]
      BY <2>3, PackerRuns, <1>0, SMTT(30)
    <3>3. disk' \in [tpl : 0 .. MaxGen, img : 0 .. Len(images')]
      BY <3>2, BuildTypes
    <3>4. /\ build.ami \in 0 .. Len(images') /\ "Failed" \in Build!Phases
          /\ faults' \in 0 .. MaxFaults /\ images'[1] = Made(0)
      BY <1>0, <2>1, <3>2, SMTT(30) DEF Build!Phases
    <3> QED BY <2>1, <3>1, <3>2, <3>3, <3>4, PutKeeps
  <2> QED BY <2>1, <2>2, <2>3
<1>7. CASE Build!HandleCompiling
  <2>1. /\ copy # Build!NoBuild /\ copy' = Build!NoBuild /\ images' = images /\ faults' = faults
        /\ build' = Build!Put("Validating") /\ disk' = [disk EXCEPT !.tpl = copy.gen]
    BY <1>7 DEF Build!HandleCompiling, Build!InPhase, Build!Done
  <2>2. build' = [gen |-> build.gen, phase |-> "Validating", obs |-> copy.gen, ami |-> build.ami]
    BY <2>1, PutIs
  <2>3. disk' \in [tpl : 0 .. MaxGen, img : 0 .. Len(images)] /\ disk'.tpl = copy.gen
    BY <1>0, <2>1, BuildTypes
  <2> QED BY <1>0, <2>1, <2>2, <2>3, PutKeeps DEF Build!Phases
<1>8. CASE Build!HandleValidating
  <2>1. /\ copy # Build!NoBuild /\ copy' = Build!NoBuild /\ images' = images /\ faults' = faults
        /\ build' = Build!Put("Building") /\ disk' = disk /\ ~Build!Changed(copy)
        /\ copy.phase = "Validating" /\ disk.tpl # 0
    BY <1>8 DEF Build!HandleValidating, Build!InPhase, Build!Done
  <2>2. build' = [gen |-> build.gen, phase |-> "Building", obs |-> copy.gen, ami |-> build.ami]
    BY <2>1, PutIs
  <2>3. disk.tpl = build.obs /\ copy.gen = build.obs
    BY <2>1, CopyIs DEF BuildInv
  <2> QED BY <1>0, <2>1, <2>2, <2>3, PutKeeps DEF Build!Phases
<1>9. CASE Build!HandleBuilding
  <2>1. Build!RunPacker /\ build' = Build!Put("Extracting") /\ copy' = Build!NoBuild /\ faults' = faults
    BY <1>9 DEF Build!HandleBuilding, Build!Done
  <2>2. build' = [gen |-> build.gen, phase |-> "Extracting", obs |-> copy.gen, ami |-> build.ami]
    BY <2>1, PutIs
  <2>3. /\ copy # Build!NoBuild /\ disk.tpl = copy.gen
        /\ Len(images') = Len(images) + 1 /\ Len(images') \in 1 .. MaxImages
        /\ images' \in Seq([tpl : 0 .. MaxGen, vars : 0 .. MaxGen])
        /\ images'[1] = images[1] /\ images'[Len(images')] = Made(copy.gen)
        /\ disk' = [tpl |-> disk.tpl, img |-> Len(images')]
    BY <2>1, PackerRuns, <1>0, SMTT(30)
  <2>4. disk' \in [tpl : 0 .. MaxGen, img : 0 .. Len(images')]
        /\ disk'.tpl = copy.gen /\ disk'.img = Len(images')
    BY <2>3, BuildTypes
  <2>5. images'[disk'.img] = Made(copy.gen) /\ images'[1] = Made(0)
    BY <1>0, <2>3, <2>4
  <2>6. build.ami \in 0 .. Len(images') /\ "Extracting" \in Build!Phases /\ faults' \in 0 .. MaxFaults
    BY <1>0, <2>1, <2>3, SMTT(30) DEF Build!Phases
  <2> QED BY <2>1, <2>2, <2>3, <2>4, <2>5, <2>6, PutKeeps
<1>10. CASE Build!HandleExtracting
  <2>1. /\ copy # Build!NoBuild /\ copy' = Build!NoBuild /\ images' = images /\ faults' = faults
        /\ build' = [Build!Put("Ready") EXCEPT !.ami = disk.img] /\ disk' = disk
        /\ ~Build!Changed(copy) /\ copy.phase = "Extracting" /\ disk.img # 0
    BY <1>10 DEF Build!HandleExtracting, Build!InPhase, Build!Done, Build!NoImage
  <2>2. build' = [gen |-> build.gen, phase |-> "Ready", obs |-> copy.gen, ami |-> disk.img]
    BY <2>1, PutIs
  <2>3. images[disk.img] = Made(build.obs) /\ copy.gen = build.obs
    BY <2>1, CopyIs DEF BuildInv
  <2> QED BY <1>0, <2>1, <2>2, <2>3, PutKeeps, BuildTypes DEF Build!Phases
<1>11. CASE Build!Die
  <2>1. build' = build /\ copy' = Build!NoBuild /\ faults' \in 0 .. MaxFaults
    BY <1>0, <1>11 DEF Build!Die, Build!Done
  <2>2. CASE disk' \in {disk, Build!Empty} /\ UNCHANGED images
    <3>1. Build!Empty \in [tpl : 0 .. MaxGen, img : 0 .. Len(images)]
          /\ Build!Empty.tpl = 0 /\ Build!Empty.img = 0
      BY <1>0 DEF Build!Empty, Build!NoImage
    <3> QED BY <1>0, <2>1, <2>2, <3>1, WorkspaceKeeps
  <2>3. CASE Build!RunPacker
    <3>1. /\ Len(images') = Len(images) + 1 /\ Len(images') \in 1 .. MaxImages
          /\ images' \in Seq([tpl : 0 .. MaxGen, vars : 0 .. MaxGen])
          /\ \A i \in 1 .. Len(images) : images'[i] = images[i]
          /\ disk' = [tpl |-> disk.tpl, img |-> Len(images')] /\ build.phase = "Building"
      BY <2>3, PackerRuns
    <3>2. disk' \in [tpl : 0 .. MaxGen, img : 0 .. Len(images')] /\ disk'.tpl = disk.tpl
      BY <3>1, BuildTypes
    <3> QED BY <1>0, <2>1, <3>1, <3>2, WorkspaceKeeps
  <2> QED BY <1>11, <2>2, <2>3 DEF Build!Die
<1> QED BY <1>2, <1>3, <1>4, <1>5, <1>6, <1>7, <1>8, <1>9, <1>10, <1>11 DEF Build!Next, Build!Handle

(* Everybody else leaves the build as it is, or creates it. *)
LEMMA BuildFrame ==
  ASSUME BuildInv, UNCHANGED buildVars, faults' \in 0 .. MaxFaults
  PROVE  BuildInv'
<1>1. build' = build /\ disk' = disk /\ images' = images /\ copy' = copy
  BY DEF buildVars
<1>2. Len(images') \in Len(images) .. MaxImages
  BY <1>1, BuildTypes, Bounds DEF BuildInv
<1>3. disk \in [tpl : 0 .. MaxGen, img : 0 .. Len(images)]
  BY DEF BuildInv, Build!TypeOK
<1> QED BY <1>1, <1>2, <1>3, BuildTypes, WorkspaceKeeps

(* The pipeline's handle_building creates the PackerBuild: the object appears with its first generation. *)
LEMMA BuildCreated ==
  ASSUME BuildInv, build.gen = 0, build' = [build EXCEPT !.gen = 1],
         UNCHANGED <<disk, images, copy, faults>>
  PROVE  BuildInv'
<1> USE Bounds
<1>1. build = Build!NoBuild /\ copy = Build!NoBuild
  BY BuildTypes DEF BuildInv
<1>2. build' = [gen |-> 1, phase |-> "Pending", obs |-> 0, ami |-> 0]
  BY <1>1 DEF Build!NoBuild, Build!NoImage
<1>3. build'.gen = 1 /\ build'.phase = "Pending" /\ build'.obs = 0 /\ build'.ami = 0
  BY <1>2
<1>4. build' \in Build!Objects'
  <2>1. images' = images /\ Len(images) \in Nat
    BY BuildTypes
  <2>2. 1 \in 0 .. MaxGen /\ 0 \in 0 .. MaxGen /\ 0 \in 0 .. Len(images') /\ "Pending" \in Build!Phases
    BY <2>1 DEF Build!Phases
  <2>3. [gen |-> 1, phase |-> "Pending", obs |-> 0, ami |-> 0]
          \in [gen : 0 .. MaxGen, phase : Build!Phases, obs : 0 .. MaxGen, ami : 0 .. Len(images')]
    BY <2>2
  <2> QED BY <1>2, <2>3, Zenon DEF Build!Objects, Build!Phases
<1>5. Build!TypeOK'
  BY <1>4 DEF BuildInv, Build!TypeOK, Build!Objects
<1>6. copy' = Build!NoBuild'
  BY <1>1 DEF Build!NoBuild, Build!NoImage
<1> QED BY <1>3, <1>5, <1>6 DEF BuildInv, Made, Build!Image

(* What a Ready build names is an image made after the one in use before.         *)
LEMMA ReadyIsNew ==
  ASSUME BuildInv, build.phase = "Ready"
  PROVE  build.ami \in New /\ build.gen >= 1
<1>1. build.obs # 0 /\ build.ami # 0 /\ images[build.ami] = Made(build.obs) /\ images[1] = Made(0)
      /\ Len(images) \in 1 .. MaxImages /\ build.obs <= build.gen
  BY DEF BuildInv
<1>2. Made(build.obs).tpl = build.obs /\ Made(0).tpl = 0
  BY DEF Made, Build!Image
<1>3. build.ami # 1
  BY <1>1, <1>2
<1>4. build.ami \in 0 .. Len(images) /\ build.obs \in Nat /\ build.gen \in Nat
  BY BuildTypes, Bounds
<1> QED BY <1>1, <1>3, <1>4, Bounds DEF New

(* A Ready build of the first generation is left alone, and generations only grow. *)
LEMMA ReadyStays ==
  ASSUME BuildInv, Build!Next
  PROVE  /\ build'.gen >= build.gen
         /\ build.phase = "Ready" /\ build'.gen <= 1 => build' = build
<1> USE BuildTypes
<1>1. CASE Build!Edit
  <2>1. build.gen \in 1 .. MaxGen - 1
        /\ build' = [gen |-> build.gen + 1, phase |-> build.phase, obs |-> build.obs, ami |-> build.ami]
    BY <1>1 DEF Build!Edit
  <2>2. build'.gen = build.gen + 1
    BY <2>1
  <2> QED BY <2>1, <2>2, Bounds, SMTT(30)
<1>2. CASE Build!Start \/ Build!Die
  BY <1>2 DEF Build!Start, Build!Die
<1>3. CASE Build!Handle
  <2>1. copy # Build!NoBuild /\ build'.gen = build.gen
    <3>1. /\ copy # Build!NoBuild
          /\ \/ \E phase \in Build!Phases : build' = Build!Put(phase)
             \/ build' = [Build!Put("Ready") EXCEPT !.ami = disk.img]
      BY <1>3 DEF Build!Handle, Build!Restart, Build!HandlePending, Build!HandleCompiling,
        Build!HandleValidating, Build!HandleBuilding, Build!RunPacker, Build!HandleExtracting,
        Build!Fail, Build!InPhase, Build!Phases
    <3>2. ASSUME NEW phase, build' = Build!Put(phase)
          PROVE  build'.gen = build.gen
      <4>1. build' = [gen |-> build.gen, phase |-> phase, obs |-> copy.gen, ami |-> build.ami]
        BY <3>2, PutIs
      <4> QED BY <4>1
    <3>3. ASSUME build' = [Build!Put("Ready") EXCEPT !.ami = disk.img]
          PROVE  build'.gen = build.gen
      <4>1. build' = [gen |-> build.gen, phase |-> "Ready", obs |-> copy.gen, ami |-> disk.img]
        BY <3>3, PutIs
      <4> QED BY <4>1
    <3> QED BY <3>1, <3>2, <3>3
  <2>2. ASSUME build.phase = "Ready", build'.gen <= 1
        PROVE  FALSE
    <3>1. Build!Changed(copy) /\ copy.phase = "Ready" /\ copy.gen \in 1 .. build.gen
          /\ copy.obs <= copy.gen
      BY <2>1, <2>2 DEF BuildInv
    <3> QED BY <3>1, <2>1, <2>2 DEF Build!Changed
  <2> QED BY <2>1, <2>2
<1> QED BY <1>1, <1>2, <1>3 DEF Build!Next

--------------------------------------------------------------------------------
(* The AmiTest. *)

JobStates == {"None", "Running", "Succeeded", "Failed"}
Jobs == [state : JobStates, ami : Nat]

(* The fields of the AmiTest and of its Jobs, one by one. *)
LEMMA TestTypes ==
  ASSUME TestInv
  PROVE  /\ test = [phase |-> test.phase, ami |-> test.ami, deps |-> test.deps, suite |-> test.suite]
         /\ test.phase \in Test!TestPhases /\ test.ami \in Nat /\ test.deps \in Graphs
         /\ test.suite \in [Suites -> Test!SuitePhases] /\ jobs \in [Suites -> Jobs]
         /\ faults \in 0 .. MaxFaults
BY DEF TestInv, Test!TypeOK, Jobs, JobStates

(* The verdict on suites: Passed only where all of them succeeded. *)
LEMMA VerdictIs ==
  ASSUME NEW suite
  PROVE  /\ Test!Verdict(suite) \in {"Running", "Passed", "Cleaning", "Failed"}
         /\ Test!Verdict(suite) = "Passed" => \A s \in Suites : suite[s] = "Succeeded"
BY DEF Test!Verdict

(* One pass of handle_running, whichever Jobs it could not create: Jobs that      *)
(* succeeded stay, a suite it records as Succeeded has one, and a Job it created  *)
(* is on the test's image and behind Jobs that succeeded.                         *)
LEMMA PassKeeps ==
  ASSUME TestInv, NEW refused \in SUBSET Suites
  PROVE  LET made == Test!Created(refused)
             suite == Test!Results(refused)
         IN /\ made \in [Suites -> Jobs] /\ suite \in [Suites -> Test!SuitePhases]
            /\ \A s \in Suites : test.suite[s] = "Succeeded" \/ suite[s] = "Succeeded"
                                   => made[s].state = "Succeeded"
            /\ \A s \in Suites : made[s] # Test!NoJob =>
                 /\ made[s].ami = test.ami
                 /\ \A d \in test.deps[s] : d \in Suites /\ made[d].state = "Succeeded"
<1> DEFINE made == Test!Created(refused)
           suite == Test!Results(refused)
           skip == Test!Skipping
           launch == Test!Launched(refused)
           coll == Test!Collected(refused)
<1>1. /\ test.suite \in [Suites -> Test!SuitePhases] /\ jobs \in [Suites -> Jobs] /\ test.ami \in Nat
  BY TestTypes
<1>2. /\ \A s \in Suites : test.suite[s] = "Succeeded" => jobs[s].state = "Succeeded"
      /\ \A s \in Suites : jobs[s] # Test!NoJob =>
           /\ jobs[s].ami = test.ami
           /\ \A d \in test.deps[s] : d \in Suites /\ jobs[d].state = "Succeeded"
  BY DEF TestInv
<1>3. skip \in [Suites -> Test!SuitePhases]
      /\ \A s \in Suites : skip[s] = "Succeeded" => test.suite[s] = "Succeeded"
  BY <1>1 DEF Test!Skipping, Test!SuitePhases
<1>4. \A s \in Suites : s \in Test!Launchable =>
        \A d \in test.deps[s] : d \in Suites /\ test.suite[d] = "Succeeded"
  BY DEF Test!Launchable, Test!SuitesIn
<1>5. /\ made = [s \in Suites |-> made[s]]
      /\ \A s \in Suites : \/ made[s] = jobs[s]
                           \/ /\ s \in Test!Launchable /\ jobs[s] = Test!NoJob
                              /\ made[s] = [state |-> "Running", ami |-> test.ami]
  BY DEF Test!Created
<1>6. Test!NoJob.state = "None"
  BY DEF Test!NoJob
<1>7. launch \in [Suites -> Test!SuitePhases]
      /\ \A s \in Suites : launch[s] = "Succeeded" => skip[s] = "Succeeded"
  BY <1>3 DEF Test!Launched, Test!SuitePhases
<1>8. coll = [s \in Suites |-> IF launch[s] = "Running" /\ made[s].state \in Test!Terminal
                               THEN made[s].state ELSE launch[s]]
  BY Zenon DEF Test!Collected
<1>9. suite \in {skip, coll}
  BY DEF Test!Results
<1> HIDE DEF made, suite, skip, launch, coll
<1>10. made \in [Suites -> Jobs]
  <2>1. ASSUME NEW s \in Suites
        PROVE  made[s] \in Jobs
    BY <1>1, <1>5 DEF Jobs, JobStates
  <2> QED BY <2>1, <1>5
<1>11. \A s \in Suites : jobs[s].state = "Succeeded" => made[s] = jobs[s]
  BY <1>5, <1>6
<1>12. coll \in [Suites -> Test!SuitePhases]
       /\ \A s \in Suites : coll[s] = "Succeeded" => made[s].state = "Succeeded" \/ launch[s] = "Succeeded"
  BY <1>7, <1>8 DEF Test!Terminal, Test!SuitePhases
<1>13. suite \in [Suites -> Test!SuitePhases]
  BY <1>3, <1>9, <1>12
<1>14. \A s \in Suites : test.suite[s] = "Succeeded" => made[s].state = "Succeeded"
  BY <1>2, <1>11
<1>15. \A s \in Suites : suite[s] = "Succeeded" => made[s].state = "Succeeded"
  BY <1>3, <1>7, <1>9, <1>12, <1>14
<1>16. ASSUME NEW s \in Suites, made[s] # Test!NoJob
       PROVE  /\ made[s].ami = test.ami
              /\ \A d \in test.deps[s] : d \in Suites /\ made[d].state = "Succeeded"
  <2>1. CASE made[s] = jobs[s]
    BY <1>2, <1>11, <1>16, <2>1
  <2>2. CASE s \in Test!Launchable /\ made[s] = [state |-> "Running", ami |-> test.ami]
    BY <1>4, <1>14, <2>2
  <2> QED BY <1>5, <2>1, <2>2
<1> QED BY <1>10, <1>13, <1>14, <1>15, <1>16 DEF made, suite

(* A step that keeps the graph and whose new phase, suites and Jobs agree. *)
LEMMA TestKeeps ==
  ASSUME TestInv,
         test' \in [phase : Test!TestPhases, ami : Nat, deps : {test.deps},
                    suite : [Suites -> Test!SuitePhases]],
         jobs' \in [Suites -> Jobs], faults' \in 0 .. MaxFaults,
         test'.phase \in {"None", "Pending", "Resolving"} => \A s \in Suites : jobs'[s] = Test!NoJob,
         test'.phase \in {"Running", "Passed", "Cleaning"} => test'.ami # 0,
         test'.phase = "Passed" => \A s \in Suites : test'.suite[s] = "Succeeded",
         \A s \in Suites : test'.suite[s] = "Succeeded" => jobs'[s].state = "Succeeded",
         \A s \in Suites : jobs'[s] # Test!NoJob =>
           /\ jobs'[s].ami = test'.ami
           /\ \A d \in test.deps[s] : d \in Suites /\ jobs'[d].state = "Succeeded"
  PROVE  TestInv'
<1>1. test'.deps = test.deps
  OBVIOUS
<1>2. Test!TypeOK'
  <2>1. test.deps \in Graphs
    BY TestTypes
  <2>2. test' \in [phase : Test!TestPhases, ami : Nat, deps : Graphs, suite : [Suites -> Test!SuitePhases]]
    BY <2>1
  <2> QED BY <2>2 DEF Test!TypeOK, Test!TestPhases, Test!SuitePhases, Jobs, JobStates
<1>3. Test!NoJob' = Test!NoJob
  BY DEF Test!NoJob
<1> QED BY <1>1, <1>2, <1>3 DEF TestInv

(* Only the phase changes, to one that claims nothing new. *)
LEMMA TestMovesTo ==
  ASSUME TestInv, NEW phase \in {"Pending", "Resolving", "Failed"}, test' = [test EXCEPT !.phase = phase],
         phase # "Failed" => test.phase \in {"None", "Pending"},
         jobs' = jobs, faults' \in 0 .. MaxFaults
  PROVE  TestInv'
<1>1. test' = [phase |-> phase, ami |-> test.ami, deps |-> test.deps, suite |-> test.suite]
  BY TestTypes
<1>2. /\ phase \in {"None", "Pending", "Resolving"} => \A s \in Suites : jobs'[s] = Test!NoJob
      /\ \A s \in Suites : test.suite[s] = "Succeeded" => jobs'[s].state = "Succeeded"
      /\ \A s \in Suites : jobs'[s] # Test!NoJob =>
           /\ jobs'[s].ami = test.ami
           /\ \A d \in test.deps[s] : d \in Suites /\ jobs'[d].state = "Succeeded"
  BY DEF TestInv
<1>3. phase \in Test!TestPhases /\ phase \notin {"Running", "Passed", "Cleaning"}
  BY DEF Test!TestPhases
<1>4. /\ test.suite \in [Suites -> Test!SuitePhases] /\ test.ami \in Nat /\ jobs' \in [Suites -> Jobs]
  BY TestTypes
<1>5. /\ test' \in [phase : Test!TestPhases, ami : Nat, deps : {test.deps},
                     suite : [Suites -> Test!SuitePhases]]
      /\ test'.phase = phase /\ test'.ami = test.ami /\ test'.suite = test.suite
  BY <1>1, <1>3, <1>4
<1> QED BY <1>2, <1>3, <1>4, <1>5, TestKeeps

(* A pass of handle_running that gets as far as the suites and a phase. *)
LEMMA TestPassKeeps ==
  ASSUME TestInv, test.phase = "Running", faults' \in 0 .. MaxFaults,
         NEW refused \in SUBSET Suites, jobs' = Test!Created(refused),
         NEW suite \in {test.suite, Test!Results(refused)},
         NEW phase \in {"Running", "Passed", "Cleaning", "Failed"},
         phase = "Passed" => \A s \in Suites : suite[s] = "Succeeded",
         test' = [test EXCEPT !.suite = suite, !.phase = phase]
  PROVE  TestInv'
<1> DEFINE made == Test!Created(refused)
           result == Test!Results(refused)
<1>1. /\ made \in [Suites -> Jobs] /\ result \in [Suites -> Test!SuitePhases]
      /\ \A s \in Suites : test.suite[s] = "Succeeded" \/ result[s] = "Succeeded"
                             => made[s].state = "Succeeded"
      /\ \A s \in Suites : made[s] # Test!NoJob =>
           /\ made[s].ami = test.ami
           /\ \A d \in test.deps[s] : d \in Suites /\ made[d].state = "Succeeded"
  BY PassKeeps
<1> HIDE DEF made, result
<1>2. suite \in {test.suite, result} /\ jobs' = made
  BY DEF made, result
<1>3. /\ test.suite \in [Suites -> Test!SuitePhases] /\ test.ami \in Nat
  BY TestTypes
<1>4. phase \in Test!TestPhases
  BY DEF Test!TestPhases
<1>5. test.ami # 0
  BY DEF TestInv
<1>6. test' = [phase |-> phase, ami |-> test.ami, deps |-> test.deps, suite |-> suite]
  <2> DEFINE first == [test EXCEPT !.suite = suite]
  <2>1. first = [phase |-> test.phase, ami |-> test.ami, deps |-> test.deps, suite |-> suite]
    BY TestTypes
  <2>2. test' = [first EXCEPT !.phase = phase]
    OBVIOUS
  <2> HIDE DEF first
  <2> QED BY <2>1, <2>2
<1>7. suite \in [Suites -> Test!SuitePhases]
      /\ \A s \in Suites : suite[s] = "Succeeded" => made[s].state = "Succeeded"
  BY <1>1, <1>2, <1>3
<1>8. /\ jobs' \in [Suites -> Jobs]
      /\ \A s \in Suites : suite[s] = "Succeeded" => jobs'[s].state = "Succeeded"
      /\ \A s \in Suites : jobs'[s] # Test!NoJob =>
           /\ jobs'[s].ami = test.ami
           /\ \A d \in test.deps[s] : d \in Suites /\ jobs'[d].state = "Succeeded"
  BY <1>1, <1>2, <1>7
<1>9. /\ phase \in {"None", "Pending", "Resolving"} => \A s \in Suites : jobs'[s] = Test!NoJob
      /\ phase \in {"Running", "Passed", "Cleaning"} => test.ami # 0
  BY <1>4, <1>5
<1>10. /\ test' \in [phase : Test!TestPhases, ami : Nat, deps : {test.deps},
                      suite : [Suites -> Test!SuitePhases]]
       /\ test'.phase = phase /\ test'.ami = test.ami /\ test'.suite = suite
  BY <1>3, <1>4, <1>6, <1>7
<1> QED BY <1>4, <1>8, <1>9, <1>10, TestKeeps

(* Everybody else leaves the test as it is. *)
LEMMA TestFrame ==
  ASSUME TestInv, UNCHANGED testVars, faults' \in 0 .. MaxFaults
  PROVE  TestInv'
BY DEF TestInv, testVars, Test!TypeOK, Test!NoJob, Test!TestPhases, Test!SuitePhases

(* Every step of the AmiTest, and of a Job, keeps TestInv. *)
LEMMA TestStep ==
  ASSUME BuildInv, TestInv, Test!Next
  PROVE  TestInv'
<1> USE Bounds
<1>0. faults \in 0 .. MaxFaults
  BY TestTypes
<1>1. CASE Test!HandlePending
  <2>1. test.phase = "Pending" /\ jobs' = jobs /\ faults' = faults
        /\ \E phase \in {"Resolving", "Failed"} : test' = [test EXCEPT !.phase = phase]
    BY <1>1 DEF Test!HandlePending, Test!To
  <2> QED BY <1>0, <2>1, TestMovesTo
<1>2. CASE Test!HandleResolving
  <2>1. CASE test' = [test EXCEPT !.phase = "Failed"]
    BY <1>0, <1>2, <2>1, TestMovesTo DEF Test!HandleResolving
  <2>2. CASE /\ build.phase = "Ready"
             /\ test' = [test EXCEPT !.phase = "Running", !.ami = build.ami,
                                     !.suite = [s \in Suites |-> "Pending"]]
    <3> DEFINE suite == [s \in Suites |-> "Pending"]
    <3>1. test' = [phase |-> "Running", ami |-> build.ami, deps |-> test.deps, suite |-> suite]
      <4> DEFINE t1 == [test EXCEPT !.phase = "Running"]
                 t2 == [t1 EXCEPT !.ami = build.ami]
      <4>1. t1 = [phase |-> "Running", ami |-> test.ami, deps |-> test.deps, suite |-> test.suite]
        BY TestTypes
      <4>2. t2 = [phase |-> "Running", ami |-> build.ami, deps |-> test.deps, suite |-> test.suite]
        <5> HIDE DEF t1
        <5> QED BY <4>1
      <4>3. test' = [t2 EXCEPT !.suite = suite]
        BY <2>2
      <4> HIDE DEF t1, t2, suite
      <4> QED BY <4>2, <4>3
    <3>2. build.ami \in New
      BY <2>2, ReadyIsNew
    <3>3. build.ami \in Nat /\ build.ami # 0
      BY <3>2 DEF New
    <3>4. suite \in [Suites -> Test!SuitePhases] /\ \A s \in Suites : suite[s] # "Succeeded"
      BY DEF Test!SuitePhases
    <3>5. jobs' = jobs /\ faults' = faults /\ \A s \in Suites : jobs[s] = Test!NoJob
      BY <1>2 DEF Test!HandleResolving, TestInv
    <3> HIDE DEF suite
    <3>6. /\ test' \in [phase : Test!TestPhases, ami : Nat, deps : {test.deps},
                        suite : [Suites -> Test!SuitePhases]]
          /\ test'.phase = "Running" /\ test'.ami = build.ami /\ test'.suite = suite
      BY <3>1, <3>3, <3>4 DEF Test!TestPhases
    <3>7. jobs' \in [Suites -> Jobs]
      BY <3>5, TestTypes
    <3> QED BY <1>0, <3>3, <3>4, <3>5, <3>6, <3>7, TestKeeps
  <2> QED BY <1>2, <2>1, <2>2 DEF Test!HandleResolving, Test!To
<1>3. CASE Test!HandleRunning
  <2> DEFINE suite == Test!Results({})
  <2>1. test.phase = "Running" /\ jobs' = Test!Created({}) /\ faults' = faults
        /\ test' = [test EXCEPT !.suite = suite, !.phase = Test!Verdict(suite)]
    BY <1>3 DEF Test!HandleRunning
  <2> QED BY <1>0, <2>1, VerdictIs, TestPassKeeps
<1>4. CASE Test!HandleRunningFaulty
  <2>0. test.phase = "Running" /\ faults' \in 0 .. MaxFaults
    <3>1. test.phase = "Running" /\ faults < MaxFaults /\ faults' = faults + 1
      BY <1>4 DEF Test!HandleRunningFaulty, Test!Fault
    <3> QED BY <1>0, <3>1
  <2>1. ASSUME NEW s \in Test!Launchable, jobs' = Test!Created({s}),
               test' = [test EXCEPT !.suite = Test!Results({s}), !.phase = Test!Verdict(Test!Results({s}))]
        PROVE  TestInv'
    <3>1. {s} \in SUBSET Suites
      BY DEF Test!Launchable
    <3> QED BY <2>0, <2>1, <3>1, VerdictIs, TestPassKeeps
  <2>2. ASSUME jobs' = Test!Created({}), NEW suite \in {test.suite, Test!Results({})},
               NEW phase \in {"Running", "Failed"},
               test' = [test EXCEPT !.suite = suite, !.phase = phase]
        PROVE  TestInv'
    BY <2>0, <2>2, TestPassKeeps
  <2>3. CASE jobs' = Test!Created({}) /\ UNCHANGED test
    <3>1. test' = [test EXCEPT !.suite = test.suite, !.phase = "Running"]
      <4> DEFINE first == [test EXCEPT !.suite = test.suite]
      <4>1. first = test
        BY TestTypes
      <4>2. [first EXCEPT !.phase = "Running"] = test
        BY <2>0, <4>1, TestTypes
      <4> QED BY <2>3, <4>2
    <3> QED BY <2>2, <2>3, <3>1
  <2>4. CASE jobs' = Test!Created({}) /\ test' = [test EXCEPT !.suite = Test!Results({})]
    <3> DEFINE first == [test EXCEPT !.suite = Test!Results({})]
    <3>1. first.phase = "Running" /\ first = [first EXCEPT !.phase = "Running"]
      BY <2>0, TestTypes
    <3>2. test' = [test EXCEPT !.suite = Test!Results({}), !.phase = "Running"]
      BY <2>4, <3>1
    <3> QED BY <2>2, <2>4, <3>2
  <2>5. CASE /\ jobs' = Test!Created({})
             /\ \E suite \in {test.suite, Test!Results({})} :
                  test' = [test EXCEPT !.suite = suite, !.phase = "Failed"]
    BY <2>2, <2>5
  <2> QED BY <1>4, <2>1, <2>3, <2>4, <2>5 DEF Test!HandleRunningFaulty
<1>5. CASE Test!HandlerFails
  <2>1. faults' \in 0 .. MaxFaults /\ jobs' = jobs /\ test' = [test EXCEPT !.phase = "Failed"]
    BY <1>0, <1>5 DEF Test!HandlerFails, Test!Fault, Test!To
  <2> QED BY <2>1, TestMovesTo
<1>6. CASE Test!HandleCleaning
  BY <1>0, <1>6, TestMovesTo DEF Test!HandleCleaning, Test!To
<1>7. CASE Test!JobEnds
  <2>1. PICK s \in Suites, end \in {"Succeeded", "Failed"} :
          jobs[s].state = "Running" /\ jobs' = [jobs EXCEPT ![s].state = end] /\ UNCHANGED <<test, faults>>
    BY <1>7 DEF Test!JobEnds
  <2>2. jobs \in [Suites -> Jobs]
    BY TestTypes
  <2>3. /\ jobs' = [jobs EXCEPT ![s] = [state |-> end, ami |-> jobs[s].ami]]
        /\ [state |-> end, ami |-> jobs[s].ami] \in Jobs
    <3>1. jobs[s] \in Jobs
      BY <2>2
    <3>2. [jobs[s] EXCEPT !.state = end] = [state |-> end, ami |-> jobs[s].ami]
          /\ [state |-> end, ami |-> jobs[s].ami] \in Jobs
      BY <3>1 DEF Jobs, JobStates
    <3>3. jobs' = [jobs EXCEPT ![s] = [jobs[s] EXCEPT !.state = end]]
      BY <2>1, Zenon
    <3> QED BY <3>2, <3>3
  <2>4. /\ jobs' \in [Suites -> Jobs]
        /\ \A t \in Suites : jobs'[t].ami = jobs[t].ami
        /\ \A t \in Suites \ {s} : jobs'[t] = jobs[t]
    BY <2>2, <2>3
  <2>5. jobs[s] # Test!NoJob
    BY <2>1 DEF Test!NoJob
  <2>6. /\ \A t \in Suites : test.suite[t] = "Succeeded" => jobs[t].state = "Succeeded"
        /\ \A t \in Suites : jobs[t] # Test!NoJob =>
             /\ jobs[t].ami = test.ami
             /\ \A d \in test.deps[t] : d \in Suites /\ jobs[d].state = "Succeeded"
        /\ test.phase \notin {"None", "Pending", "Resolving"}
        /\ (test.phase \in {"Running", "Passed", "Cleaning"} => test.ami # 0)
        /\ (test.phase = "Passed" => \A t \in Suites : test.suite[t] = "Succeeded")
    BY <2>5 DEF TestInv
  <2>7. \A t \in Suites : jobs[t].state = "Succeeded" => jobs'[t].state = "Succeeded"
    BY <2>1, <2>4
  <2>8. \A t \in Suites : jobs'[t] # Test!NoJob => jobs[t] # Test!NoJob
    BY <2>4, <2>5
  <2>9. test' = test /\ test' \in [phase : Test!TestPhases, ami : Nat, deps : {test.deps},
                                   suite : [Suites -> Test!SuitePhases]]
    BY <2>1, TestTypes
  <2> QED BY <1>0, <2>1, <2>4, <2>6, <2>7, <2>8, <2>9, TestKeeps
<1> QED BY <1>1, <1>2, <1>3, <1>4, <1>5, <1>6, <1>7 DEF Test!Next, Test!Handle

(* The image of the test changes only when it is resolved, and a Passed test is   *)
(* left alone.                                                                    *)
LEMMA TestMoves ==
  ASSUME TestInv, Test!Next
  PROVE  /\ test'.ami = test.ami \/ (build.phase = "Ready" /\ test'.ami = build.ami)
         /\ test.phase = "Passed" => test' = test
<1>1. CASE Test!HandlePending \/ Test!HandlerFails \/ Test!HandleCleaning
  <2>1. test.phase # "Passed" /\ \E phase \in Test!TestPhases : test' = [test EXCEPT !.phase = phase]
    BY <1>1 DEF Test!HandlePending, Test!HandlerFails, Test!HandleCleaning, Test!To, Test!TestPhases
  <2> QED BY <2>1, TestTypes
<1>2. CASE Test!HandleResolving
  <2>1. CASE Test!To("Failed")
    BY <1>2, <2>1, TestTypes DEF Test!To, Test!HandleResolving
  <2>2. CASE /\ build.phase = "Ready"
             /\ test' = [test EXCEPT !.phase = "Running", !.ami = build.ami,
                                     !.suite = [s \in Suites |-> "Pending"]]
    <3> DEFINE t1 == [test EXCEPT !.phase = "Running"]
               t2 == [t1 EXCEPT !.ami = build.ami]
    <3>1. t1 = [phase |-> "Running", ami |-> test.ami, deps |-> test.deps, suite |-> test.suite]
      BY TestTypes
    <3>2. t2 = [phase |-> "Running", ami |-> build.ami, deps |-> test.deps, suite |-> test.suite]
      <4> HIDE DEF t1
      <4> QED BY <3>1
    <3>3. test' = [t2 EXCEPT !.suite = [s \in Suites |-> "Pending"]]
      BY <2>2
    <3> HIDE DEF t1, t2
    <3>4. test'.ami = build.ami
      BY <3>2, <3>3
    <3> QED BY <1>2, <2>2, <3>4 DEF Test!HandleResolving
  <2> QED BY <1>2, <2>1, <2>2 DEF Test!HandleResolving
<1>3. CASE Test!HandleRunning \/ Test!HandleRunningFaulty
  <2>1. ASSUME NEW suite, NEW phase, test' = [test EXCEPT !.suite = suite, !.phase = phase]
        PROVE  test'.ami = test.ami
    <3> DEFINE first == [test EXCEPT !.suite = suite]
    <3>1. first = [phase |-> test.phase, ami |-> test.ami, deps |-> test.deps, suite |-> suite]
      BY TestTypes
    <3>2. test' = [first EXCEPT !.phase = phase]
      BY <2>1
    <3> HIDE DEF first
    <3> QED BY <3>1, <3>2
  <2>2. ASSUME NEW suite, test' = [test EXCEPT !.suite = suite]
        PROVE  test'.ami = test.ami
    BY <2>2, TestTypes
  <2>3. test.phase = "Running"
    BY <1>3 DEF Test!HandleRunning, Test!HandleRunningFaulty
  <2>4. \/ test' = test
        \/ \E suite, phase : test' = [test EXCEPT !.suite = suite, !.phase = phase]
        \/ \E suite : test' = [test EXCEPT !.suite = suite]
    BY <1>3, Zenon DEF Test!HandleRunning, Test!HandleRunningFaulty
  <2> QED BY <2>1, <2>2, <2>3, <2>4
<1>4. CASE Test!JobEnds
  BY <1>4 DEF Test!JobEnds
<1> QED BY <1>1, <1>2, <1>3, <1>4 DEF Test!Next, Test!Handle

--------------------------------------------------------------------------------
(* The pipeline and the template, while a build, a test or a Job moves. *)

(* A promise that an image was tested outlives every step of the two children. *)
LEMMA TestedStays ==
  ASSUME Tested, UNCHANGED <<conf, pipe>>, build'.gen <= 1 => build.gen <= 1,
         test.phase = "Passed" => test' = test
  PROVE  Tested'
BY DEF Tested

(* A step of another controller leaves the pending writes owing what they owe: it changes no
   image the pipeline has taken, and what was ready or passed stays so. *)
LEMMA TodoFrame ==
  ASSUME TodoInv, UNCHANGED <<conf, pipe, rec, seen>>, applied \subseteq applied',
         tmpl'.want = tmpl.want, tmpl.made = tmpl.want => tmpl'.made = tmpl.made,
         build'.gen <= 1 => build.gen <= 1,
         build'.gen <= 1 /\ build.phase = "Ready" => build' = build,
         test.phase = "Passed" => test' = test
  PROVE  TodoInv'
<1> USE DEF W, Hashes, Images, New, OldImage
<1>1. ASSUME rec = Idle PROVE rec' = Idle'
  BY <1>1 DEF Idle, NewPipe, NoHash, NoImage
<1>2. ASSUME Fails PROVE Fails'
  BY <1>2 DEF Fails
<1>3. ASSUME Creates PROVE Creates'
  BY <1>3 DEF Creates
<1>4. ASSUME Takes PROVE Takes'
  BY <1>4 DEF Takes, Afterwards
<1>5. ASSUME Took PROVE Took'
  BY <1>5 DEF Took, Afterwards
<1>6. ASSUME Tests PROVE Tests'
  <2>1. Tested => Tested'
    BY TestedStays
  <2> QED BY <1>6, <2>1 DEF Tests
<1>7. ASSUME Plans PROVE Plans'
  BY <1>7 DEF Plans
<1>8. ASSUME Captures PROVE Captures'
  BY <1>8 DEF Captures
<1>9. ASSUME Approved PROVE Approved'
  BY <1>9 DEF Approved
<1>10. ASSUME Applies PROVE Applies'
  BY <1>10 DEF Applies
<1>11. ASSUME Verifies PROVE Verifies'
  BY <1>11 DEF Verifies
<1>12. ASSUME Reverts PROVE Reverts'
  BY <1>12 DEF Reverts
<1> QED BY <1>1, <1>2, <1>3, <1>4, <1>5, <1>6, <1>7, <1>8, <1>9, <1>10, <1>11, <1>12 DEF TodoInv

(* The claims a pipeline's phase makes survive a step that leaves the pipeline and the
   template's variable alone. *)
LEMMA PipeFrame ==
  ASSUME PipeInv, UNCHANGED <<conf, pipe, rec, seen>>, applied \subseteq applied',
         tmpl'.want = tmpl.want, Tested => Tested'
  PROVE  PipeInv'
BY DEF PipeInv, Pipes, PipePhases, Hashes, Images, New, OldImage, NoHash, NoImage, Undone, Early

(* The claims about the template survive a step that leaves the template alone. *)
LEMMA TmplFrame ==
  ASSUME TmplInv, UNCHANGED <<conf, pipe, tmpl, plan, live, applied, drifts>>, seen' = seen,
         Tested => Tested'
  PROVE  TmplInv'
BY DEF TmplInv, TmplPhases, Hashes, Images, OldImage, NoHash, NoImage, Undone, Early, Trusted, Earlier

(* A step of the PackerBuild. *)
LEMMA BuildMovesKeep ==
  ASSUME IInv, Build!Next, UNCHANGED <<testVars, pipeVars, tmplVars>>
  PROVE  IInv'
<1>1. BuildInv' /\ faults' \in 0 .. MaxFaults
  <2>1. BuildInv'
    BY BuildStep DEF IInv
  <2> QED BY <2>1 DEF BuildInv, Build!TypeOK
<1>2. TestInv'
  BY <1>1, TestFrame DEF IInv
<1>3. build'.gen >= build.gen /\ build.gen \in Nat /\ build'.gen \in Nat
      /\ (build'.gen <= 1 /\ build.phase = "Ready" => build' = build)
  <2>1. build.gen \in Nat
    BY BuildTypes, Bounds DEF IInv
  <2>2. build'.gen \in Nat
    BY <1>1, Bounds DEF BuildInv, Build!TypeOK, Build!Objects
  <2> QED BY <2>1, <2>2, ReadyStays DEF IInv
<1>4. /\ conf' = conf /\ pipe' = pipe /\ rec' = rec /\ seen' = seen /\ tmpl' = tmpl /\ plan' = plan
      /\ live' = live /\ applied' = applied /\ drifts' = drifts /\ test' = test
      /\ (build'.gen <= 1 => build.gen <= 1)
  BY <1>3 DEF testVars, pipeVars, tmplVars
<1>5. SourceInv'
  BY <1>3, <1>4 DEF IInv, SourceInv
<1>6. TodoInv'
  BY <1>3, <1>4, TodoFrame DEF IInv
<1>7. Tested => Tested'
  BY <1>4, TestedStays
<1>8. PipeInv' /\ TmplInv'
  BY <1>4, <1>7, PipeFrame, TmplFrame DEF IInv
<1> QED BY <1>1, <1>2, <1>5, <1>6, <1>8 DEF IInv

(* A step of the AmiTest. *)
LEMMA TestMovesKeep ==
  ASSUME IInv, Test!Next, UNCHANGED <<disk, images, copy, pipeVars, tmplVars>>
  PROVE  IInv'
<1>1. build' = build
  BY DEF Test!Next
<1>2. TestInv' /\ faults' \in 0 .. MaxFaults
  <2>1. TestInv'
    BY TestStep DEF IInv
  <2> QED BY <2>1 DEF TestInv, Test!TypeOK
<1>3. BuildInv'
  BY <1>1, <1>2, BuildFrame DEF IInv, buildVars
<1>4. /\ test'.ami = test.ami \/ (build.phase = "Ready" /\ test'.ami = build.ami)
      /\ test.phase = "Passed" => test' = test
  BY TestMoves DEF IInv
<1>5. /\ conf' = conf /\ pipe' = pipe /\ rec' = rec /\ seen' = seen /\ tmpl' = tmpl /\ plan' = plan
      /\ live' = live /\ applied' = applied /\ drifts' = drifts
  BY DEF pipeVars, tmplVars
<1>6. SourceInv'
  BY <1>1, <1>4, <1>5 DEF IInv, SourceInv
<1>7. TodoInv'
  BY <1>1, <1>4, <1>5, TodoFrame DEF IInv
<1>8. Tested => Tested'
  BY <1>1, <1>4, <1>5, TestedStays
<1>9. PipeInv' /\ TmplInv'
  BY <1>5, <1>8, PipeFrame, TmplFrame DEF IInv
<1> QED BY <1>2, <1>3, <1>6, <1>7, <1>9 DEF IInv

--------------------------------------------------------------------------------
(* The template. *)

(* A step of the template or of the infrastructure leaves the rest alone: what is *)
(* left to show is TmplInv.                                                       *)
LEMMA SettledKeeps ==
  ASSUME IInv, Settled, faults' \in 0 .. MaxFaults, applied \subseteq applied',
         tmpl'.want = tmpl.want, tmpl.made = tmpl.want => tmpl'.made = tmpl.made
  PROVE  BuildInv' /\ TestInv' /\ SourceInv' /\ TodoInv' /\ PipeInv' /\ (Tested => Tested')
<1>1. /\ UNCHANGED buildVars /\ UNCHANGED testVars /\ conf' = conf /\ pipe' = pipe /\ rec' = rec
      /\ seen' = seen /\ build' = build /\ test' = test
  BY DEF Settled, buildVars, testVars, pipeVars
<1>2. BuildInv' /\ TestInv'
  BY <1>1, BuildFrame, TestFrame DEF IInv
<1>3. SourceInv'
  BY <1>1 DEF IInv, SourceInv
<1>4. TodoInv'
  BY <1>1, TodoFrame DEF IInv
<1>5. Tested => Tested'
  BY <1>1, TestedStays
<1>6. PipeInv'
  BY <1>1, <1>5, PipeFrame DEF IInv
<1> QED BY <1>2, <1>3, <1>4, <1>5, <1>6

Tmpls == [want : Images, made : Images, phase : TmplPhases, pend : Hashes, ok : Hashes]

(* The fields of the template and of its planning pass, one by one. *)
LEMMA TmplTypes ==
  ASSUME TmplInv
  PROVE  /\ tmpl \in Tmpls /\ plan \in [on : BOOLEAN, hash : Hashes, ok : BOOLEAN]
         /\ tmpl.want \in Images /\ tmpl.made \in Images /\ tmpl.phase \in TmplPhases
         /\ tmpl.pend \in Hashes /\ tmpl.ok \in Hashes /\ plan.hash \in Hashes
         /\ live \in Hashes /\ live[1] \in Images /\ drifts \in 0 .. MaxDrift
         /\ NoHash \in Hashes /\ NoHash[1] = 0 /\ Earlier \in Hashes /\ Earlier[1] = OldImage
BY Bounds DEF TmplInv, Tmpls, Hashes, Images, NoHash, NoImage, Earlier

(* The step to show, with the constants of TmplInv in the place of their primes. *)
LEMMA TmplKeeps ==
  ASSUME conf' = conf, pipe' = pipe, seen' = seen, Tested => Tested', tmpl' \in Tmpls,
         plan' \in [on : BOOLEAN, hash : Hashes, ok : BOOLEAN],
         live' \in Hashes, live'[1] # 0, seen \subseteq Hashes, drifts' \in 0 .. MaxDrift,
         applied' \subseteq {OldImage, pipe.ami}, 0 \notin applied', applied' \subseteq Images,
         tmpl'.want \in {OldImage, pipe.ami}, tmpl'.made \in {OldImage, pipe.ami},
         tmpl'.want # 0, tmpl'.made # 0,
         pipe.phase \in Early => tmpl'.want = OldImage /\ applied' \subseteq {OldImage},
         tmpl'.want = OldImage /\ pipe.phase \notin Undone => tmpl'.made = OldImage,
         conf.target = "auto" /\ plan'.on => plan'.ok,
         ~conf.used /\ conf.target = "auto" => tmpl'.pend = NoHash,
         ~conf.used /\ conf.target # "auto" /\ tmpl'.made = OldImage /\ pipe.phase \notin Undone =>
           /\ tmpl'.pend = NoHash /\ ~plan'.on
           /\ tmpl'.phase \in {"Ready", "Drifted"} \/ (tmpl'.phase = "Failed" /\ tmpl'.want # OldImage),
         ~conf.used /\ pipe.phase \in {"AwaitingApproval", "Applying"} =>
           tmpl'.made = pipe.ami /\ tmpl'.want = pipe.ami,
         live'[1] \in {OldImage} \cup applied',
         plan'.on => plan'.hash[1] \in {OldImage} \cup applied',
         tmpl'.phase \in {"Ready", "Drifted"} => tmpl'.made \in {OldImage} \cup applied',
         tmpl'.ok # NoHash => tmpl'.ok \in Trusted,
         plan'.on /\ plan'.ok => plan'.hash \in Trusted \/ conf.target = "auto",
         (tmpl'.made # OldImage \/ \E a \in applied' : a # OldImage) => Tested
  PROVE  TmplInv'
BY DEF TmplInv, Tmpls, TmplPhases, Hashes, Images, OldImage, NoHash, NoImage, Undone, Early, Trusted, Earlier

(* Only the phase of the template changes, to one that claims nothing new. *)
LEMMA PhaseKeeps ==
  ASSUME IInv, Settled, ~plan.on, plan' = plan, live' = live, applied' = applied, drifts' = drifts,
         faults' \in 0 .. MaxFaults, NEW to \in {"Planning", "Drifted", "Failed"},
         tmpl' = [tmpl EXCEPT !.phase = to],
         to = "Drifted" => tmpl.phase = "Ready",
         to = "Failed" => tmpl.phase = "Applying" \/ tmpl.made # tmpl.want,
         to = "Planning" =>
           \/ tmpl.phase = "Failed" /\ tmpl.made = tmpl.want
           \/ conf.target = "auto" \/ tmpl.pend # NoHash
  PROVE  IInv'
<1> USE DEF IInv
<1>1. tmpl' = [want |-> tmpl.want, made |-> tmpl.made, phase |-> to, pend |-> tmpl.pend, ok |-> tmpl.ok]
  BY TmplTypes DEF Tmpls
<1>2. tmpl'.want = tmpl.want /\ tmpl'.made = tmpl.made /\ tmpl'.phase = to
      /\ tmpl'.pend = tmpl.pend /\ tmpl'.ok = tmpl.ok /\ conf' = conf /\ pipe' = pipe /\ seen' = seen
  BY <1>1 DEF Settled, pipeVars
<1>3. tmpl' \in Tmpls
  BY <1>1, TmplTypes DEF Tmpls, TmplPhases
<1>4. BuildInv' /\ TestInv' /\ SourceInv' /\ TodoInv' /\ PipeInv' /\ (Tested => Tested')
  BY <1>2, SettledKeeps
<1>5. TmplInv'
  BY <1>2, <1>3, <1>4, TmplKeeps DEF TmplInv
<1> QED BY <1>4, <1>5

(* The template renders the image its variable names and goes to Planning. *)
LEMMA NoticeKeeps ==
  ASSUME IInv, Notice
  PROVE  IInv'
<1> USE DEF IInv
<1>0. CASE conf.target = "broken"
  <2>1. tmpl' = [tmpl EXCEPT !.phase = "Failed"] /\ tmpl.made # tmpl.want /\ ~plan.on
    BY <1>0 DEF Notice
  <2> QED BY <2>1, TestTypes, PhaseKeeps DEF Notice
<1> SUFFICES ASSUME conf.target # "broken"
             PROVE  IInv'
  BY <1>0
<1>1. /\ ~plan.on /\ tmpl.made # tmpl.want /\ Settled /\ plan' = plan /\ live' = live /\ conf' = conf
      /\ applied' = applied /\ drifts' = drifts /\ faults' = faults /\ pipe' = pipe /\ seen' = seen
      /\ tmpl' = [tmpl EXCEPT !.made = tmpl.want, !.phase = "Planning"]
  BY DEF Notice, Settled, pipeVars
<1>2. tmpl' = [want |-> tmpl.want, made |-> tmpl.want, phase |-> "Planning", pend |-> tmpl.pend, ok |-> tmpl.ok]
  <2> DEFINE first == [tmpl EXCEPT !.made = tmpl.want]
  <2>1. first = [want |-> tmpl.want, made |-> tmpl.want, phase |-> tmpl.phase, pend |-> tmpl.pend, ok |-> tmpl.ok]
    BY TmplTypes DEF Tmpls
  <2>2. tmpl' = [first EXCEPT !.phase = "Planning"]
    BY <1>1
  <2> HIDE DEF first
  <2> QED BY <2>1, <2>2
<1>3. tmpl'.want = tmpl.want /\ tmpl'.made = tmpl.want /\ tmpl'.phase = "Planning"
      /\ tmpl'.pend = tmpl.pend /\ tmpl'.ok = tmpl.ok
  BY <1>2
<1>4. tmpl' \in Tmpls
  BY <1>2, TmplTypes DEF Tmpls, TmplPhases
<1>5. BuildInv' /\ TestInv' /\ SourceInv' /\ TodoInv' /\ PipeInv' /\ (Tested => Tested')
  BY <1>1, <1>3, TestTypes, SettledKeeps
<1>6. tmpl.want # OldImage => Tested
  BY DEF PipeInv
<1>7. TmplInv'
  BY <1>1, <1>3, <1>4, <1>5, <1>6, TmplKeeps DEF TmplInv
<1> QED BY <1>5, <1>7

(* A planning pass begins and compares its plan with the approval it reads. *)
LEMMA PlanStartKeeps ==
  ASSUME IInv, PlanStart
  PROVE  IInv'
<1> USE DEF IInv
<1>1. /\ ~plan.on /\ tmpl.phase = "Planning" /\ Settled /\ tmpl' = tmpl /\ live' = live
      /\ applied' = applied /\ drifts' = drifts /\ faults' = faults /\ pipe' = pipe /\ seen' = seen
      /\ conf' = conf /\ plan' = [on |-> TRUE, hash |-> live, ok |-> conf.target = "auto" \/ tmpl.ok = live]
  BY DEF PlanStart, Settled, pipeVars
<1>2. plan'.on /\ plan'.hash = live /\ (plan'.ok <=> conf.target = "auto" \/ tmpl.ok = live)
      /\ plan' \in [on : BOOLEAN, hash : Hashes, ok : BOOLEAN]
  BY <1>1, TmplTypes
<1>3. BuildInv' /\ TestInv' /\ SourceInv' /\ TodoInv' /\ PipeInv' /\ (Tested => Tested')
  BY <1>1, TestTypes, SettledKeeps
<1>4. live # NoHash
  BY TmplTypes DEF TmplInv
<1>5. TmplInv'
  BY <1>1, <1>2, <1>3, <1>4, TmplTypes, TmplKeeps DEF TmplInv
<1> QED BY <1>3, <1>5

(* A planning pass ends: nothing to do, an approved plan, or a plan shown for approval. *)
LEMMA PlanEndKeeps ==
  ASSUME IInv, PlanEnd
  PROVE  IInv'
<1> USE DEF IInv
<1>1. /\ plan.on /\ Settled /\ plan' = NoPlan /\ live' = live /\ conf' = conf
      /\ applied' = applied /\ drifts' = drifts /\ faults' = faults /\ pipe' = pipe /\ seen' = seen
  BY DEF PlanEnd, Settled, pipeVars
<1>2. /\ ~plan'.on /\ plan' \in [on : BOOLEAN, hash : Hashes, ok : BOOLEAN]
  BY <1>1, TmplTypes DEF NoPlan
<1>3. /\ tmpl'.want = tmpl.want /\ tmpl'.made = tmpl.made /\ tmpl' \in Tmpls
      /\ tmpl'.phase \in {"Ready", "Applying", tmpl.phase}
      /\ tmpl'.phase # tmpl.phase /\ tmpl'.phase = "Ready" => plan.hash[1] = tmpl.made
      /\ tmpl'.ok \in {tmpl.ok, NoHash} /\ (plan.ok => tmpl'.pend = tmpl.pend)
  <2>1. CASE plan.hash = Target /\ tmpl' = [tmpl EXCEPT !.phase = "Ready"]
    BY <2>1, TmplTypes DEF Target, Tmpls, TmplPhases
  <2>2. CASE tmpl' = [tmpl EXCEPT !.phase = "Applying"]
    BY <2>2, TmplTypes DEF Tmpls, TmplPhases
  <2>3. CASE ~plan.ok /\ tmpl' = [tmpl EXCEPT !.pend = plan.hash, !.ok = NoHash]
    <3> DEFINE first == [tmpl EXCEPT !.pend = plan.hash]
    <3>1. first = [want |-> tmpl.want, made |-> tmpl.made, phase |-> tmpl.phase, pend |-> plan.hash, ok |-> tmpl.ok]
      BY TmplTypes DEF Tmpls
    <3>2. tmpl' = [first EXCEPT !.ok = NoHash]
      BY <2>3
    <3> HIDE DEF first
    <3>3. tmpl' = [want |-> tmpl.want, made |-> tmpl.made, phase |-> tmpl.phase, pend |-> plan.hash, ok |-> NoHash]
      BY <3>1, <3>2
    <3>4. tmpl' \in Tmpls
      BY <3>3, TmplTypes DEF Tmpls
    <3> QED BY <2>3, <3>3, <3>4
  <2>4. plan.on \in BOOLEAN /\ plan.ok \in BOOLEAN
    BY TmplTypes
  <2> QED BY <2>1, <2>2, <2>3, <2>4 DEF PlanEnd
<1>4. BuildInv' /\ TestInv' /\ SourceInv' /\ TodoInv' /\ PipeInv' /\ (Tested => Tested')
  BY <1>1, <1>3, TestTypes, SettledKeeps
<1>5. /\ conf.target = "auto" => plan.ok
      /\ ~conf.used /\ conf.target # "auto" => ~(tmpl.made = OldImage /\ pipe.phase \notin Undone)
  BY <1>1 DEF TmplInv
<1>6. TmplInv'
  BY <1>1, <1>2, <1>3, <1>4, <1>5, TmplKeeps DEF TmplInv
<1> QED BY <1>4, <1>6

(* The template applies the approved plan, or fails to. *)
LEMMA ApplyKeeps ==
  ASSUME IInv, Apply
  PROVE  IInv'
<1> USE DEF IInv
<1>1. ~plan.on /\ tmpl.phase = "Applying" /\ Settled /\ plan' = plan /\ drifts' = drifts
      /\ conf' = conf /\ pipe' = pipe /\ seen' = seen
  BY DEF Apply, Settled, pipeVars
<1>2. CASE faults < MaxFaults /\ faults' = faults + 1 /\ tmpl' = [tmpl EXCEPT !.phase = "Failed"]
           /\ live' = live /\ applied' = applied
  <2>1. faults' \in 0 .. MaxFaults
    BY <1>2, TestTypes, Bounds
  <2> QED BY <1>1, <1>2, <2>1, PhaseKeeps
<1>3. CASE /\ live' = Target /\ applied' = applied \cup {tmpl.made} /\ faults' = faults
           /\ tmpl' = [tmpl EXCEPT !.phase = "Ready"]
  <2>1. tmpl' = [want |-> tmpl.want, made |-> tmpl.made, phase |-> "Ready", pend |-> tmpl.pend, ok |-> tmpl.ok]
    BY <1>3, TmplTypes DEF Tmpls
  <2>2. /\ tmpl'.want = tmpl.want /\ tmpl'.made = tmpl.made /\ tmpl'.phase = "Ready"
        /\ tmpl'.pend = tmpl.pend /\ tmpl'.ok = tmpl.ok
    BY <2>1
  <2>3. tmpl' \in Tmpls
    BY <2>1, TmplTypes DEF Tmpls, TmplPhases
  <2>4. BuildInv' /\ TestInv' /\ SourceInv' /\ TodoInv' /\ PipeInv' /\ (Tested => Tested')
    BY <1>1, <1>3, <2>2, TestTypes, SettledKeeps
  <2>5. live' \in Hashes /\ live'[1] = tmpl.made
    BY <1>3, TmplTypes, Bounds DEF Target, Hashes, Images
  <2>6. pipe.phase \in Early => tmpl.want = OldImage /\ applied' \subseteq {OldImage}
    <3>1. pipe.phase \in Early => pipe.phase \notin Undone
      BY DEF Early, Undone
    <3> QED BY <1>3, <3>1 DEF TmplInv
  <2>7. /\ applied' \subseteq {OldImage, pipe.ami} /\ 0 \notin applied' /\ applied' \subseteq Images
        /\ ((tmpl'.made # OldImage \/ \E a \in applied' : a # OldImage) => Tested)
    BY <1>3, <2>2, TmplTypes DEF TmplInv
  <2>8. /\ tmpl.want \in {OldImage, pipe.ami} /\ tmpl.made \in {OldImage, pipe.ami}
        /\ tmpl.want # 0 /\ tmpl.made # 0 /\ seen \subseteq Hashes
        /\ (tmpl.want = OldImage /\ pipe.phase \notin Undone => tmpl.made = OldImage)
        /\ (~conf.used /\ conf.target = "auto" => tmpl.pend = NoHash)
        /\ (~conf.used /\ conf.target # "auto" => ~(tmpl.made = OldImage /\ pipe.phase \notin Undone))
        /\ (~conf.used /\ pipe.phase \in {"AwaitingApproval", "Applying"} =>
              tmpl.made = pipe.ami /\ tmpl.want = pipe.ami)
        /\ (tmpl.ok # NoHash => tmpl.ok \in Trusted)
    BY <1>1 DEF TmplInv
  <2>9. tmpl.made \in applied'
    BY <1>3
  <2>10. TmplInv'
    BY <1>1, <2>2, <2>3, <2>4, <2>5, <2>6, <2>7, <2>8, <2>9, TmplTypes, TmplKeeps
  <2> QED BY <2>4, <2>10
<1> QED BY <1>2, <1>3 DEF Apply

(* The infrastructure moves away from what was applied last. *)
LEMMA DriftKeeps ==
  ASSUME IInv, Drift
  PROVE  IInv'
<1> USE DEF IInv
<1>1. /\ drifts < MaxDrift /\ drifts' = drifts + 1 /\ Settled /\ conf' = conf
      /\ live' \in {<<live[1], drifts'>>, <<live[1], 0>>, <<OldImage, 0>>, Earlier}
      /\ tmpl' = tmpl /\ plan' = plan /\ applied' = applied /\ faults' = faults /\ pipe' = pipe /\ seen' = seen
  BY DEF Drift, Settled, pipeVars
<1>2. drifts' \in 0 .. MaxDrift
  BY <1>1, TmplTypes, Bounds
<1>3. live' \in Hashes /\ live'[1] \in {live[1], OldImage}
  <2>1. <<live[1], drifts'>> \in Hashes /\ <<live[1], 0>> \in Hashes /\ <<OldImage, 0>> \in Hashes
    BY <1>2, TmplTypes, Bounds DEF Hashes, Images
  <2> QED BY <1>1, <2>1, TmplTypes
<1>4. BuildInv' /\ TestInv' /\ SourceInv' /\ TodoInv' /\ PipeInv' /\ (Tested => Tested')
  BY <1>1, TestTypes, SettledKeeps
<1>5. TmplInv'
  BY <1>1, <1>2, <1>3, <1>4, TmplTypes, TmplKeeps, Bounds DEF TmplInv
<1> QED BY <1>4, <1>5

(* Every step of the template keeps the invariant. *)
LEMMA TemplateKeeps ==
  ASSUME IInv, Template
  PROVE  IInv'
<1>1. faults \in 0 .. MaxFaults
  BY TestTypes DEF IInv
<1>2. CASE Retry
  BY <1>1, <1>2, PhaseKeeps DEF Retry
<1>3. CASE DriftSeen
  BY <1>1, <1>3, PhaseKeeps DEF DriftSeen
<1>4. CASE Correct
  BY <1>1, <1>4, PhaseKeeps DEF Correct
<1> QED BY <1>2, <1>3, <1>4, NoticeKeeps, PlanStartKeeps, PlanEndKeeps, ApplyKeeps DEF Template

--------------------------------------------------------------------------------
(* The reconcile. Lists of writes have one, two or three entries. *)

(* What Head, Tail, Len and concatenation do to such lists. *)
LEMMA Lists ==
  ASSUME NEW a, NEW b, NEW c
  PROVE  /\ <<a>> # <<>> /\ Len(<<a>>) = 1 /\ Head(<<a>>) = a
         /\ <<a, b>> # <<>> /\ Len(<<a, b>>) = 2 /\ Head(<<a, b>>) = a /\ Tail(<<a, b>>) = <<b>>
         /\ <<a, b, c>> # <<>> /\ Len(<<a, b, c>>) = 3 /\ Head(<<a, b, c>>) = a
         /\ Tail(<<a, b, c>>) = <<b, c>>
         /\ <<a>> \o <<b>> = <<a, b>>
<1>1. <<a>> # <<>> /\ Len(<<a>>) = 1 /\ Head(<<a>>) = a
  OBVIOUS
<1>2. <<a, b>> # <<>> /\ Len(<<a, b>>) = 2 /\ Head(<<a, b>>) = a
  OBVIOUS
<1>3. <<a, b, c>> # <<>> /\ Len(<<a, b, c>>) = 3 /\ Head(<<a, b, c>>) = a
  OBVIOUS
<1>4. Tail(<<a, b>>) = <<b>>
  OBVIOUS
<1>5. Tail(<<a, b, c>>) = <<b, c>>
  OBVIOUS
<1>6. <<a>> \o <<b>> = <<a, b>>
  <2> DEFINE left == <<a>>
             right == <<b>>
  <2>1. left \in Seq({a, b}) /\ right \in Seq({a, b}) /\ <<a, b>> \in Seq({a, b})
        /\ Len(left) = 1 /\ Len(right) = 1 /\ Len(<<a, b>>) = 2 /\ left[1] = a /\ right[1] = b
    OBVIOUS
  <2> HIDE DEF left, right
  <2>2. left \o right \in Seq({a, b}) /\ Len(left \o right) = 2
        /\ \A i \in 1 .. 2 : (left \o right)[i] = IF i <= 1 THEN left[i] ELSE right[i - 1]
    <3> DEFINE S == {a, b}
    <3>1. left \in Seq(S) /\ right \in Seq(S)
      BY <2>1
    <3> HIDE DEF S
    <3>2. /\ left \o right \in Seq(S) /\ Len(left \o right) = Len(left) + Len(right)
          /\ \A i \in 1 .. Len(left) + Len(right) :
               (left \o right)[i] = IF i <= Len(left) THEN left[i] ELSE right[i - Len(left)]
      BY <3>1, ConcatProperties, Zenon
    <3>3. Len(left) + Len(right) = 2 /\ Len(left) = 1
      BY <2>1
    <3> QED BY <3>2, <3>3 DEF S
  <2> DEFINE joined == left \o right
             pair == <<a, b>>
  <2>0. pair[1] = a /\ pair[2] = b
    OBVIOUS
  <2> HIDE DEF joined, pair
  <2>3. \A i \in 1 .. 2 : joined[i] = pair[i]
    <3>1. joined[1] = left[1] /\ joined[2] = right[1]
      BY <2>2 DEF joined
    <3>2. \A i \in 1 .. 2 : i = 1 \/ i = 2
      OBVIOUS
    <3> QED BY <2>0, <2>1, <3>1, <3>2
  <2>4. left \o right = <<a, b>>
    BY <2>1, <2>2, <2>3, SeqEqual DEF joined, pair
  <2> QED BY <2>4 DEF left, right
<1> QED BY <1>1, <1>2, <1>3, <1>4, <1>5, <1>6

(* The fields of the pipeline and of the reconcile in hand, one by one. *)
LEMMA PipeTypes ==
  ASSUME PipeInv
  PROVE  /\ pipe = [phase |-> pipe.phase, ami |-> pipe.ami, prev |-> pipe.prev, hash |-> pipe.hash,
                    by |-> pipe.by]
         /\ pipe.phase \in PipePhases /\ pipe.ami \in Images /\ pipe.prev \in Images
         /\ pipe.hash \in Hashes /\ pipe.by \in BOOLEAN
         /\ rec = [pipe |-> rec.pipe, todo |-> rec.todo] /\ rec.pipe \in Pipes /\ NewPipe \in Pipes
         /\ conf.tests \in BOOLEAN
<1>1. pipe \in Pipes /\ rec.pipe \in Pipes /\ rec = [pipe |-> rec.pipe, todo |-> rec.todo]
      /\ conf.tests \in BOOLEAN
  BY PipelineAssumption DEF PipeInv
<1>2. NoHash \in Hashes /\ 0 \in Images
  BY Bounds DEF NoHash, NoImage, Hashes, Images
<1>3. NewPipe \in Pipes
  BY <1>2 DEF NewPipe, NoImage, Pipes, PipePhases
<1> QED BY <1>1, <1>3 DEF Pipes

(* What a handler decides on is what TodoInv says of it. *)
LEMMA StartKeeps ==
  ASSUME IInv, Start
  PROVE  IInv'
<1> USE DEF IInv
<1>1. /\ rec.todo = <<>> /\ rec'.todo # <<>> /\ UNCHANGED <<conf, pipe, seen, tmpl, applied, build, test>>
      /\ UNCHANGED <<plan, live, drifts>> /\ UNCHANGED buildVars /\ UNCHANGED testVars /\ faults' = faults
  BY DEF Start, Still, tmplVars, buildVars, testVars
<1>2. PICK healthy \in BOOLEAN : rec' = [pipe |-> pipe, todo |-> Handler(pipe, healthy)]
  BY DEF Start
<1>3. rec'.pipe = pipe /\ rec'.todo = Handler(pipe, healthy) /\ rec' = [pipe |-> rec'.pipe, todo |-> rec'.todo]
  BY <1>2
<1>4. BuildInv' /\ TestInv' /\ SourceInv'
  <2>1. faults' \in 0 .. MaxFaults
    BY <1>1, TestTypes
  <2>2. BuildInv' /\ TestInv'
    BY <1>1, <2>1, BuildFrame, TestFrame
  <2> QED BY <1>1, <2>2 DEF SourceInv
<1>5. Tested' <=> Tested
  BY <1>1 DEF Tested
<1>6. TmplInv'
  BY <1>1, <1>5, TmplFrame
<1>7. PipeInv'
  BY <1>1, <1>3, <1>5 DEF PipeInv, Pipes, PipePhases, Hashes, Images, New, OldImage, NoHash, NoImage, Undone, Early
<1> SUFFICES TodoInv'
  BY <1>4, <1>6, <1>7
<1> DEFINE todo == rec'.todo
<1> HIDE DEF todo
<1>8. todo # <<>> /\ todo = Handler(pipe, healthy)
  BY <1>1, <1>3 DEF todo
<1>9. CASE pipe.phase = "Pending"
  <2>1. todo = <<W("build", 0), W("phase", "Building")>>
    BY <1>8, <1>9, Lists DEF Handler, HandlePending, Phase
  <2> QED BY <1>1, <1>9, <2>1 DEF TodoInv, Creates, W, todo
<1>10. CASE pipe.phase = "Building"
  <2>1. todo = HandleBuilding
    BY <1>8, <1>10 DEF Handler
  <2>2. CASE build.phase = "Ready"
    <3>1. todo = <<W("ami", build.ami), W("phase", Afterwards)>>
      BY <2>1, <2>2, Lists DEF HandleBuilding, Phase, Afterwards
    <3>2. build.ami \in New
      BY <2>2, ReadyIsNew
    <3>3. Takes'
      BY <1>1, <1>10, <2>2, <3>1, <3>2 DEF Takes, W, New, Afterwards, todo
    <3> QED BY <3>3 DEF TodoInv
  <2>3. CASE build.phase = "Failed"
    BY <1>1, <1>10, <2>1, <2>3 DEF HandleBuilding, Error, Phase, TodoInv, Fails, W, todo
  <2> QED BY <1>8, <2>1, <2>2, <2>3 DEF HandleBuilding, Wait
<1>11. CASE pipe.phase = "Testing"
  <2>1. todo = HandleTesting
    BY <1>8, <1>11 DEF Handler
  <2>2. CASE test.phase = "None"
    BY <1>1, <1>11, <2>1, <2>2 DEF HandleTesting, TodoInv, Tests, W, todo
  <2>3. CASE test.phase = "Passed"
    <3>1. test.ami # 0 /\ pipe.ami \in New
      BY <1>11, <2>3 DEF TestInv, PipeInv, Undone
    <3>2. Tested
      BY <2>3, <3>1 DEF SourceInv, Tested, New
    <3>3. todo = <<W("phase", "Planning")>>
      BY <2>1, <2>3 DEF HandleTesting, Phase
    <3> QED BY <1>1, <1>5, <1>11, <3>2, <3>3 DEF TodoInv, Tests, W, todo
  <2>4. CASE test.phase \in {"Failed", "Cleaning"}
    BY <1>1, <1>11, <2>1, <2>4 DEF HandleTesting, Error, Phase, TodoInv, Fails, W, todo
  <2> QED BY <1>8, <2>1, <2>2, <2>3, <2>4 DEF HandleTesting, Wait
<1>12. CASE pipe.phase = "Planning"
  <2>1. todo = <<W("var", pipe.ami), W("prev", tmpl.want), W("look", 0)>>
    BY <1>8, <1>12 DEF Handler, HandlePlanning
  <2>2. tmpl.want \in {OldImage, pipe.ami}
    BY DEF TmplInv
  <2> QED BY <1>1, <1>12, <2>1, <2>2 DEF TodoInv, Plans, W, OldImage, todo
<1>13. CASE pipe.phase = "AwaitingApproval"
  BY <1>1, <1>8, <1>13 DEF Handler, HandleAwaitingApproval, Wait, Phase, TodoInv, Approved, W, todo
<1>14. CASE pipe.phase = "Applying"
  <2>1. todo = HandleApplying(pipe)
    BY <1>8, <1>14 DEF Handler
  <2>2. CASE tmpl.phase = "Ready"
    <3>1. /\ ~conf.used => tmpl.made = pipe.ami
          /\ tmpl.made \in {OldImage} \cup applied /\ pipe.ami \in New
      BY <1>14, <2>2 DEF TmplInv, PipeInv, Undone
    <3>2. conf.used \/ pipe.ami \in applied
      BY <3>1, Bounds DEF New
    <3>3. \E to \in {"Verifying", "Completed"} : todo = <<W("phase", to)>>
      BY <2>1, <2>2 DEF HandleApplying, Phase
    <3>4. Applies'
      BY <1>1, <1>14, <3>2, <3>3 DEF Applies, W, todo
    <3> QED BY <3>4 DEF TodoInv
  <2>3. CASE tmpl.phase = "Failed"
    <3>1. todo \in {<<W("phase", "RollingBack")>>, <<W("phase", "Failed")>>}
      BY <2>1, <2>3 DEF HandleApplying, Error, Phase
    <3> QED BY <1>1, <1>14, <3>1 DEF TodoInv, Applies, Fails, W, todo
  <2>4. CASE tmpl.phase = "Planning" /\ tmpl.pend \notin {NoHash, tmpl.ok}
    <3>1. todo = IF tmpl.pend = pipe.hash THEN <<W("approve", tmpl.pend)>> ELSE <<W("phase", "Planning")>>
      BY <2>1, <2>4 DEF HandleApplying, Matches, Phase
    <3>2. tmpl.pend = pipe.hash => tmpl.pend \in Hashes \cap seen
      BY <2>4, TmplTypes DEF PipeInv
    <3>3. Applies'
      BY <1>1, <1>14, <3>1, <3>2 DEF Applies, W, Hashes, Images, todo
    <3> QED BY <3>3 DEF TodoInv
  <2> QED BY <1>8, <2>1, <2>2, <2>3, <2>4 DEF HandleApplying, Wait
<1>15. CASE pipe.phase = "Verifying"
  <2>1. todo \in {<<W("phase", "Completed")>>, <<W("phase", "RollingBack")>>, <<W("phase", "Failed")>>}
    BY <1>8, <1>15 DEF Handler, HandleVerifying, Phase
  <2> QED BY <1>1, <1>15, <2>1 DEF TodoInv, Verifies, Fails, W, todo
<1>16. CASE pipe.phase = "RollingBack"
  <2>1. todo = HandleRollingBack(pipe)
    BY <1>8, <1>16 DEF Handler
  <2>2. CASE pipe.prev = 0
    BY <1>1, <1>16, <2>1, <2>2 DEF HandleRollingBack, NoImage, Error, Phase, TodoInv, Fails, W, todo
  <2>3. CASE pipe.prev # 0
    <3>1. todo = <<W("var", pipe.prev), W("phase", "Failed")>> /\ pipe.prev \in {OldImage, pipe.ami}
      BY <2>1, <2>3, Lists DEF HandleRollingBack, NoImage, Phase, PipeInv
    <3> QED BY <1>1, <1>16, <2>3, <3>1 DEF TodoInv, Reverts, W, OldImage, todo
  <2> QED BY <2>2, <2>3
<1>17. CASE pipe.phase \in {"Completed", "Failed"}
  BY <1>8, <1>17 DEF Handler, Wait
<1>18. pipe.phase \in PipePhases
  BY PipeTypes
<1> QED
  BY <1>9, <1>10, <1>11, <1>12, <1>13, <1>14, <1>15, <1>16, <1>17, <1>18 DEF PipePhases

(* The step that makes the next write of the reconcile, by the write. *)
Write == CreateBuild \/ CreateTest \/ WriteStatus \/ PatchTemplate \/ Look

(* The next write is the first one of the list, whatever follows it. *)
LEMMA NextWrite ==
  ASSUME NEW op, NEW v, NEW b, NEW c,
         rec.todo \in {<<W(op, v)>>, <<W(op, v), b>>, <<W(op, v), b, c>>}
  PROVE  rec.todo # <<>> /\ Op = op /\ Arg = v
<1> DEFINE w == W(op, v)
<1>1. w[1] = op /\ w[2] = v
  BY DEF W
<1> HIDE DEF w
<1>2. rec.todo \in {<<w>>, <<w, b>>, <<w, b, c>>}
  BY DEF w
<1>3. rec.todo # <<>> /\ Head(rec.todo) = w
  BY <1>2, Lists
<1> QED BY <1>1, <1>3 DEF Op, Arg

(* After a write the reconcile has the rest of its list, and after the last one it is over. *)
LEMMA RestIs ==
  ASSUME PipeInv, Rest, NEW a, NEW b, NEW c
  PROVE  /\ rec.todo = <<a>> => rec' = Idle
         /\ rec.todo = <<a, b>> => rec' = [pipe |-> rec.pipe, todo |-> <<b>>]
         /\ rec.todo = <<a, b, c>> => rec' = [pipe |-> rec.pipe, todo |-> <<b, c>>]
<1>1. ASSUME NEW todo
      PROVE  [rec EXCEPT !.todo = todo] = [pipe |-> rec.pipe, todo |-> todo]
  BY PipeTypes
<1>2. [rec EXCEPT !.todo = Tail(@)] = [rec EXCEPT !.todo = Tail(rec.todo)]
  BY PipeTypes
<1>3. CASE rec.todo = <<a>>
  BY <1>3, Lists DEF Rest
<1>4. CASE rec.todo = <<a, b>>
  <2>1. Len(rec.todo) = 2 /\ Tail(rec.todo) = <<b>>
    BY <1>4, Lists
  <2>2. rec' = [rec EXCEPT !.todo = Tail(rec.todo)]
    BY <1>2, <2>1 DEF Rest
  <2> QED BY <1>1, <2>1, <2>2, <1>4, Lists
<1>5. CASE rec.todo = <<a, b, c>>
  <2>1. Len(rec.todo) = 3 /\ Tail(rec.todo) = <<b, c>>
    BY <1>5, Lists
  <2>2. rec' = [rec EXCEPT !.todo = Tail(rec.todo)]
    BY <1>2, <2>1 DEF Rest
  <2> QED BY <1>1, <2>1, <2>2, <1>5, Lists
<1> QED BY <1>3, <1>4, <1>5

(* A status write leaves the children and the template alone. *)
LEMMA StatusFrame ==
  ASSUME IInv, WriteStatus
  PROVE  /\ BuildInv' /\ TestInv' /\ build' = build /\ test' = test /\ conf' = conf
         /\ tmpl' = tmpl /\ plan' = plan /\ live' = live /\ applied' = applied /\ drifts' = drifts
<1>1. /\ build' = build /\ test' = test /\ conf' = conf /\ faults' = faults
      /\ tmpl' = tmpl /\ plan' = plan /\ live' = live /\ applied' = applied /\ drifts' = drifts
      /\ UNCHANGED buildVars /\ UNCHANGED testVars
  BY DEF WriteStatus, Still, tmplVars, buildVars, testVars
<1>2. BuildInv' /\ TestInv'
  BY <1>1, TestTypes, BuildFrame, TestFrame DEF IInv
<1> QED BY <1>1, <1>2

(* The write of a phase, the last one of every reconcile that makes it: what the  *)
(* new phase claims of the image, the template and the test must hold already.    *)
LEMMA PhaseWrite ==
  ASSUME IInv, Write, NEW to \in PipePhases, rec.todo = <<W("phase", to)>>,
         to \notin Undone \cup {"Pending", "Building"} => pipe.ami \in New,
         to \in {"Pending", "Building"} => pipe.prev = 0,
         to \in {"Verifying", "Completed"} => conf.used \/ pipe.ami \in applied,
         to \notin Early \cup {"Failed"} => Tested,
         to \in Early => tmpl.want = OldImage /\ applied \subseteq {OldImage},
         to \notin Undone => pipe.phase \notin Undone,
         ~conf.used /\ to \in {"AwaitingApproval", "Applying"} =>
           tmpl.made = pipe.ami /\ tmpl.want = pipe.ami
  PROVE  IInv'
<1> USE DEF IInv
<1>1. Op = "phase" /\ Arg = to
  BY NextWrite
<1>2. WriteStatus
  BY <1>1 DEF Write, CreateBuild, CreateTest, PatchTemplate, Look, Writes
<1>3. /\ BuildInv' /\ TestInv' /\ build' = build /\ test' = test /\ conf' = conf
      /\ tmpl' = tmpl /\ plan' = plan /\ live' = live /\ applied' = applied /\ drifts' = drifts
  BY <1>2, StatusFrame
<1>4. rec' = Idle
  BY <1>2, RestIs DEF WriteStatus
<1>5. pipe' = [pipe EXCEPT !.phase = to] /\ seen' = seen
  BY <1>1, <1>2 DEF WriteStatus
<1>6. pipe' = [phase |-> to, ami |-> pipe.ami, prev |-> pipe.prev, hash |-> pipe.hash, by |-> pipe.by]
  BY <1>5, PipeTypes
<1>7. pipe'.phase = to /\ pipe'.ami = pipe.ami /\ pipe'.prev = pipe.prev /\ pipe'.hash = pipe.hash
  BY <1>6
<1>8. pipe' \in Pipes
  BY <1>6, PipeTypes DEF Pipes
<1>9. Tested' <=> Tested
  BY <1>3, <1>7 DEF Tested
<1>10. SourceInv'
  BY <1>3, <1>7 DEF SourceInv
<1>11. TodoInv'
  BY <1>4 DEF TodoInv, Idle, NewPipe, NoHash, NoImage
<1>12. rec'.todo = <<>> /\ rec'.pipe \in Pipes /\ rec' = [pipe |-> rec'.pipe, todo |-> rec'.todo]
  BY <1>4, PipeTypes DEF Idle
<1>13. conf \in Confs /\ pipe.ami \in New \cup {0} /\ pipe.prev \in {0, OldImage, pipe.ami}
       /\ (pipe.hash # NoHash => pipe.hash \in seen) /\ (tmpl.want # OldImage => Tested)
  BY DEF PipeInv
<1>14. PipeInv'
  BY <1>3, <1>5, <1>7, <1>8, <1>9, <1>12, <1>13
     DEF PipeInv, Pipes, PipePhases, Hashes, Images, New, OldImage, NoHash, NoImage, Undone, Early
<1>15. TmplInv'
  BY <1>3, <1>5, <1>7, <1>9
     DEF TmplInv, TmplPhases, Hashes, Images, OldImage, NoHash, NoImage, Undone, Early, Trusted, Earlier
<1> QED BY <1>3, <1>10, <1>11, <1>14, <1>15

(* The reconciles whose next write is of a phase. *)
LEMMA PhaseWrites ==
  ASSUME IInv, Write,
         \/ Fails \/ Took \/ Approved \/ Verifies
         \/ Creates /\ rec.todo = <<W("phase", "Building")>>
         \/ Tests /\ rec.todo = <<W("phase", "Planning")>> /\ Tested
         \/ Captures /\ \E to \in {"Applying", "AwaitingApproval", "Failed"} : rec.todo = <<W("phase", to)>>
         \/ Applies /\ \/ rec.todo \in {<<W("phase", "RollingBack")>>, <<W("phase", "Planning")>>}
                       \/ /\ \E to \in {"Verifying", "Completed"} : rec.todo = <<W("phase", to)>>
                          /\ conf.used \/ pipe.ami \in applied
  PROVE  IInv'
<1> USE DEF IInv
<1>0. /\ pipe.phase \notin Undone \cup {"Pending", "Building"} => pipe.ami \in New
      /\ pipe.phase \in {"Pending", "Building"} => pipe.prev = 0
      /\ pipe.phase \in {"Verifying", "Completed"} => conf.used \/ pipe.ami \in applied
      /\ pipe.phase \notin Early \cup {"Failed"} => Tested
      /\ pipe.phase \in Early => tmpl.want = OldImage /\ applied \subseteq {OldImage}
      /\ ~conf.used /\ pipe.phase \in {"AwaitingApproval", "Applying"} =>
           tmpl.made = pipe.ami /\ tmpl.want = pipe.ami
  BY DEF PipeInv, TmplInv
<1>1. CASE Fails
  BY <1>1, PhaseWrite DEF Fails, PipePhases, Undone, Early
<1>2. CASE Took
  <2>1. ~conf.tests => Tested
    BY DEF Tested
  <2>2. Afterwards \in {"Testing", "Planning"} /\ (Afterwards = "Planning" => Tested)
    BY <2>1, PipeTypes DEF Afterwards
  <2>3. rec.todo = <<W("phase", Afterwards)>> /\ pipe.ami \in New /\ pipe.phase = "Building"
    BY <1>2 DEF Took
  <2>4. CASE Afterwards = "Testing"
    BY <1>0, <2>3, <2>4, PhaseWrite DEF PipePhases, Undone, Early
  <2>5. CASE Afterwards = "Planning"
    BY <1>0, <2>2, <2>3, <2>5, PhaseWrite DEF PipePhases, Undone, Early
  <2> QED BY <2>2, <2>4, <2>5
<1>3. CASE Approved
  BY <1>0, <1>3, PhaseWrite DEF Approved, PipePhases, Undone, Early
<1>4. CASE Verifies
  <2>1. CASE rec.todo = <<W("phase", "Completed")>>
    BY <1>0, <1>4, <2>1, PhaseWrite DEF Verifies, PipePhases, Undone, Early
  <2>2. CASE rec.todo = <<W("phase", "RollingBack")>>
    BY <1>0, <1>4, <2>2, PhaseWrite DEF Verifies, PipePhases, Undone, Early
  <2> QED BY <1>4, <2>1, <2>2 DEF Verifies
<1>5. CASE Creates /\ rec.todo = <<W("phase", "Building")>>
  BY <1>0, <1>5, PhaseWrite DEF Creates, PipePhases, Undone, Early
<1>6. CASE Tests /\ rec.todo = <<W("phase", "Planning")>> /\ Tested
  BY <1>0, <1>6, PhaseWrite DEF Tests, PipePhases, Undone, Early
<1>7. ASSUME Captures, NEW to \in {"Applying", "AwaitingApproval", "Failed"}, rec.todo = <<W("phase", to)>>
      PROVE  IInv'
  <2>1. pipe.phase = "Planning" /\ (~conf.used => tmpl.made = pipe.ami /\ tmpl.want = pipe.ami)
    BY <1>7 DEF Captures
  <2> QED BY <1>0, <1>7, <2>1, PhaseWrite DEF PipePhases, Undone, Early
<1>8. ASSUME Applies, NEW to \in {"RollingBack", "Planning", "Verifying", "Completed"},
             rec.todo = <<W("phase", to)>>, to \in {"Verifying", "Completed"} => conf.used \/ pipe.ami \in applied
      PROVE  IInv'
  <2>1. pipe.phase = "Applying"
    BY <1>8 DEF Applies
  <2> QED BY <1>0, <1>8, <2>1, PhaseWrite DEF PipePhases, Undone, Early
<1> QED BY <1>1, <1>2, <1>3, <1>4, <1>5, <1>6, <1>7, <1>8

(* The other status writes. *)
LEMMA AmiWrite ==
  ASSUME IInv, Write, Takes
  PROVE  IInv'
<1> USE DEF IInv
<1>1. PICK a \in New : /\ rec.todo = <<W("ami", a), W("phase", Afterwards)>>
                       /\ build.gen <= 1 => build.phase = "Ready" /\ build.ami = a
  BY DEF Takes
<1>2. Op = "ami" /\ Arg = a
  BY <1>1, NextWrite
<1>3. WriteStatus
  BY <1>2 DEF Write, CreateBuild, CreateTest, PatchTemplate, Look, Writes
<1>4. /\ BuildInv' /\ TestInv' /\ build' = build /\ test' = test /\ conf' = conf
      /\ tmpl' = tmpl /\ plan' = plan /\ live' = live /\ applied' = applied /\ drifts' = drifts
  BY <1>3, StatusFrame
<1>5. rec' = [pipe |-> rec.pipe, todo |-> <<W("phase", Afterwards)>>]
  BY <1>1, <1>3, RestIs DEF WriteStatus
<1>6. pipe' = [pipe EXCEPT !.ami = a] /\ seen' = seen
  BY <1>2, <1>3 DEF WriteStatus
<1>7. pipe' = [phase |-> pipe.phase, ami |-> a, prev |-> pipe.prev, hash |-> pipe.hash, by |-> pipe.by]
  BY <1>6, PipeTypes
<1>8. pipe'.phase = pipe.phase /\ pipe'.ami = a /\ pipe'.prev = pipe.prev /\ pipe'.hash = pipe.hash
      /\ pipe.phase = "Building"
  BY <1>7 DEF Takes
<1>9. pipe' \in Pipes
  <2>1. a \in Images
    BY Bounds DEF New, Images
  <2> QED BY <1>7, <2>1, PipeTypes DEF Pipes
<1>10. SourceInv'
  BY <1>1, <1>4, <1>8 DEF SourceInv
<1>11. rec'.pipe = rec.pipe /\ rec'.todo = <<W("phase", Afterwards)>>
       /\ rec' = [pipe |-> rec'.pipe, todo |-> rec'.todo]
  BY <1>5
<1>12. TodoInv'
  <2>1. Took'
    BY <1>4, <1>8, <1>11 DEF Took, Afterwards, W, New
  <2> QED BY <2>1 DEF TodoInv
<1>13. rec.todo # <<>>
  BY <1>1, NextWrite
<1>14. /\ pipe.prev = 0 /\ rec.pipe.prev = 0 /\ rec.pipe \in Pipes /\ conf \in Confs
       /\ (pipe.hash # NoHash => pipe.hash \in seen)
  BY <1>8, <1>13 DEF PipeInv
<1>15. tmpl.want = OldImage /\ applied \subseteq {OldImage} /\ tmpl.made = OldImage
  BY <1>8 DEF TmplInv, Early, Undone
<1>16. PipeInv'
  BY <1>4, <1>6, <1>8, <1>9, <1>11, <1>14, <1>15
     DEF PipeInv, Pipes, PipePhases, Hashes, Images, New, OldImage, NoHash, NoImage, Undone, Early
<1>17. TmplInv'
  <2>1. ~(tmpl.made # OldImage \/ \E b \in applied : b # OldImage)
    BY <1>15
  <2> QED BY <1>4, <1>6, <1>8, <1>15, <2>1
        DEF TmplInv, TmplPhases, Hashes, Images, OldImage, NoHash, NoImage, Undone, Early, Trusted, Earlier
<1> QED BY <1>4, <1>10, <1>12, <1>16, <1>17

(* handle_planning records the image it is about to replace. *)
LEMMA PrevWrite ==
  ASSUME IInv, Write, pipe.phase = "Planning", NEW v \in {OldImage, pipe.ami},
         rec.todo = <<W("prev", v), W("look", 0)>>
  PROVE  IInv'
<1> USE DEF IInv
<1>1. rec.todo # <<>> /\ Op = "prev" /\ Arg = v
  BY NextWrite
<1>2. WriteStatus
  BY <1>1 DEF Write, CreateBuild, CreateTest, PatchTemplate, Look, Writes
<1>3. /\ BuildInv' /\ TestInv' /\ build' = build /\ test' = test /\ conf' = conf
      /\ tmpl' = tmpl /\ plan' = plan /\ live' = live /\ applied' = applied /\ drifts' = drifts
  BY <1>2, StatusFrame
<1>4. rec' = [pipe |-> rec.pipe, todo |-> <<W("look", 0)>>]
  BY <1>2, RestIs DEF WriteStatus
<1>5. pipe' = [pipe EXCEPT !.prev = v] /\ seen' = seen
  BY <1>1, <1>2 DEF WriteStatus
<1>6. pipe' = [phase |-> pipe.phase, ami |-> pipe.ami, prev |-> v, hash |-> pipe.hash, by |-> pipe.by]
  BY <1>5, PipeTypes
<1>7. pipe'.phase = pipe.phase /\ pipe'.ami = pipe.ami /\ pipe'.prev = v /\ pipe'.hash = pipe.hash
  BY <1>6
<1>8. pipe' \in Pipes
  <2>1. v \in Images
    BY Bounds, PipeTypes DEF Images
  <2> QED BY <1>6, <2>1, PipeTypes DEF Pipes
<1>9. Tested' <=> Tested
  BY <1>3, <1>7 DEF Tested
<1>10. SourceInv'
  BY <1>3, <1>7 DEF SourceInv
<1>11. rec'.pipe = rec.pipe /\ rec'.todo = <<W("look", 0)>> /\ rec' = [pipe |-> rec'.pipe, todo |-> rec'.todo]
  BY <1>4
<1>12. TodoInv'
  BY <1>7, <1>11 DEF TodoInv, Plans, W
<1>13. /\ conf \in Confs /\ pipe.ami \in New /\ rec.pipe \in Pipes
       /\ rec.pipe.prev \in {0, OldImage, pipe.ami} /\ (pipe.hash # NoHash => pipe.hash \in seen) /\ Tested
  BY <1>1 DEF PipeInv, Early, Undone
<1>14. PipeInv'
  BY <1>3, <1>5, <1>7, <1>8, <1>9, <1>11, <1>13
     DEF PipeInv, Pipes, PipePhases, Hashes, Images, New, OldImage, NoHash, NoImage, Undone, Early
<1>15. TmplInv'
  BY <1>3, <1>5, <1>7, <1>9
     DEF TmplInv, TmplPhases, Hashes, Images, OldImage, NoHash, NoImage, Undone, Early, Trusted, Earlier
<1> QED BY <1>3, <1>10, <1>12, <1>14, <1>15

(* handle_planning records the hash of the plan it found, from then on a captured one. *)
LEMMA HashWrite ==
  ASSUME IInv, Write, Captures, NEW h \in Hashes, NEW to \in {"Applying", "AwaitingApproval", "Failed"},
         rec.todo = <<W("hash", h), W("phase", to)>>
  PROVE  IInv'
<1> USE DEF IInv
<1>1. rec.todo # <<>> /\ Op = "hash" /\ Arg = h
  BY NextWrite
<1>2. WriteStatus
  BY <1>1 DEF Write, CreateBuild, CreateTest, PatchTemplate, Look, Writes
<1>3. /\ BuildInv' /\ TestInv' /\ build' = build /\ test' = test /\ conf' = conf
      /\ tmpl' = tmpl /\ plan' = plan /\ live' = live /\ applied' = applied /\ drifts' = drifts
  BY <1>2, StatusFrame
<1>4. rec' = [pipe |-> rec.pipe, todo |-> <<W("phase", to)>>]
  BY <1>2, RestIs DEF WriteStatus
<1> DEFINE prev == IF rec.pipe.prev = 0 THEN pipe.prev ELSE rec.pipe.prev
<1>5. /\ conf \in Confs /\ pipe.ami \in New /\ rec.pipe \in Pipes /\ pipe.prev \in {0, OldImage, pipe.ami}
      /\ rec.pipe.prev \in {0, OldImage, pipe.ami} /\ Tested /\ pipe.phase = "Planning"
  BY <1>1 DEF PipeInv, Early, Undone, Captures
<1>6. pipe' = [phase |-> pipe.phase, ami |-> pipe.ami, prev |-> prev, hash |-> h, by |-> pipe.by]
  <2> DEFINE first == [pipe EXCEPT !.hash = h]
  <2>1. first = [phase |-> pipe.phase, ami |-> pipe.ami, prev |-> pipe.prev, hash |-> h, by |-> pipe.by]
    BY PipeTypes
  <2>2. pipe' = [pipe EXCEPT !.hash = h, !.prev = IF rec.pipe.prev = 0 THEN @ ELSE rec.pipe.prev]
    BY <1>1, <1>2 DEF WriteStatus, NoImage
  <2>3. pipe' = [first EXCEPT !.prev = IF rec.pipe.prev = 0 THEN first.prev ELSE rec.pipe.prev]
    BY <2>2
  <2> HIDE DEF first
  <2> QED BY <2>1, <2>3
<1>7. seen' = seen \cup {h}
  BY <1>1, <1>2 DEF WriteStatus
<1>8. prev \in {0, OldImage, pipe.ami}
  BY <1>5
<1> HIDE DEF prev
<1>9. pipe'.phase = pipe.phase /\ pipe'.ami = pipe.ami /\ pipe'.prev = prev /\ pipe'.hash = h
  BY <1>6
<1>10. pipe' \in Pipes
  <2>1. prev \in Images
    BY <1>8, Bounds, PipeTypes DEF Images
  <2> QED BY <1>6, <2>1, PipeTypes DEF Pipes
<1>11. Tested' <=> Tested
  BY <1>3, <1>9 DEF Tested
<1>12. SourceInv'
  BY <1>3, <1>9 DEF SourceInv
<1>13. rec'.pipe = rec.pipe /\ rec'.todo = <<W("phase", to)>> /\ rec' = [pipe |-> rec'.pipe, todo |-> rec'.todo]
  BY <1>4
<1>14. TodoInv'
  <2>1. ~conf.used => tmpl.made = pipe.ami /\ tmpl.want = pipe.ami
    BY DEF Captures
  <2>2. Captures'
    BY <1>3, <1>5, <1>9, <1>13, <2>1 DEF Captures, W
  <2> QED BY <2>2 DEF TodoInv
<1>15. PipeInv'
  BY <1>3, <1>5, <1>7, <1>8, <1>9, <1>10, <1>11, <1>13
     DEF PipeInv, Pipes, PipePhases, Hashes, Images, New, OldImage, NoHash, NoImage, Undone, Early
<1>16. TmplInv'
  BY <1>3, <1>7, <1>9, <1>11
     DEF TmplInv, TmplPhases, Hashes, Images, OldImage, NoHash, NoImage, Undone, Early, Trusted, Earlier
<1> QED BY <1>3, <1>12, <1>14, <1>15, <1>16

(* The two patches of the template. *)
LEMMA PatchFrame ==
  ASSUME IInv, PatchTemplate
  PROVE  /\ BuildInv' /\ TestInv' /\ SourceInv' /\ (Tested' <=> Tested)
         /\ build' = build /\ test' = test /\ conf' = conf /\ pipe' = pipe /\ seen' = seen
         /\ plan' = plan /\ live' = live /\ applied' = applied /\ drifts' = drifts
<1>1. /\ conf' = conf /\ pipe' = pipe /\ seen' = seen /\ faults' = faults /\ build' = build /\ test' = test
      /\ plan' = plan /\ live' = live /\ applied' = applied /\ drifts' = drifts
      /\ UNCHANGED buildVars /\ UNCHANGED testVars
  BY DEF PatchTemplate, buildVars, testVars
<1>2. BuildInv' /\ TestInv'
  BY <1>1, TestTypes, BuildFrame, TestFrame DEF IInv
<1>3. SourceInv' /\ (Tested' <=> Tested)
  BY <1>1 DEF IInv, SourceInv, Tested
<1> QED BY <1>1, <1>2, <1>3

(* A pipeline patches the variable of the template: to the new image when it plans, back to
   the previous one when it rolls back. *)
LEMMA VarWrite ==
  ASSUME IInv, Write, NEW v \in {OldImage, pipe.ami}, v # 0, NEW next, NEW last,
         \/ /\ pipe.phase = "Planning" /\ v = pipe.ami
            /\ \E u \in {OldImage, pipe.ami} : next = W("prev", u) /\ last = W("look", 0)
            /\ rec.todo = <<W("var", v), next, last>>
         \/ /\ pipe.phase = "RollingBack"
            /\ next = W("phase", "Failed") /\ rec.todo = <<W("var", v), next>>
  PROVE  IInv'
<1> USE DEF IInv
<1>1. rec.todo # <<>> /\ Op = "var" /\ Arg = v
  <2>1. CASE rec.todo = <<W("var", v), next>>
    BY <2>1, NextWrite
  <2>2. CASE rec.todo = <<W("var", v), next, last>>
    BY <2>2, NextWrite
  <2> QED BY <2>1, <2>2
<1>2. PatchTemplate
  BY <1>1 DEF Write, CreateBuild, CreateTest, WriteStatus, Look, Writes
<1>3. /\ BuildInv' /\ TestInv' /\ SourceInv' /\ (Tested' <=> Tested)
      /\ build' = build /\ test' = test /\ conf' = conf /\ pipe' = pipe /\ seen' = seen
      /\ plan' = plan /\ live' = live /\ applied' = applied /\ drifts' = drifts
  BY <1>2, PatchFrame
<1>4. tmpl' = [want |-> v, made |-> tmpl.made, phase |-> tmpl.phase, pend |-> tmpl.pend, ok |-> tmpl.ok]
  BY <1>1, <1>2, TmplTypes DEF PatchTemplate, Tmpls
<1>5. tmpl'.want = v /\ tmpl'.made = tmpl.made /\ tmpl'.phase = tmpl.phase
      /\ tmpl'.pend = tmpl.pend /\ tmpl'.ok = tmpl.ok
  BY <1>4
<1>6. tmpl' \in Tmpls
  <2>1. v \in Images
    BY Bounds, PipeTypes DEF Images
  <2> QED BY <1>4, <2>1, TmplTypes DEF Tmpls
<1>7. /\ conf \in Confs /\ rec.pipe \in Pipes /\ Tested /\ pipe.phase \notin Early
      /\ pipe.phase \notin {"AwaitingApproval", "Applying"}
      /\ (pipe.phase \notin Undone => v = pipe.ami /\ pipe.ami \in New)
  BY DEF PipeInv, Early, Undone
<1>8. /\ rec'.pipe = rec.pipe /\ rec' = [pipe |-> rec'.pipe, todo |-> rec'.todo]
      /\ \/ pipe.phase = "Planning" /\ rec'.todo = <<next, last>>
         \/ pipe.phase = "RollingBack" /\ rec'.todo = <<next>>
  <2>1. Rest
    BY <1>2 DEF PatchTemplate
  <2>2. CASE pipe.phase = "Planning" /\ rec.todo = <<W("var", v), next, last>>
    <3>1. rec' = [pipe |-> rec.pipe, todo |-> <<next, last>>]
      BY <2>1, <2>2, RestIs
    <3> QED BY <2>2, <3>1
  <2>3. CASE pipe.phase = "RollingBack" /\ rec.todo = <<W("var", v), next>>
    <3>1. rec' = [pipe |-> rec.pipe, todo |-> <<next>>]
      BY <2>1, <2>3, RestIs
    <3> QED BY <2>3, <3>1
  <2> QED BY <2>2, <2>3
<1>9. TodoInv'
  <2>1. CASE pipe.phase = "Planning" /\ rec'.todo = <<next, last>>
    <3>1. PICK u \in {OldImage, pipe.ami} : next = W("prev", u) /\ last = W("look", 0)
      BY <2>1
    <3>2. Plans'
      BY <1>3, <2>1, <3>1 DEF Plans, W, OldImage
    <3> QED BY <3>2 DEF TodoInv
  <2>2. CASE pipe.phase = "RollingBack" /\ rec'.todo = <<next>>
    <3>1. Fails'
      BY <1>3, <2>2 DEF Fails, W
    <3> QED BY <3>1 DEF TodoInv
  <2> QED BY <1>8, <2>1, <2>2
<1>10. PipeInv'
  BY <1>1, <1>3, <1>7, <1>8
     DEF PipeInv, Pipes, PipePhases, Hashes, Images, New, OldImage, NoHash, NoImage, Undone, Early
<1>11. ~(v = OldImage /\ pipe.phase \notin Undone)
  BY <1>7, Bounds DEF New
<1>12. TmplInv'
  BY <1>3, <1>5, <1>6, <1>7, <1>11, TmplKeeps DEF TmplInv
<1> QED BY <1>3, <1>9, <1>10, <1>12

(* A pipeline approves a plan it has captured. *)
LEMMA ApproveWrite ==
  ASSUME IInv, Write, NEW h \in Hashes \cap seen, rec.todo = <<W("approve", h)>>
  PROVE  IInv'
<1> USE DEF IInv
<1>1. rec.todo # <<>> /\ Op = "approve" /\ Arg = h
  BY NextWrite
<1>2. PatchTemplate
  BY <1>1 DEF Write, CreateBuild, CreateTest, WriteStatus, Look, Writes
<1>3. /\ BuildInv' /\ TestInv' /\ SourceInv' /\ (Tested' <=> Tested)
      /\ build' = build /\ test' = test /\ conf' = conf /\ pipe' = pipe /\ seen' = seen
      /\ plan' = plan /\ live' = live /\ applied' = applied /\ drifts' = drifts
  BY <1>2, PatchFrame
<1>4. tmpl' = [want |-> tmpl.want, made |-> tmpl.made, phase |-> tmpl.phase, pend |-> tmpl.pend, ok |-> h]
  BY <1>1, <1>2, TmplTypes DEF PatchTemplate, Tmpls
<1>5. tmpl'.want = tmpl.want /\ tmpl'.made = tmpl.made /\ tmpl'.phase = tmpl.phase
      /\ tmpl'.pend = tmpl.pend /\ tmpl'.ok = h
  BY <1>4
<1>6. tmpl' \in Tmpls
  BY <1>4, TmplTypes DEF Tmpls
<1>7. rec' = Idle
  BY <1>2, RestIs DEF PatchTemplate
<1>8. TodoInv'
  BY <1>7 DEF TodoInv, Idle, NewPipe, NoHash, NoImage
<1>9. rec'.todo = <<>> /\ rec'.pipe \in Pipes /\ rec' = [pipe |-> rec'.pipe, todo |-> rec'.todo]
  BY <1>7, PipeTypes DEF Idle
<1>10. PipeInv'
  BY <1>3, <1>5, <1>9
     DEF PipeInv, Pipes, PipePhases, Hashes, Images, New, OldImage, NoHash, NoImage, Undone, Early
<1>11. h \in Trusted
  BY DEF Trusted
<1>12. TmplInv'
  BY <1>3, <1>5, <1>6, <1>11, TmplKeeps DEF TmplInv
<1> QED BY <1>3, <1>8, <1>10, <1>12

(* Creating the children, and looking at the plan. *)
LEMMA BuildWrite ==
  ASSUME IInv, Write, pipe.phase = "Pending", rec.todo = <<W("build", 0), W("phase", "Building")>>
  PROVE  IInv'
<1> USE DEF IInv
<1>1. rec.todo # <<>> /\ Op = "build"
  BY NextWrite
<1>2. CreateBuild
  BY <1>1 DEF Write, CreateTest, WriteStatus, PatchTemplate, Look, Writes
<1>3. /\ conf' = conf /\ pipe' = pipe /\ seen' = seen /\ tmpl' = tmpl /\ plan' = plan /\ live' = live
      /\ applied' = applied /\ drifts' = drifts /\ test' = test /\ UNCHANGED testVars
      /\ disk' = disk /\ images' = images /\ copy' = copy /\ faults' = faults
      /\ build' = IF build.gen = 0 THEN [build EXCEPT !.gen = 1] ELSE build
  BY <1>2 DEF CreateBuild, Still, tmplVars, testVars
<1>4. BuildInv' /\ TestInv'
  <2>1. TestInv'
    BY <1>3, TestTypes, TestFrame
  <2>2. CASE build.gen = 0
    BY <1>3, <2>1, <2>2, BuildCreated
  <2>3. CASE build.gen # 0
    BY <1>3, <2>1, <2>3, TestTypes, BuildFrame DEF buildVars
  <2> QED BY <2>2, <2>3
<1>5. /\ build'.gen <= 1 <=> build.gen <= 1
      /\ build'.phase = build.phase /\ build'.ami = build.ami
  <2>1. build = [gen |-> build.gen, phase |-> build.phase, obs |-> build.obs, ami |-> build.ami]
        /\ build.gen \in Nat
    BY BuildTypes, Bounds
  <2>2. CASE build.gen = 0
    <3>1. build' = [gen |-> 1, phase |-> build.phase, obs |-> build.obs, ami |-> build.ami]
      BY <1>3, <2>1, <2>2
    <3> QED BY <2>2, <3>1
  <2>3. CASE build.gen # 0
    BY <1>3, <2>3
  <2> QED BY <2>2, <2>3
<1>6. SourceInv' /\ (Tested' <=> Tested)
  BY <1>3, <1>5 DEF SourceInv, Tested
<1>7. rec' = [pipe |-> rec.pipe, todo |-> <<W("phase", "Building")>>]
  BY <1>2, RestIs DEF CreateBuild
<1>8. rec'.pipe = rec.pipe /\ rec'.todo = <<W("phase", "Building")>>
      /\ rec' = [pipe |-> rec'.pipe, todo |-> rec'.todo]
  BY <1>7
<1>9. TodoInv'
  <2>1. Creates'
    BY <1>3, <1>8 DEF Creates, W
  <2> QED BY <2>1 DEF TodoInv
<1>10. PipeInv'
  BY <1>1, <1>3, <1>6, <1>8
     DEF PipeInv, Pipes, PipePhases, Hashes, Images, New, OldImage, NoHash, NoImage, Undone, Early
<1>11. TmplInv'
  BY <1>3, <1>6, TmplFrame
<1> QED BY <1>4, <1>6, <1>9, <1>10, <1>11

(* handle_testing creates the AmiTest, unless it exists. *)
LEMMA TestWrite ==
  ASSUME IInv, Write, rec.todo = <<W("test", 0)>>
  PROVE  IInv'
<1> USE DEF IInv
<1>1. rec.todo # <<>> /\ Op = "test"
  BY NextWrite
<1>2. CreateTest
  BY <1>1 DEF Write, CreateBuild, WriteStatus, PatchTemplate, Look, Writes
<1>3. /\ conf' = conf /\ pipe' = pipe /\ seen' = seen /\ tmpl' = tmpl /\ plan' = plan /\ live' = live
      /\ applied' = applied /\ drifts' = drifts /\ build' = build /\ UNCHANGED buildVars
      /\ jobs' = jobs /\ faults' = faults
      /\ test' = IF test.phase = "None" THEN [test EXCEPT !.phase = "Pending"] ELSE test
  BY <1>2 DEF CreateTest, Still, tmplVars, buildVars
<1>4. BuildInv' /\ TestInv'
  <2>1. faults' \in 0 .. MaxFaults
    BY <1>3, TestTypes
  <2>2. BuildInv'
    BY <1>3, <2>1, BuildFrame
  <2>3. CASE test.phase = "None"
    BY <1>3, <2>1, <2>2, <2>3, TestMovesTo
  <2>4. CASE test.phase # "None"
    BY <1>3, <2>1, <2>2, <2>4, TestFrame DEF testVars
  <2> QED BY <2>3, <2>4
<1>5. test'.ami = test.ami /\ (test.phase = "Passed" => test' = test)
  BY <1>3, TestTypes
<1>6. SourceInv' /\ (Tested => Tested')
  BY <1>3, <1>5 DEF SourceInv, Tested
<1>7. rec' = Idle
  BY <1>2, RestIs DEF CreateTest
<1>8. TodoInv'
  BY <1>7 DEF TodoInv, Idle, NewPipe, NoHash, NoImage
<1>9. rec'.todo = <<>> /\ rec'.pipe \in Pipes /\ rec' = [pipe |-> rec'.pipe, todo |-> rec'.todo]
  BY <1>7, PipeTypes DEF Idle
<1>10. PipeInv'
  BY <1>3, <1>6, <1>9
     DEF PipeInv, Pipes, PipePhases, Hashes, Images, New, OldImage, NoHash, NoImage, Undone, Early
<1>11. TmplInv'
  BY <1>3, <1>6, TmplFrame
<1> QED BY <1>4, <1>6, <1>8, <1>10, <1>11

(* A reconcile that only goes on or ends, with the rest as it is. *)
LEMMA RecFrame ==
  ASSUME IInv, UNCHANGED <<pipe, build, test, seen>>, Still, faults' \in 0 .. MaxFaults,
         rec.todo # <<>>, rec' = Idle \/ rec' = [rec EXCEPT !.todo = rec'.todo]
  PROVE  /\ BuildInv' /\ TestInv' /\ SourceInv' /\ PipeInv' /\ TmplInv'
         /\ (rec' = Idle => TodoInv')
<1> USE DEF IInv
<1>1. /\ conf' = conf /\ pipe' = pipe /\ seen' = seen /\ tmpl' = tmpl /\ plan' = plan /\ live' = live
      /\ applied' = applied /\ drifts' = drifts /\ build' = build /\ test' = test
      /\ UNCHANGED buildVars /\ UNCHANGED testVars
  BY DEF Still, tmplVars, buildVars, testVars
<1>2. BuildInv' /\ TestInv'
  BY <1>1, BuildFrame, TestFrame
<1>3. SourceInv' /\ (Tested' <=> Tested)
  BY <1>1 DEF SourceInv, Tested
<1>4. rec' = Idle => TodoInv'
  BY DEF TodoInv, Idle, NewPipe, NoHash, NoImage
<1>5. TmplInv'
  BY <1>1, <1>3, TmplFrame
<1>6. /\ rec'.todo = <<>> \/ rec'.pipe = rec.pipe
      /\ rec'.pipe \in Pipes /\ rec' = [pipe |-> rec'.pipe, todo |-> rec'.todo]
  <2>1. CASE rec' = Idle
    BY <2>1, PipeTypes DEF Idle
  <2>2. CASE rec' = [rec EXCEPT !.todo = rec'.todo]
    BY <2>2, PipeTypes
  <2> QED BY <2>1, <2>2
<1>7. PipeInv'
  BY <1>1, <1>3, <1>6
     DEF PipeInv, Pipes, PipePhases, Hashes, Images, New, OldImage, NoHash, NoImage, Undone, Early
<1> QED BY <1>2, <1>3, <1>4, <1>5, <1>7

(* handle_planning looks for the plan the template shows and decides what to write next. *)
LEMMA LookStep ==
  ASSUME IInv, Write, pipe.phase = "Planning", rec.todo = <<W("look", 0)>>
  PROVE  IInv'
<1> USE DEF IInv
<1>1. rec.todo # <<>> /\ Op = "look"
  BY NextWrite
<1>2. Look
  BY <1>1 DEF Write, CreateBuild, CreateTest, WriteStatus, PatchTemplate, Writes
<1>3. PICK holds \in BOOLEAN :
        rec' = IF Captured(holds) = Wait THEN Idle ELSE [rec EXCEPT !.todo = Captured(holds)]
  BY <1>2 DEF Look
<1>4. Captured(holds) # Wait => rec'.todo = Captured(holds)
  BY <1>3, PipeTypes
<1>5. /\ BuildInv' /\ TestInv' /\ SourceInv' /\ PipeInv' /\ TmplInv' /\ (rec' = Idle => TodoInv')
  <2>1. UNCHANGED <<pipe, build, test, seen>> /\ Still /\ faults' \in 0 .. MaxFaults
    BY <1>2, TestTypes DEF Look
  <2>2. rec' = Idle \/ rec' = [rec EXCEPT !.todo = rec'.todo]
    BY <1>3, <1>4
  <2> QED BY <1>1, <2>1, <2>2, RecFrame
<1>6. ASSUME tmpl.pend # NoHash, Captured(holds) # Wait
      PROVE  TodoInv'
  <2>1. ~conf.used => tmpl.made # OldImage
    BY <1>6 DEF TmplInv, Undone
  <2>2. ~conf.used => tmpl.made = pipe.ami /\ tmpl.want = pipe.ami
    BY <2>1 DEF TmplInv, Undone
  <2>3. conf.mode \in {"auto", "manual", "webhook"} /\ tmpl.pend \in Hashes
    BY PipelineAssumption, TmplTypes DEF PipeInv
  <2>4. CASE ~holds
    <3>1. rec'.todo = <<W("phase", "Failed")>>
      BY <1>4, <1>6, <2>4 DEF Captured, Error, Phase
    <3>2. Fails'
      BY <1>2, <3>1 DEF Look, Fails, W
    <3> QED BY <3>2 DEF TodoInv
  <2>5. CASE holds
    <3>1. \E to \in {"Applying", "AwaitingApproval", "Failed"} :
            Captured(holds) = <<W("hash", tmpl.pend)>> \o <<W("phase", to)>>
      BY <1>6, <2>3, <2>5 DEF Captured, Error, Phase
    <3>2. PICK to \in {"Applying", "AwaitingApproval", "Failed"} :
            rec'.todo = <<W("hash", tmpl.pend), W("phase", to)>>
      BY <1>4, <1>6, <3>1, Lists
    <3>3. Captures'
      BY <1>2, <2>2, <2>3, <3>2 DEF Look, Still, tmplVars, Captures, W, Hashes, Images
    <3> QED BY <3>3 DEF TodoInv
  <2> QED BY <2>4, <2>5
<1>7. tmpl.pend = NoHash => Captured(holds) = Wait
  BY DEF Captured
<1>8. TodoInv'
  BY <1>3, <1>5, <1>6, <1>7
<1> QED BY <1>5, <1>8

(* Whatever a reconcile has left to write, writing it keeps the invariant. *)
LEMMA WriteKeeps ==
  ASSUME IInv, Write
  PROVE  IInv'
<1>1. rec # Idle
  BY DEF Write, CreateBuild, CreateTest, WriteStatus, PatchTemplate, Look, Writes, Idle
<1>2. CASE Fails \/ Took \/ Approved \/ Verifies
  BY <1>2, PhaseWrites
<1>3. CASE Creates
  BY <1>3, PhaseWrites, BuildWrite DEF Creates
<1>4. CASE Takes
  BY <1>4, AmiWrite
<1>5. CASE Tests
  BY <1>5, PhaseWrites, TestWrite DEF Tests
<1>6. CASE Plans
  <2>1. pipe.phase = "Planning"
    BY <1>6 DEF Plans
  <2>2. CASE rec.todo = <<W("look", 0)>>
    BY <2>1, <2>2, LookStep
  <2>3. ASSUME NEW v \in {OldImage, pipe.ami}, rec.todo = <<W("var", pipe.ami), W("prev", v), W("look", 0)>>
        PROVE  IInv'
    <3>1. pipe.ami # 0
      BY <2>1 DEF IInv, PipeInv, Undone, New
    <3> DEFINE next == W("prev", v)
               last == W("look", 0)
    <3>2. \E u \in {OldImage, pipe.ami} : next = W("prev", u) /\ last = W("look", 0)
      OBVIOUS
    <3>3. rec.todo = <<W("var", pipe.ami), next, last>>
      BY <2>3
    <3> HIDE DEF next, last
    <3> QED BY <2>1, <3>1, <3>2, <3>3, VarWrite
  <2>4. ASSUME NEW v \in {OldImage, pipe.ami}, rec.todo = <<W("prev", v), W("look", 0)>>
        PROVE  IInv'
    BY <2>1, <2>4, PrevWrite
  <2> QED BY <1>6, <2>2, <2>3, <2>4 DEF Plans
<1>7. CASE Captures
  <2>1. PICK to \in {"Applying", "AwaitingApproval", "Failed"} :
          \/ rec.todo = <<W("phase", to)>>
          \/ \E h \in Hashes : rec.todo = <<W("hash", h), W("phase", to)>>
    BY <1>7 DEF Captures
  <2> QED BY <1>7, <2>1, PhaseWrites, HashWrite
<1>8. CASE Applies
  BY <1>8, PhaseWrites, ApproveWrite DEF Applies
<1>9. CASE Reverts
  <2>1. PICK v \in {OldImage, pipe.ami} : v # 0 /\ rec.todo = <<W("var", v), W("phase", "Failed")>>
    BY <1>9 DEF Reverts
  <2> DEFINE next == W("phase", "Failed")
  <2>2. next = W("phase", "Failed") /\ rec.todo = <<W("var", v), next>>
    BY <2>1
  <2> HIDE DEF next
  <2> QED BY <1>9, <2>1, <2>2, VarWrite DEF Reverts
<1> QED BY <1>1, <1>2, <1>3, <1>4, <1>5, <1>6, <1>7, <1>8, <1>9 DEF IInv, TodoInv

(* A failed call and a death end the reconcile, with or without the error. *)
LEMMA FaultKeeps ==
  ASSUME IInv, CallFails \/ Die
  PROVE  IInv'
<1> USE DEF IInv
<1>1. /\ rec.todo # <<>> /\ faults' \in 0 .. MaxFaults /\ UNCHANGED <<pipe, build, test, seen>> /\ Still
      /\ rec' = Idle \/ rec' = [rec EXCEPT !.todo = Error]
  <2>1. /\ rec.todo # <<>> /\ faults < MaxFaults /\ faults' = faults + 1
        /\ UNCHANGED <<pipe, build, test, seen>> /\ Still
        /\ rec' = Idle \/ rec' = [rec EXCEPT !.todo = Error]
    BY DEF CallFails, Die
  <2>2. faults' \in 0 .. MaxFaults
    BY <2>1, TestTypes, Bounds
  <2> QED BY <2>1, <2>2
<1>2. rec' = [rec EXCEPT !.todo = Error] => rec'.todo = Error
  BY PipeTypes
<1>3. BuildInv' /\ TestInv' /\ SourceInv' /\ PipeInv' /\ TmplInv' /\ (rec' = Idle => TodoInv')
  BY <1>1, <1>2, RecFrame
<1>4. ASSUME rec'.todo = Error
      PROVE  TodoInv'
  <2>1. rec # Idle
    BY <1>1 DEF Idle
  <2>2. pipe.phase \notin {"Completed", "Failed"}
    BY <2>1 DEF TodoInv, Fails, Creates, Takes, Took, Tests, Plans, Captures, Approved, Applies, Verifies, Reverts
  <2>3. Fails'
    BY <1>1, <1>4, <2>2 DEF Fails, Error, Phase, W
  <2> QED BY <2>3 DEF TodoInv
<1> QED BY <1>1, <1>2, <1>3, <1>4

(* A human approves. *)
LEMMA ApproveKeeps ==
  ASSUME IInv, Approve
  PROVE  IInv'
<1> USE DEF IInv
<1>1. /\ conf' = conf /\ rec' = rec /\ seen' = seen /\ tmpl' = tmpl /\ plan' = plan /\ live' = live
      /\ applied' = applied /\ drifts' = drifts /\ build' = build /\ test' = test /\ faults' = faults
      /\ UNCHANGED buildVars /\ UNCHANGED testVars /\ pipe' = [pipe EXCEPT !.by = TRUE]
      /\ pipe.phase = "AwaitingApproval"
  BY DEF Approve, Still, tmplVars, buildVars, testVars
<1>2. pipe' = [phase |-> pipe.phase, ami |-> pipe.ami, prev |-> pipe.prev, hash |-> pipe.hash, by |-> TRUE]
  BY <1>1, PipeTypes
<1>3. pipe'.phase = pipe.phase /\ pipe'.ami = pipe.ami /\ pipe'.prev = pipe.prev /\ pipe'.hash = pipe.hash
  BY <1>2
<1>4. pipe' \in Pipes
  BY <1>2, PipeTypes DEF Pipes
<1>5. BuildInv' /\ TestInv'
  BY <1>1, TestTypes, BuildFrame, TestFrame
<1>6. SourceInv' /\ (Tested' <=> Tested)
  BY <1>1, <1>3 DEF SourceInv, Tested
<1>7. TodoInv'
  <2>1. rec = Idle \/ Fails \/ Approved
    BY <1>1 DEF TodoInv, Creates, Takes, Took, Tests, Plans, Captures, Applies, Verifies, Reverts
  <2>2. rec = Idle => rec' = Idle'
    BY <1>1 DEF Idle, NewPipe, NoHash, NoImage
  <2>3. (Fails => Fails') /\ (Approved => Approved')
    BY <1>1, <1>3 DEF Fails, Approved, W
  <2> QED BY <2>1, <2>2, <2>3 DEF TodoInv
<1>8. PipeInv'
  BY <1>1, <1>3, <1>4, <1>6
     DEF PipeInv, Pipes, PipePhases, Hashes, Images, New, OldImage, NoHash, NoImage, Undone, Early
<1>9. TmplInv'
  BY <1>1, <1>3, <1>6
     DEF TmplInv, TmplPhases, Hashes, Images, OldImage, NoHash, NoImage, Undone, Early, Trusted, Earlier
<1> QED BY <1>5, <1>6, <1>7, <1>8, <1>9

--------------------------------------------------------------------------------
(* The initial states satisfy the inductive invariant. *)
LEMMA InitHolds == Init => IInv
<1> SUFFICES ASSUME Init
             PROVE  IInv
  OBVIOUS
<1> USE Bounds
<1>1. BuildInv
  <2>1. /\ build = Build!NoBuild /\ copy = Build!NoBuild /\ disk = Build!Empty /\ faults = 0
        /\ images = <<Made(0)>>
    BY DEF Init, Build!Init, Made
  <2>2. Made(0) \in [tpl : 0 .. MaxGen, vars : 0 .. MaxGen]
    BY DEF Made, Build!Image
  <2> DEFINE first == Made(0)
  <2> HIDE DEF first
  <2>3. images = <<first>> /\ first \in [tpl : 0 .. MaxGen, vars : 0 .. MaxGen]
    BY <2>1, <2>2 DEF first
  <2>4. Len(images) = 1 /\ images[1] = first /\ images \in Seq([tpl : 0 .. MaxGen, vars : 0 .. MaxGen])
    BY <2>3
  <2>5. Build!TypeOK
    BY <2>1, <2>4 DEF Build!TypeOK, Build!Objects, Build!Phases, Build!NoBuild, Build!Empty, Build!NoImage
  <2>6. build.gen = 0 /\ build.obs = 0 /\ build.phase = "Pending"
    BY <2>1 DEF Build!NoBuild
  <2> QED BY <2>1, <2>4, <2>5, <2>6 DEF BuildInv, first
<1>2. TestInv /\ test.ami = 0 /\ test.phase = "None"
  <2>1. PICK g \in Graphs : test = [phase |-> "None", ami |-> 0, deps |-> g,
                                    suite |-> [s \in Suites |-> "Pending"]]
    BY DEF Init, Test!Init
  <2>2. jobs = [s \in Suites |-> Test!NoJob] /\ faults = 0
    BY DEF Init, Test!Init
  <2>3. Test!NoJob \in Jobs
    BY DEF Test!NoJob, Jobs, JobStates
  <2>4. test.phase = "None" /\ test.ami = 0 /\ test.suite = [s \in Suites |-> "Pending"]
    BY <2>1
  <2>5. \A s \in Suites : jobs[s] = Test!NoJob /\ test.suite[s] = "Pending"
    BY <2>2, <2>4
  <2>6. Test!TypeOK
    <3>1. test \in [phase : Test!TestPhases, ami : Nat, deps : Graphs, suite : [Suites -> Test!SuitePhases]]
      BY <2>1 DEF Test!TestPhases, Test!SuitePhases
    <3>2. jobs \in [Suites -> Jobs]
      BY <2>2, <2>3
    <3> QED BY <2>2, <3>1, <3>2 DEF Test!TypeOK, Jobs, JobStates
  <2> QED BY <2>4, <2>5, <2>6 DEF TestInv
<1> DEFINE h == IF conf.used THEN Earlier ELSE NoHash
<1>3. /\ conf \in Confs /\ pipe = NewPipe /\ rec = Idle /\ plan = NoPlan /\ live = <<OldImage, 0>>
      /\ tmpl = [want |-> OldImage, made |-> OldImage, phase |-> "Ready", pend |-> h, ok |-> h]
      /\ seen = {} /\ applied = {} /\ drifts = 0
  BY DEF Init
<1>11. /\ h # NoHash => conf.used /\ h = Earlier
       /\ h \in {Earlier, NoHash}
  OBVIOUS
<1> HIDE DEF h
<1>4. pipe.phase = "Pending" /\ pipe.ami = 0 /\ pipe.prev = 0 /\ pipe.hash = NoHash /\ NewPipe \in Pipes
  BY <1>3 DEF NewPipe, NoImage, NoHash, Pipes, PipePhases, Hashes, Images
<1>5. SourceInv
  BY <1>2, <1>4 DEF SourceInv
<1>6. TodoInv
  BY <1>3 DEF TodoInv
<1>7. tmpl.want = OldImage /\ tmpl.made = OldImage /\ tmpl.phase = "Ready" /\ tmpl.pend = h
      /\ tmpl.ok = h /\ rec.todo = <<>> /\ rec.pipe = NewPipe /\ ~plan.on
      /\ rec = [pipe |-> rec.pipe, todo |-> rec.todo]
  BY <1>3 DEF Idle, NoPlan
<1>8. PipeInv
  BY <1>3, <1>4, <1>7 DEF PipeInv, Early
<1>9. /\ NoHash \in Hashes /\ OldImage \in Images /\ live \in Hashes /\ live[1] = OldImage
      /\ h \in Hashes
  BY <1>3, <1>11 DEF Hashes, Images, NoHash, NoImage, Earlier
<1>10. TmplInv
  <2>1. tmpl \in [want : Images, made : Images, phase : TmplPhases, pend : Hashes, ok : Hashes]
    BY <1>3, <1>9 DEF TmplPhases
  <2>2. plan \in [on : BOOLEAN, hash : Hashes, ok : BOOLEAN]
    BY <1>3, <1>9 DEF NoPlan
  <2> QED BY <1>3, <1>4, <1>7, <1>9, <1>11, <2>1, <2>2 DEF TmplInv, Early, Undone, Trusted
<1> QED BY <1>1, <1>2, <1>5, <1>6, <1>8, <1>10 DEF IInv

(* Every step keeps the inductive invariant: one case per disjunct of Next. *)
LEMMA NextKeeps == IInv /\ [Next]_vars => IInv'
<1> SUFFICES ASSUME IInv, [Next]_vars
             PROVE  IInv'
  OBVIOUS
<1>1. CASE Build!Next /\ UNCHANGED <<testVars, pipeVars, tmplVars>>
  BY <1>1, BuildMovesKeep
<1>2. CASE Test!Next /\ UNCHANGED <<disk, images, copy, pipeVars, tmplVars>>
  BY <1>2, TestMovesKeep
<1>3. CASE Template
  BY <1>3, TemplateKeeps
<1>4. CASE Drift
  BY <1>4, DriftKeeps
<1>5. CASE Start
  BY <1>5, StartKeeps
<1>6. CASE Write
  BY <1>6, WriteKeeps
<1>7. CASE CallFails \/ Die
  BY <1>7, FaultKeeps
<1>8. CASE Approve
  BY <1>8, ApproveKeeps
<1>9. CASE UNCHANGED vars
  <2>1. /\ UNCHANGED buildVars /\ UNCHANGED testVars /\ UNCHANGED <<conf, pipe, rec, seen>>
        /\ UNCHANGED <<build, test, tmpl, plan, live, applied, drifts, faults>> /\ Settled
    BY <1>9 DEF vars, buildVars, testVars, pipeVars, tmplVars, Settled
  <2>2. faults' \in 0 .. MaxFaults
    BY <2>1, TestTypes DEF IInv
  <2>3. BuildInv' /\ TestInv' /\ SourceInv' /\ TodoInv' /\ PipeInv' /\ (Tested => Tested')
    BY <2>1, <2>2, SettledKeeps
  <2> QED BY <2>1, <2>3, TmplFrame DEF IInv
<1> QED
  BY <1>1, <1>2, <1>3, <1>4, <1>5, <1>6, <1>7, <1>8, <1>9 DEF Next, Reconcile, Write

(* The inductive invariant of the pipeline and its children holds. *)
THEOREM InductiveInvariant == Spec => []IInv
BY InitHolds, NextKeeps, PTL DEF Spec

(* The statuses of the three objects stay in their ranges, and a reconcile has at *)
(* most three writes to make (image_pipeline_controller.rs and its children).     *)
THEOREM TypeCorrect == Spec => []TypeOK
<1>1. IInv => TypeOK
  <2> SUFFICES ASSUME IInv
               PROVE  TypeOK
    OBVIOUS
  <2>1. Len(rec.todo) <= 3
    <3> DEFINE Short(a, b, c) == rec.todo = <<a>> \/ rec.todo = <<a, b>> \/ rec.todo = <<a, b, c>>
               len == Len(rec.todo)
    <3>0. ASSUME NEW a, NEW b, NEW c, Short(a, b, c)
          PROVE  len <= 3
      <4>1. Len(<<a>>) = 1 /\ Len(<<a, b>>) = 2 /\ Len(<<a, b, c>>) = 3
        BY Lists
      <4>2. len = 1 \/ len = 2 \/ len = 3
        BY <3>0, <4>1, Zenon
      <4> HIDE DEF len, Short
      <4> QED BY <4>2
    <3> HIDE DEF len
    <3>1. CASE rec = Idle
      BY <3>1 DEF Idle, len
    <3>2. CASE Fails \/ Took \/ Approved \/ Verifies \/ Tests
      <4>1. \E a, b, c : Short(a, b, c)
        BY <3>2, Zenon DEF Fails, Took, Approved, Verifies, Tests
      <4> HIDE DEF Short
      <4> QED BY <3>0, <4>1, Zenon DEF len
    <3>3. CASE Creates \/ Takes \/ Reverts
      <4>1. \E a, b, c : Short(a, b, c)
        BY <3>3, Zenon DEF Creates, Takes, Reverts
      <4> HIDE DEF Short
      <4> QED BY <3>0, <4>1, Zenon DEF len
    <3>4. CASE Plans
      <4>1. \E a, b, c : Short(a, b, c)
        BY <3>4, Zenon DEF Plans
      <4> HIDE DEF Short
      <4> QED BY <3>0, <4>1, Zenon DEF len
    <3>5. CASE Captures
      <4>1. \E a, b, c : Short(a, b, c)
        BY <3>5, Zenon DEF Captures
      <4> HIDE DEF Short
      <4> QED BY <3>0, <4>1, Zenon DEF len
    <3>6. CASE Applies
      <4>1. \E a, b, c : Short(a, b, c)
        BY <3>6, Zenon DEF Applies
      <4> HIDE DEF Short
      <4> QED BY <3>0, <4>1, Zenon DEF len
    <3> QED BY <3>1, <3>2, <3>3, <3>4, <3>5, <3>6 DEF IInv, TodoInv, len
  <2> QED BY <2>1 DEF TypeOK, IInv, BuildInv, TestInv, PipeInv, TmplInv
<1> QED BY <1>1, InductiveInvariant, PTL

(* The image a Ready build names was made from the one generation the build shows *)
(* as observed: no edit, death or lost workspace mixes two generations of the     *)
(* template and the variables (reconcile_packer_build, update_phase).             *)
THEOREM ImageOfSpecCorrect == Spec => []ImageOfSpec
<1>1. IInv => ImageOfSpec
  BY DEF IInv, BuildInv, ImageOfSpec, Build!AmiOfSpec, Made
<1> QED BY <1>1, InductiveInvariant, PTL

(* A Passed test ran every suite on the image it names and behind its             *)
(* dependencies, however many suites there are and whatever their graph, with     *)
(* Jobs adopted and passes repeated after deaths (handle_running).                *)
THEOREM PassedWasRunCorrect == Spec => []PassedWasRun
<1>1. IInv => PassedWasRun
  <2> SUFFICES ASSUME IInv
               PROVE  PassedWasRun
    OBVIOUS
  <2>1. ASSUME NEW s \in Suites, jobs[s].state = "Succeeded"
        PROVE  jobs[s] = [state |-> "Succeeded", ami |-> test.ami]
    <3>1. jobs[s] \in Jobs /\ jobs[s] # Test!NoJob
      BY <2>1, TestTypes DEF IInv, Test!NoJob
    <3>2. jobs[s].ami = test.ami
      BY <3>1 DEF IInv, TestInv
    <3> QED BY <2>1, <3>1, <3>2 DEF Jobs
  <2>2. test.phase = "Passed" => \A s \in Suites : jobs[s].state = "Succeeded"
    BY DEF IInv, TestInv
  <2>3. \A s \in Suites : jobs[s] # Test!NoJob => \A d \in test.deps[s] : jobs[d].state = "Succeeded"
    BY DEF IInv, TestInv
  <2> QED BY <2>1, <2>2, <2>3 DEF PassedWasRun, Test!PassedWasRun
<1> QED BY <1>1, InductiveInvariant, PTL

(* Where tests are configured and the child build is left alone, the template     *)
(* deployed no new image but the one that passed, although the pipeline and the   *)
(* test read the build's image each on its own (handle_building, handle_testing,  *)
(* handle_resolving).                                                             *)
THEOREM DeployedWasTestedCorrect == Spec => []DeployedWasTested
<1>1. IInv => DeployedWasTested
  BY DEF IInv, TmplInv, Tested, DeployedWasTested
<1> QED BY <1>1, InductiveInvariant, PTL

(* On a template that shows no plan of an earlier apply, a pipeline that verifies *)
(* or has completed has had its image deployed, whether the template waits for an *)
(* approval or applies by itself: a Ready from before the change is never taken   *)
(* for that of the new image (handle_applying).                                   *)
THEOREM CompletedIsDeployedCorrect == Spec => []CompletedIsDeployed
<1>1. IInv => CompletedIsDeployed
  BY DEF IInv, PipeInv, CompletedIsDeployed, Deployed
<1> QED BY <1>1, InductiveInvariant, PTL

(* A template that needs an approval starts to apply only a plan the pipeline     *)
(* captured and ran its assertions on, or the one approved before the pipeline,   *)
(* whose approval stays on the status, however often drift makes it plan again    *)
(* (plan_hash_matches_reviewed in handle_applying, update_apply_status).          *)
THEOREM OnlyCapturedPlansCorrect == Spec => OnlyCapturedPlans
<1> DEFINE Allowed == tmpl.phase # "Applying" /\ tmpl'.phase = "Applying" /\ conf.target # "auto"
                        => plan.hash \in seen \/ (conf.used /\ plan.hash = Earlier)
<1>1. IInv /\ [Next]_vars => [Allowed]_vars
  <2> SUFFICES ASSUME IInv, [Next]_vars, tmpl.phase # "Applying", tmpl'.phase = "Applying",
                      conf.target # "auto"
               PROVE  plan.hash \in Trusted
    BY DEF Trusted
  <2> USE DEF IInv
  <2>1. \/ tmpl' = tmpl \/ PlanEnd
        \/ \E phase \in {"Planning", "Drifted", "Failed", "Ready"} : tmpl' = [tmpl EXCEPT !.phase = phase]
        \/ tmpl' = [tmpl EXCEPT !.made = tmpl.want, !.phase = "Planning"]
        \/ \E v : tmpl' = [tmpl EXCEPT !.want = v]
        \/ \E v : tmpl' = [tmpl EXCEPT !.ok = v]
    BY DEF Next, vars, tmplVars, Template, Notice, Retry, DriftSeen, Correct, PlanStart, Apply, Drift, Reconcile,
      Start, CreateBuild, CreateTest, WriteStatus, PatchTemplate, Look, CallFails, Die, Approve, Still
  <2>2. CASE PlanEnd
    <3>1. plan.on /\ plan.ok \in BOOLEAN
      BY <2>2, TmplTypes DEF PlanEnd
    <3>2. ~plan.ok => tmpl'.phase # "Applying"
      <4> SUFFICES ASSUME ~plan.ok
                   PROVE  tmpl'.phase # "Applying"
        OBVIOUS
      <4>1. CASE tmpl' = [tmpl EXCEPT !.phase = "Ready"]
        BY <4>1, TmplTypes DEF Tmpls
      <4>2. CASE tmpl' = [tmpl EXCEPT !.pend = plan.hash, !.ok = NoHash]
        <5> DEFINE first == [tmpl EXCEPT !.pend = plan.hash]
        <5>1. first = [want |-> tmpl.want, made |-> tmpl.made, phase |-> tmpl.phase, pend |-> plan.hash, ok |-> tmpl.ok]
          BY TmplTypes DEF Tmpls
        <5>2. tmpl' = [first EXCEPT !.ok = NoHash]
          BY <4>2
        <5> HIDE DEF first
        <5> QED BY <5>1, <5>2
      <4> QED BY <2>2, <4>1, <4>2 DEF PlanEnd
    <3> QED BY <3>1, <3>2 DEF TmplInv
  <2>3. ASSUME NEW phase \in {"Planning", "Drifted", "Failed", "Ready"}, tmpl' = [tmpl EXCEPT !.phase = phase]
        PROVE  FALSE
    BY <2>3, TmplTypes DEF Tmpls
  <2>4. ASSUME NEW v, tmpl' = [tmpl EXCEPT !.want = v] \/ tmpl' = [tmpl EXCEPT !.ok = v]
        PROVE  FALSE
    BY <2>4, TmplTypes DEF Tmpls
  <2>5. ASSUME tmpl' = [tmpl EXCEPT !.made = tmpl.want, !.phase = "Planning"]
        PROVE  FALSE
    <3> DEFINE first == [tmpl EXCEPT !.made = tmpl.want]
    <3>1. first = [want |-> tmpl.want, made |-> tmpl.want, phase |-> tmpl.phase, pend |-> tmpl.pend, ok |-> tmpl.ok]
      BY TmplTypes DEF Tmpls
    <3>2. tmpl' = [first EXCEPT !.phase = "Planning"]
      BY <2>5
    <3> HIDE DEF first
    <3> QED BY <3>1, <3>2
  <2> QED BY <2>1, <2>2, <2>3, <2>4, <2>5
<1> QED BY <1>1, InductiveInvariant, PTL DEF Spec, OnlyCapturedPlans
================================================================================
