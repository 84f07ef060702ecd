-------------------------- MODULE OrchestratorBuild --------------------------
(***************************************************************************)
(* From a plan of the decision engine to artifacts in the registry         *)
(* (src/backend/orchestrator/internal: decision/processor.go,              *)
(* decision/types.go, ebpf/orchestrator.go, render.go, pack.go,            *)
(* registry.go).                                                           *)
(*                                                                         *)
(* Each eBPF control of a plan is rendered into a directory named after    *)
(* the template and the second, compiled there, packed and uploaded.  HTTP *)
(* handlers process plans concurrently and share these directories, and    *)
(* the package files, whose names do not change from build to build.       *)
(***************************************************************************)
EXTENDS Integers, Sequences, FiniteSets

CONSTANTS Builders,    \* HTTP handlers
          Plans,       \* plans they may get: sequences of controls
          Templates,   \* template directories that exist
          MaxSecond, MaxBuilds, \* bounds
          NoArtifact

ASSUME BuildAssumption == MaxSecond \in Nat /\ NoArtifact \notin Nat

\* Controls as they arrive: the decision engine gives them no artifact.
Controls == UNION {{p[i] : i \in DOMAIN p} : p \in Plans}
ASSUME BuildPlansAssumption ==
    /\ \A p \in Plans : p \in Seq(Controls)
    /\ \A c \in Controls :
          c \in [id : {c.id}, type : {c.type}, status : {c.status}, artifact : {NoArtifact}]

VARIABLES second,     \* the clock, in the seconds render directories are named by
          build,      \* what each handler is doing
          builds,     \* plans taken so far
          source,     \* render directory -> control whose parameters its source holds
          object,     \* render directory -> control its compiled object was made from
          packages,   \* package file (plan and control id) -> what it holds
          uploaded,   \* artifacts of the registry, in the order of upload
          shared,     \* history: two handlers used one directory at a time
          spoilt      \* history: package files that two handlers used at a time since
                      \* they were last created, or whose end was not written

tree == <<source, object, shared>>
files == <<packages, spoilt>>
buildVars == <<second, build, builds, tree, files, uploaded>>

(* GetEBPFTemplate: two pairs of control types share a template. *)
TemplateOf(type) ==
    CASE type \in {"drop_by_cgroup", "drop_by_process"} -> "drop_egress_by_cgroup"
      [] type \in {"deny_by_cgroup", "deny_by_process"} -> "deny_syscall_for_cgroup"
      [] type = "rate_limit" -> "rate_limit"
      [] OTHER -> "traffic_monitor"

IsEBPFControl(type) == type \in {"drop_by_cgroup", "drop_by_process", "deny_by_cgroup",
                                 "deny_by_process", "rate_limit", "traffic_monitor"}

Resting == [stage |-> "resting"]

Dirs == Templates \X (0..MaxSecond)

BuildInit ==
    /\ second = 0 /\ build = [b \in Builders |-> Resting] /\ builds = 0
    /\ source = [d \in Dirs |-> NoArtifact] /\ object = [d \in Dirs |-> NoArtifact]
    /\ packages = <<>> /\ uploaded = <<>> /\ shared = FALSE /\ spoilt = {}

Working(b) == build[b] # Resting
ControlOf(b) == build[b].plan[build[b].at]

(* ProcessPlan, or UpdatePlanControl for a plan of one control. *)
ReceivePlan(b, plan, ready) ==
    /\ ~Working(b) /\ builds < MaxBuilds /\ builds' = builds + 1
    /\ build' = [build EXCEPT ![b] =
           [stage |-> "next", plan |-> plan, at |-> 1, dir |-> NoArtifact,
            ready |-> ready, response |-> <<>>]]
    /\ UNCHANGED <<second, tree, files, uploaded>>

ReplacedInCopy(plan, i, control) == plan

(* plan.Controls[i] = control: the loop variable is a copy. *)
Replaced(plan, i, control) == [plan EXCEPT ![i] = control]

(* The end of the loop's body for a control that worked out: the plan and  *)
(* the response both get the new control.                                  *)
Finished(q, control) ==
    [q EXCEPT !.stage = "next", !.at = @ + 1, !.response = Append(@, control),
              !.plan = Replaced(@, q.at, control)]

(* An error: the response says "failed"; `continue` leaves the plan's own  *)
(* control as it was.                                                      *)
Failed(q) ==
    [q EXCEPT !.stage = "next", !.at = @ + 1,
              !.response = Append(@, [q.plan[q.at] EXCEPT !.status = "failed"])]

Fails(b) ==
    /\ build' = [build EXCEPT ![b] = Failed(@)]
    /\ UNCHANGED <<second, builds, tree, files, uploaded>>

InUse(d, b) == \E c \in Builders \ {b} : Working(c) /\ build[c].stage # "next" /\ build[c].dir = d

(* Render up to the render directory; other controls are passed through. *)
NextControl(b) ==
    LET q == build[b]
        d == <<TemplateOf(ControlOf(b).type), second>>
    IN  /\ Working(b) /\ q.stage = "next" /\ q.at <= Len(q.plan)
        /\ \/ /\ ~IsEBPFControl(ControlOf(b).type)
              /\ build' = [build EXCEPT ![b] = Finished(q, ControlOf(b))]
              /\ UNCHANGED <<second, builds, tree, files, uploaded>>
           \/ /\ IsEBPFControl(ControlOf(b).type) /\ d[1] \notin Templates
              /\ Fails(b)
           \/ /\ IsEBPFControl(ControlOf(b).type) /\ d[1] \in Templates
              /\ build' = [build EXCEPT ![b] = [q EXCEPT !.stage = "copy", !.dir = d]]
              /\ shared' = (shared \/ InUse(d, b))
              /\ UNCHANGED <<second, builds, source, object, files, uploaded>>

(* substituteParams: the source with the parameters of the control. *)
SubstituteParams(b) == ControlOf(b).id

(* copyTemplate overwrites what the directory holds. *)
CopyTemplate(b) ==
    /\ Working(b) /\ build[b].stage = "copy"
    /\ source' = [source EXCEPT ![build[b].dir] = SubstituteParams(b)]
    /\ build' = [build EXCEPT ![b].stage = "make"]
    /\ UNCHANGED <<second, builds, object, shared, files, uploaded>>

(* compileBPF: make either works on the source of the moment or fails. *)
CompileBPF(b) ==
    /\ Working(b) /\ build[b].stage = "make"
    /\ \/ /\ object' = [object EXCEPT ![build[b].dir] = source[build[b].dir]]
          /\ build' = [build EXCEPT ![b].stage = "pack"]
          /\ UNCHANGED <<second, builds, source, shared, files, uploaded>>
       \/ Fails(b)

(* The package file of a control: plan, control and architecture name it,  *)
(* the version is always the same.                                         *)
PackageOf(b) == ControlOf(b).id

Empty == [state |-> "empty", program |-> NoArtifact, metadata |-> NoArtifact]
Torn == [state |-> "torn", program |-> NoArtifact, metadata |-> NoArtifact]

(* The object of the directory beside the metadata of the request.         *)
Packed(b) == [state |-> "whole", program |-> object[build[b].dir], metadata |-> ControlOf(b).id]

HasPackage(c, b) ==
    \E x \in Builders \ {b} :
        Working(x) /\ build[x].stage \in {"fill", "upload"} /\ PackageOf(x) = c

(* Pack: os.Create makes the file, or empties the one that is there.       *)
CreatePackage(b) ==
    LET c == PackageOf(b)
    IN  /\ Working(b) /\ build[b].stage = "pack"
        /\ \/ /\ packages' = [x \in DOMAIN packages \cup {c} |->
                                  IF x = c THEN Empty ELSE packages[x]]
              /\ spoilt' = IF HasPackage(c, b) THEN spoilt \cup {c} ELSE spoilt \ {c}
              /\ build' = [build EXCEPT ![b].stage = "fill"]
              /\ UNCHANGED <<second, builds, tree, uploaded>>
           \/ Fails(b)

(* ... and writes from its own start.  What another handler has written    *)
(* since may show through; an error leaves as much as was written; the     *)
(* errors of the three Close calls, which write the end, are not looked at. *)
FillPackage(b) ==
    LET c == PackageOf(b)
    IN  /\ Working(b) /\ build[b].stage = "fill"
        /\ \/ /\ \E content \in {Packed(b), Torn} :
                    /\ packages[c] = Empty => content = Packed(b)
                    /\ packages' = [packages EXCEPT ![c] = content]
              /\ build' = [build EXCEPT ![b].stage = "upload"]
              /\ UNCHANGED spoilt
           \/ /\ packages' = [packages EXCEPT ![c] = Torn]
              /\ build' = [build EXCEPT ![b].stage = "upload"]
              /\ spoilt' = spoilt \cup {c}
           \/ /\ \E content \in {packages[c], Torn} :
                    packages' = [packages EXCEPT ![c] = content]
              /\ build' = [build EXCEPT ![b] = Failed(@)]
              /\ UNCHANGED spoilt
        /\ UNCHANGED <<second, builds, tree, uploaded>>

(* createArtifact: the registry answers 201 with an ID, or it does not.    *)
(* The data sent is a placeholder, whatever the package file holds.        *)
SignAndUpload(b) ==
    LET q == build[b]
        ready == [ControlOf(b) EXCEPT !.status = q.ready, !.artifact = Len(uploaded) + 1]
    IN  /\ Working(b) /\ q.stage = "upload"
        /\ \/ /\ uploaded' = Append(uploaded, [name |-> ControlOf(b).id, data |-> "placeholder"])
              /\ build' = [build EXCEPT ![b] = Finished(q, ready)]
              /\ UNCHANGED <<second, builds, tree, files>>
           \/ Fails(b)

RespondPlan(b) ==
    /\ Working(b) /\ build[b].stage = "next" /\ build[b].at > Len(build[b].plan)
    /\ build' = [build EXCEPT ![b] = Resting]
    /\ UNCHANGED <<second, builds, tree, files, uploaded>>

BuildTick == second < MaxSecond /\ second' = second + 1
             /\ UNCHANGED <<build, builds, tree, files, uploaded>>

BuildNext ==
    \/ \E b \in Builders :
          \/ \E p \in Plans : ReceivePlan(b, p, "artifact_ready")
          \/ \E p \in Plans : Len(p) = 1 /\ ReceivePlan(b, p, "updated")
          \/ NextControl(b) \/ CopyTemplate(b) \/ CompileBPF(b)
          \/ CreatePackage(b) \/ FillPackage(b) \/ SignAndUpload(b) \/ RespondPlan(b)
    \/ BuildTick

BuildSpec == BuildInit /\ [][BuildNext]_buildVars

-----------------------------------------------------------------------------

Elems(s) == {s[i] : i \in DOMAIN s}

(* DeployPlan: the eBPF controls asked for, all of them when none is named, *)
(* without the ones that have no artifact.                                  *)
Deployable(plan, ids) ==
    {c \in Elems(plan) : /\ IsEBPFControl(c.type) /\ (ids = {} \/ c.id \in ids)
                         /\ c.artifact # NoArtifact}

-----------------------------------------------------------------------------

(* A package file that is whole holds the program of the control its       *)
(* metadata names, unless two handlers rendered one template in one        *)
(* second: the render directory is shared by name and nothing locks it.    *)
PackageHoldsItsProgram ==
    ~shared => \A c \in DOMAIN packages :
                   packages[c].state = "whole" =>
                      packages[c].metadata = c /\ packages[c].program = c

(* The package a handler goes on to upload is whole, unless another handler *)
(* had the file of the same plan and control open or was uploading it when *)
(* it was last created, or the end of it could not be written, which Pack  *)
(* does not report.                                                        *)
UploadedIsWhole ==
    \A b \in Builders :
        Working(b) /\ build[b].stage = "upload" /\ PackageOf(b) \notin spoilt =>
            PackageOf(b) \in DOMAIN packages /\ packages[PackageOf(b)].state = "whole"

(* Whatever failed on the way, the plan in memory and the response agree   *)
(* about every control that is not reported as failed, and one reported as *)
(* failed has no artifact: a later deployment of the plan skips it.        *)
PlanMatchesResponse ==
    \A b \in Builders : Working(b) =>
        \A i \in 1..(build[b].at - 1) :
            LET r == build[b].response[i]
            IN  IF r.status = "failed" THEN r.artifact = NoArtifact ELSE build[b].plan[i] = r

(* What DeployPlan would deploy of a processed plan was uploaded for the   *)
(* control it is deployed as, by this handler or any other, even when      *)
(* other controls of the plan failed.                                      *)
DeployedWasUploaded ==
    \A b \in Builders : Working(b) =>
        \A c \in Deployable(build[b].plan, {}) :
            c.artifact \in DOMAIN uploaded /\ uploaded[c.artifact].name = c.id

(* With two plans built at once, or one twice, and steps failing midway:    *)
(* packages hold their own programs and are whole when they are uploaded,  *)
(* the plan and its response agree, and only uploaded artifacts are        *)
(* deployed.                                                               *)
BuildsSound ==
    /\ PackageHoldsItsProgram
    /\ UploadedIsWhole
    /\ PlanMatchesResponse
    /\ DeployedWasUploaded
=============================================================================
