---------------------------- MODULE JobController ----------------------------
(***************************************************************************)
(* JobReconciler (internal/controller/job_controller.go, job_helper.go):   *)
(* the objects made for one Job.  A reconcile works on a copy of the Job   *)
(* from a cache that lags behind, applies the objects one by one, and      *)
(* updates the status last.                                                *)
(***************************************************************************)
EXTENDS Naturals, Sequences

CONSTANTS
  JobSpecs,       \* the specs a Job is given, see SpecType
  FrontConfig,    \* Config.FrontConfig is set
  EnableMetric,   \* Config.EnableMetric
  MaxJobFaults    \* bound: edits, deletions, failed calls and restarts

\* what of a spec, with the defaults of Config, decides about its objects
SpecType == [mirror : BOOLEAN, upstream : BOOLEAN, image : BOOLEAN, frontMode : BOOLEAN,
             disableFront : BOOLEAN, rsync : BOOLEAN, size : BOOLEAN]

ASSUME JobControllerAssumption ==
  /\ JobSpecs \subseteq SpecType
  /\ FrontConfig \in BOOLEAN /\ EnableMetric \in BOOLEAN
  /\ MaxJobFaults \in Nat

VARIABLES
  jobj,      \* the Job in the API server: spec and status
  jcache,    \* the controller's copy of it
  jfresh,    \* the copy is the latest version
  jobjs,     \* the objects made for the Job: what each is made of, {} if there is none
  jqueued,   \* the Job is in the work queue
  jrc,       \* the reconcile in progress
  jactive,   \* the cache knows an active Manager
  jfaults    \* edits, deletions, failed calls and restarts so far

jvars == <<jobj, jcache, jfresh, jobjs, jqueued, jrc, jactive, jfaults>>

Kinds == {"pvc", "svc", "ingress", "cm", "app", "sm"}
Owned == {"pvc", "svc", "ingress", "app"}   \* the kinds that the controller watches
JIdle == [run |-> FALSE, copy |-> <<>>, fresh |-> FALSE, patches |-> <<>>, deletes |-> <<>>]

JobControllerInit ==
  /\ \E spec \in JobSpecs : jobj = [spec |-> spec, status |-> ""]
  /\ jcache = jobj
  /\ jfresh = TRUE
  /\ jobjs = [k \in Kinds |-> {}]
  /\ jqueued = TRUE
  /\ jrc = JIdle
  /\ jactive = FALSE
  /\ jfaults = 0

JFault == jfaults < MaxJobFaults /\ jfaults' = jfaults + 1

-----------------------------------------------------------------------------
(* The desired objects                                                     *)

\* the parts of a set that apply
Parts(parts) == {x[1] : x \in {y \in parts : y[2]}}

\* checkRsyncFront: whether there is a front
Front(spec) == spec.frontMode /\ ~spec.disableFront

\* desiredFrontConfigmap: only with a front configuration
HasConfigMap(spec) == Front(spec) /\ FrontConfig

\* the containers of the Deployment
workerContainer(spec, status) == spec.image /\ status # "Disabled"
frontContainer(spec) == Front(spec)
rsyncContainer(spec) == spec.rsync

\* desiredDeployment: its containers and the volume with the front's configuration
desiredDeployment(spec, status) ==
  Parts({<<"worker", workerContainer(spec, status)>>, <<"front", frontContainer(spec)>>,
         <<"rsync", rsyncContainer(spec)>>, <<"config", HasConfigMap(spec)>>})

\* desiredService: its ports
desiredService(spec) ==
  Parts({<<"api", TRUE>>, <<"front", Front(spec)>>, <<"rsync", spec.rsync>>, <<"metrics", EnableMetric>>})

desiredPersistentVolumeClaim == {"claim"}

\* desiredIngress: the rule that leads to the front, made only if there is one
desiredIngress(spec) == Parts({<<"front", Front(spec)>>})

\* desiredServiceMonitor: its endpoint, made only with metrics
desiredServiceMonitor == Parts({<<"metrics", EnableMetric>>})

Desired(spec, status) ==
  [pvc |-> desiredPersistentVolumeClaim, svc |-> desiredService(spec),
   ingress |-> desiredIngress(spec), cm |-> Parts({<<"config", HasConfigMap(spec)>>}),
   app |-> desiredDeployment(spec, status), sm |-> desiredServiceMonitor]

\* a worker needs an upstream, and the size of the volume is parsed before
\* the default is put in its place, which panics when there is none.  The
\* panic is not recovered: the controller restarts and queues the Job again.
Fails(j) == (j.status # "Disabled" /\ ~j.spec.upstream) \/ ~j.spec.size

PatchesAppFirst(d) ==
  LET Put(k) == IF d[k] # {} /\ (k = "pvc" \/ d.app # {}) THEN <<k>> ELSE <<>>
  IN Put("pvc") \o Put("svc") \o Put("app") \o Put("ingress") \o Put("cm") \o Put("sm")

\* the objects in the order they are applied; without a container only the claim
Patches(d) ==
  LET Put(k) == IF d[k] # {} /\ (k = "pvc" \/ d.app # {}) THEN <<k>> ELSE <<>>
  IN Put("pvc") \o Put("svc") \o Put("ingress") \o Put("cm") \o Put("app") \o Put("sm")

\* what is deleted after that.  The Service and the ConfigMap are not: the
\* deletions name the Job, which is not what they are called.
Deletes(d) ==
  LET Drop(k) == IF d.app = {} \/ (k = "ingress" /\ d.ingress = {}) THEN <<k>> ELSE <<>>
  IN Drop("ingress") \o Drop("app") \o Drop("sm")

-----------------------------------------------------------------------------
(* Users, the manager, and the cache                                       *)

Changed(j) ==
  /\ jobj' = j
  /\ jfresh' = FALSE
  /\ jrc' = [jrc EXCEPT !.fresh = FALSE]
  /\ UNCHANGED <<jcache, jobjs, jqueued, jactive>>

EditJob ==
  /\ JFault
  /\ \E spec \in JobSpecs \ {jobj.spec} : Changed([jobj EXCEPT !.spec = spec])

\* The manager enables or disables the Job, or stores another status, which is
\* to the controller like "Created"; perhaps before the first reconcile.
SetStatus ==
  /\ UNCHANGED jfaults
  /\ \E status \in {"Created", "Disabled"} \ {jobj.status} : Changed([jobj EXCEPT !.status = status])

\* somebody deletes an object that the controller owns and watches
DeleteOwned ==
  /\ JFault
  /\ \E k \in Owned :
       jobjs[k] # {} /\ jobjs' = [jobjs EXCEPT ![k] = {}]
  /\ jqueued' = TRUE
  /\ UNCHANGED <<jobj, jcache, jfresh, jrc, jactive>>

\* a Manager becomes active: no event for the Job
ManagerActive ==
  /\ ~jactive
  /\ jactive' = TRUE
  /\ UNCHANGED <<jobj, jcache, jfresh, jobjs, jqueued, jrc, jfaults>>

JSyncNoEvent ==
  /\ ~jfresh
  /\ jcache' = jobj
  /\ jfresh' = TRUE
  /\ UNCHANGED <<jobj, jobjs, jqueued, jrc, jactive, jfaults>>

\* the cache catches up; the event filter passes what changes the generation
JSync ==
  /\ ~jfresh
  /\ jcache' = jobj
  /\ jfresh' = TRUE
  /\ jqueued' = (jqueued \/ jcache.spec # jobj.spec)
  /\ UNCHANGED <<jobj, jobjs, jrc, jactive, jfaults>>

-----------------------------------------------------------------------------
(* Reconcile                                                               *)

\* Up to the first patch.  Without an active Manager, or when the desired
\* objects cannot be made, the Job stays in the queue; a Job that is not of the
\* type Mirror is left alone.
JBegin ==
  /\ ~jrc.run
  /\ jqueued
  /\ jactive
  /\ jqueued' = FALSE
  /\ \/ ~jcache.spec.mirror /\ UNCHANGED jrc
     \/ /\ jcache.spec.mirror /\ ~Fails(jcache)
        /\ LET d == Desired(jcache.spec, jcache.status)
           IN jrc' = [run |-> TRUE, copy |-> jcache, fresh |-> jfresh,
                      patches |-> Patches(d), deletes |-> Deletes(d)]
  /\ UNCHANGED <<jobj, jcache, jfresh, jobjs, jactive, jfaults>>

\* an owned object comes or goes, which is an event for its Job
OwnedEvent == \E k \in Owned : (jobjs[k] = {}) # (jobjs'[k] = {})

JPatch ==
  /\ jrc.run /\ jrc.patches # <<>>
  /\ jobjs' = [jobjs EXCEPT ![Head(jrc.patches)] =
                 Desired(jrc.copy.spec, jrc.copy.status)[Head(jrc.patches)]]
  /\ jrc' = [jrc EXCEPT !.patches = Tail(@)]
  /\ jqueued' = (jqueued \/ OwnedEvent)
  /\ UNCHANGED <<jobj, jcache, jfresh, jactive, jfaults>>

JDelete ==
  /\ jrc.run /\ jrc.patches = <<>> /\ jrc.deletes # <<>>
  /\ jobjs' = [jobjs EXCEPT ![Head(jrc.deletes)] = {}]
  /\ jrc' = [jrc EXCEPT !.deletes = Tail(@)]
  /\ jqueued' = (jqueued \/ OwnedEvent)
  /\ UNCHANGED <<jobj, jcache, jfresh, jactive, jfaults>>

NewStatus == IF jrc.copy.status = "" THEN "Created" ELSE jrc.copy.status

JStatusBlindly ==
  /\ jrc.run /\ jrc.patches = <<>> /\ jrc.deletes = <<>>
  /\ jobj' = [jobj EXCEPT !.status = NewStatus]
  /\ jfresh' = FALSE
  /\ jrc' = JIdle
  /\ UNCHANGED <<jcache, jobjs, jqueued, jactive, jfaults>>

\* the copy is written back with its status unless it is out of date
JStatus ==
  /\ jrc.run /\ jrc.patches = <<>> /\ jrc.deletes = <<>>
  /\ IF jrc.fresh
     THEN /\ jobj' = [jobj EXCEPT !.status = NewStatus]
          /\ jfresh' = (jfresh /\ jobj.status = NewStatus)
          /\ UNCHANGED jqueued
     ELSE jqueued' = TRUE /\ UNCHANGED <<jobj, jfresh>>
  /\ jrc' = JIdle
  /\ UNCHANGED <<jcache, jobjs, jactive, jfaults>>

\* a call fails: the Job is queued again; the error of a deletion is ignored
JFail ==
  /\ jrc.run
  /\ JFault
  /\ IF jrc.patches = <<>> /\ jrc.deletes # <<>>
     THEN jrc' = [jrc EXCEPT !.deletes = Tail(@)] /\ UNCHANGED jqueued
     ELSE jrc' = JIdle /\ jqueued' = TRUE
  /\ UNCHANGED <<jobj, jcache, jfresh, jobjs, jactive>>

\* the controller restarts and lists everything anew
JRestart ==
  /\ JFault
  /\ jcache' = jobj /\ jfresh' = TRUE /\ jqueued' = TRUE /\ jrc' = JIdle
  /\ UNCHANGED <<jobj, jobjs, jactive>>

JReconcile == JBegin \/ JPatch \/ JDelete \/ JStatus

JobControllerNext ==
  \/ EditJob \/ SetStatus \/ DeleteOwned \/ ManagerActive \/ JSync
  \/ JReconcile \/ JFail \/ JRestart

JobControllerSpec == JobControllerInit /\ [][JobControllerNext]_jvars

-----------------------------------------------------------------------------
(* Properties                                                              *)

\* A deployment whose front mounts the configuration never exists without the
\* ConfigMap, whatever edits and failures come in between.
ConfigMounted == "config" \in jobjs["app"] => jobjs["cm"] # {}

\* The reconciler does not touch the status that the manager keeps in the same
\* object, however old its copy is: it only fills in the first one.
StatusUntouched == [][JReconcile /\ jobj.status # "" => jobj'.status = jobj.status]_jvars

\* When edits and failures come to an end, the objects of a Mirror are there as
\* its spec says, all but the worker if the Job is ever disabled: the status is
\* not part of the generation, so that nothing reconciles it.
Converges ==
  LET There(status) ==
        LET d == Desired(jobj.spec, status)
        IN \A k \in Kinds : d[k] # {} /\ (d.app # {} \/ k = "pvc") =>
             (jobjs[k] \ {"worker"}) = (d[k] \ {"worker"})
  IN /\ <>[](~jobj.spec.mirror \/ ~jobj.spec.size \/ ~jobj.spec.upstream \/ There("Disabled"))
     /\ [](jobj.status # "Disabled") =>
          <>[](~jobj.spec.mirror \/ Fails(jobj) \/ Desired(jobj.spec, "Created").app \in {{}, jobjs["app"]})
=============================================================================
