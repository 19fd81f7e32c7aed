-------------------------- MODULE ManagerController --------------------------
(***************************************************************************)
(* ManagerReconciler (internal/controller/manager_controller.go and        *)
(* manager_helper.go): the objects of each Manager in a namespace, and     *)
(* which of them is active.  One reconcile runs at a time.  It reads a     *)
(* cache that lags behind the API server, applies its objects one by one,  *)
(* any of which may fail, and stores the phase last.                       *)
(***************************************************************************)
EXTENDS Naturals, Sequences

CONSTANTS
  Managers,    \* the names of Manager objects
  MaxFaults    \* bound: creations, edits, deletions, failed calls and restarts

\* an object of Kubernetes has a name
ASSUME ManagerControllerAssumption == "" \notin Managers /\ MaxFaults \in Nat

VARIABLES
  mgr,      \* each Manager in the API server
  mcache,   \* the controller's copy of it
  mfresh,   \* the copy is the latest version
  mobjs,    \* the kinds of objects that exist for it
  mqueue,   \* the work queue
  mrc,      \* the reconcile in progress
  mfaults   \* creations, edits, deletions, failed calls and restarts so far

mvars == <<mgr, mcache, mfresh, mobjs, mqueue, mrc, mfaults>>

NoManager == [here |-> FALSE, type |-> "", phase |-> ""]
MIdle == [name |-> "", type |-> "", fresh |-> FALSE, todo |-> <<>>]

\* the controller starts and finds some Managers
ManagerControllerInit ==
  /\ mgr \in [Managers -> {NoManager, [NoManager EXCEPT !.here = TRUE, !.type = "Deployment"]}]
  /\ mcache = [m \in Managers |-> NoManager]
  /\ mfresh = [m \in Managers |-> ~mgr[m].here]
  /\ mobjs = [m \in Managers |-> {}]
  /\ mqueue = {}
  /\ mrc = MIdle
  /\ mfaults = 0

MFault == mfaults < MaxFaults /\ mfaults' = mfaults + 1

-----------------------------------------------------------------------------
(* Users, the API server and its cache                                     *)

\* A Manager is made, when nothing is left of an earlier one; "none" stands for
\* a type that desiredDeployment does not know, or a Manager without an image.
CreateManager(m) ==
  /\ mgr[m] = NoManager
  /\ mcache[m] = NoManager /\ mrc.name # m
  /\ \E type \in {"Deployment", "DaemonSet", "none"} :
       mgr' = [mgr EXCEPT ![m] = [NoManager EXCEPT !.here = TRUE, !.type = type]]
  /\ mfresh' = [mfresh EXCEPT ![m] = FALSE]
  /\ MFault
  /\ UNCHANGED <<mcache, mobjs, mqueue, mrc>>

EditManager(m) ==
  /\ mgr[m].here
  /\ \E type \in {"Deployment", "DaemonSet", "none"} \ {mgr[m].type} :
       mgr' = [mgr EXCEPT ![m].type = type]
  /\ mfresh' = [mfresh EXCEPT ![m] = FALSE]
  /\ mrc' = IF mrc.name = m THEN [mrc EXCEPT !.fresh = FALSE] ELSE mrc
  /\ MFault
  /\ UNCHANGED <<mcache, mobjs, mqueue>>

\* a Manager is deleted and, through their owner references, its objects
DeleteManager(m) ==
  /\ mgr[m].here
  /\ mgr' = [mgr EXCEPT ![m] = NoManager]
  /\ mobjs' = [mobjs EXCEPT ![m] = {}]
  /\ mfresh' = [mfresh EXCEPT ![m] = FALSE]
  /\ mrc' = IF mrc.name = m THEN [mrc EXCEPT !.fresh = FALSE] ELSE mrc
  /\ MFault
  /\ UNCHANGED <<mcache, mqueue>>

\* somebody deletes an object of a Manager
DeleteObject(m) ==
  /\ mobjs[m] # {}
  /\ \E k \in mobjs[m] : mobjs' = [mobjs EXCEPT ![m] = @ \ {k}]
  /\ mqueue' = mqueue \cup {m}
  /\ MFault
  /\ UNCHANGED <<mgr, mcache, mfresh, mrc>>

\* the cache catches up; the event filter passes what changes the generation
MSync(m) ==
  /\ ~mfresh[m]
  /\ mcache' = [mcache EXCEPT ![m] = mgr[m]]
  /\ mfresh' = [mfresh EXCEPT ![m] = TRUE]
  /\ mqueue' = IF mcache[m].here = mgr[m].here /\ mcache[m].type = mgr[m].type
               THEN mqueue ELSE mqueue \cup {m}
  /\ UNCHANGED <<mgr, mobjs, mrc, mfaults>>

-----------------------------------------------------------------------------
(* Reconcile                                                               *)

Active(view) == {m \in Managers : view[m].here /\ view[m].phase = "Succeeded"}

\* desiredSA, desiredRole, desiredRoleBinding
Rights == <<"ServiceAccount", "Role", "RoleBinding">>

\* desiredDeployment: a Deployment, a DaemonSet, or nothing; the one of the
\* other type is deleted first
Workload(type) == IF type = "none" THEN <<>> ELSE <<"other", type>>

\* desiredService, desiredIngress
Access == <<"Service", "Ingress">>

ObjectsPhaseFirst(type) ==
  Rights \o <<"phase">> \o (IF Workload(type) = <<>> THEN <<>> ELSE Workload(type) \o Access)

\* the patches in their order; without a workload Reconcile stops half way
Objects(type) ==
  Rights \o (IF Workload(type) = <<>> THEN <<>> ELSE Workload(type) \o Access \o <<"phase">>)

Other(type) == IF type = "Deployment" THEN "DaemonSet" ELSE "Deployment"

MayAlways(m) == TRUE

\* no other active manager is the first of the list
MayDeploy(m) == Active(mcache) = {} \/ m \in Active(mcache)

MBeginDrops(m) ==
  /\ mrc = MIdle
  /\ m \in mqueue
  /\ mqueue' = mqueue \ {m}
  /\ mrc' = IF mcache[m].here /\ MayDeploy(m)
            THEN [name |-> m, type |-> mcache[m].type, fresh |-> mfresh[m],
                  todo |-> Objects(mcache[m].type)]
            ELSE MIdle
  /\ UNCHANGED <<mgr, mcache, mfresh, mobjs, mfaults>>

\* up to the first patch: a Manager that is gone is dropped, and one that is
\* not alone is tried again later
MBegin(m) ==
  /\ mrc = MIdle
  /\ m \in mqueue
  /\ \/ /\ ~mcache[m].here
        /\ mqueue' = mqueue \ {m} /\ UNCHANGED mrc
     \/ /\ mcache[m].here
        /\ MayDeploy(m)
        /\ mqueue' = mqueue \ {m}
        /\ mrc' = [name |-> m, type |-> mcache[m].type, fresh |-> mfresh[m],
                   todo |-> Objects(mcache[m].type)]
  /\ UNCHANGED <<mgr, mcache, mfresh, mobjs, mfaults>>

Todo(k) == mrc.todo # <<>> /\ Head(mrc.todo) = k
Done == [mrc EXCEPT !.todo = Tail(@)]

\* an owned object comes or goes, which is an event for its Manager
OwnedChange == IF mobjs' = mobjs THEN {} ELSE {mrc.name}

\* a patch; what is made for a Manager that is gone is collected again
MPatch ==
  \E k \in {"ServiceAccount", "Role", "RoleBinding", "Deployment", "DaemonSet", "Service", "Ingress"} :
    /\ Todo(k)
    /\ mobjs' = IF mgr[mrc.name].here THEN [mobjs EXCEPT ![mrc.name] = @ \cup {k}] ELSE mobjs
    /\ mrc' = IF Len(mrc.todo) = 1 THEN MIdle ELSE Done
    /\ mqueue' = mqueue \cup OwnedChange
    /\ UNCHANGED <<mgr, mcache, mfresh, mfaults>>

\* the deletion of the workload of the other type, whose error is ignored
MDeleteOther ==
  /\ Todo("other")
  /\ mobjs' = [mobjs EXCEPT ![mrc.name] = @ \ {Other(mrc.type)}]
  /\ mrc' = Done
  /\ mqueue' = mqueue \cup OwnedChange
  /\ UNCHANGED <<mgr, mcache, mfresh, mfaults>>

MPhaseBlindly ==
  /\ Todo("phase")
  /\ mrc' = MIdle
  /\ mgr' = [mgr EXCEPT ![mrc.name].phase = "Succeeded"]
  /\ mfresh' = [mfresh EXCEPT ![mrc.name] = FALSE]
  /\ UNCHANGED <<mcache, mobjs, mqueue, mfaults>>

\* the phase is stored unless the copy is out of date
MPhase ==
  /\ Todo("phase")
  /\ mrc' = MIdle
  /\ IF mrc.fresh
     THEN /\ mgr' = [mgr EXCEPT ![mrc.name].phase = "Succeeded"]
          /\ mfresh' = [mfresh EXCEPT ![mrc.name] = @ /\ mgr[mrc.name].phase = "Succeeded"]
          /\ UNCHANGED mqueue
     ELSE mqueue' = mqueue \cup {mrc.name} /\ UNCHANGED <<mgr, mfresh>>
  /\ UNCHANGED <<mcache, mobjs, mfaults>>

\* a call fails and the Manager is queued again, or an error is ignored
MFail ==
  /\ mrc # MIdle
  /\ MFault
  /\ IF Todo("other")
     THEN mrc' = Done /\ UNCHANGED mqueue
     ELSE mrc' = MIdle /\ mqueue' = mqueue \cup {mrc.name}
  /\ UNCHANGED <<mgr, mcache, mfresh, mobjs>>

\* the controller restarts and lists everything anew
MRestart ==
  /\ MFault
  /\ mcache' = mgr
  /\ mfresh' = [m \in Managers |-> TRUE]
  /\ mqueue' = {m \in Managers : mgr[m].here}
  /\ mrc' = MIdle
  /\ UNCHANGED <<mgr, mobjs>>

MReconcile == MPatch \/ MDeleteOther \/ MPhase

ManagerControllerNext ==
  \/ \E m \in Managers : CreateManager(m) \/ EditManager(m) \/ DeleteManager(m) \/ DeleteObject(m)
                          \/ MSync(m) \/ MBegin(m)
  \/ MReconcile \/ MFail \/ MRestart

ManagerControllerSpec == ManagerControllerInit /\ [][ManagerControllerNext]_mvars

-----------------------------------------------------------------------------
(* Properties                                                              *)

\* A Manager that is said to be deployed has all its objects but perhaps the
\* workload, which an edit of its type replaces; when one is missing a reconcile
\* is due, unless there is nothing to deploy.
DeployedIsComplete ==
  \A m \in Active(mgr) :
    \/ {"ServiceAccount", "Role", "RoleBinding", "Service", "Ingress"} \subseteq mobjs[m]
    \/ m \in mqueue \/ mrc.name = m \/ ~mfresh[m] \/ mgr[m].type = "none"

\* No more than one Manager of a namespace is active.
OneActive == \A m, n \in Active(mgr) : m = n

\* The controller knows that m is active, nobody else is, and no reconcile that
\* began before can still store the phase of another Manager.
Established(m) == /\ Active(mgr) = {m} /\ m \in Active(mcache)
                  /\ mrc.fresh => mrc.name = m

\* Two Managers can only become active together.  Once the controller knows
\* the one that is, no other becomes active until that one is deleted, whatever
\* is created, edited or fails, and whatever copies of others that were active
\* before are still in the cache.
ActiveStays ==
  [][\A m \in Managers : Established(m) /\ mgr'[m].here => Established(m)']_mvars

\* When all others are gone for good, a Manager that can be deployed is: the
\* one that was turned down is tried again.
Succession ==
  \A m \in Managers :
    (mgr[m].here /\ \A n \in Managers \ {m} : ~mgr[n].here)
      ~> (m \in Active(mgr) \/ ~mgr[m].here \/ mgr[m].type = "none"
           \/ \E n \in Managers \ {m} : mgr[n].here)
=============================================================================
