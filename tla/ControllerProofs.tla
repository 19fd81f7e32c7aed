--------------------------- MODULE ControllerProofs ---------------------------
(***************************************************************************)
(* Theorems about the reconcilers: the JobReconciler leaves the status of  *)
(* a Job to the manager and makes a ConfigMap before it is mounted; only   *)
(* one Manager is active if reconciles begin with a cache that has caught  *)
(* up, and a deployed Manager is complete; announcements are published     *)
(* once, and what updateFile replies is true.  The composition of the      *)
(* controllers inherits all of it.                                         *)
(***************************************************************************)
EXTENDS Controllers, SequenceTheorems, TLAPS

-----------------------------------------------------------------------------
(* JobReconciler                                                           *)

\* A copy that is said to be the last version is: of the cache, and of the
\* reconcile in progress.
CopiesTrue ==
  /\ jobj = [spec |-> jobj.spec, status |-> jobj.status]
  /\ jrc = [run |-> jrc.run, copy |-> jrc.copy, fresh |-> jrc.fresh,
            patches |-> jrc.patches, deletes |-> jrc.deletes]
  /\ jfresh \in BOOLEAN /\ jrc.fresh \in BOOLEAN
  /\ jfresh => jcache = jobj
  /\ jrc.fresh => jrc.copy = jobj

LEMMA CopiesStart == JobControllerInit => CopiesTrue
<1> SUFFICES ASSUME JobControllerInit PROVE CopiesTrue
  OBVIOUS
<1>1. PICK spec \in JobSpecs : jobj = [spec |-> spec, status |-> ""]
  BY DEF JobControllerInit
<1>2. jrc = JIdle /\ jfresh = TRUE /\ jcache = jobj
  BY DEF JobControllerInit
<1>3. jrc = [run |-> jrc.run, copy |-> jrc.copy, fresh |-> jrc.fresh,
             patches |-> jrc.patches, deletes |-> jrc.deletes] /\ jrc.fresh = FALSE
  BY <1>2 DEF JIdle
<1> QED
  BY <1>1, <1>2, <1>3 DEF CopiesTrue

\* A write of the Job takes both marks back.
LEMMA ChangedStep ==
  ASSUME CopiesTrue, NEW j, j = [spec |-> j.spec, status |-> j.status], Changed(j)
  PROVE  CopiesTrue'
  BY DEF CopiesTrue, Changed

\* The status update of a reconcile: nothing but the first status is new.
LEMMA JStatusStep ==
  ASSUME CopiesTrue, JStatus
  PROVE  /\ CopiesTrue'
         /\ jobj.status # "" => jobj' = jobj
<1>1. CASE jrc.fresh
  <2>1. jobj' = [jobj EXCEPT !.status = NewStatus] /\ jrc' = JIdle /\ jcache' = jcache
        /\ jfresh' = (jfresh /\ jobj.status = NewStatus)
    BY <1>1 DEF JStatus
  <2>2. NewStatus = IF jobj.status = "" THEN "Created" ELSE jobj.status
    BY <1>1 DEF NewStatus, CopiesTrue
  <2>3. jobj' = [spec |-> jobj.spec, status |-> NewStatus]
    BY <2>1 DEF CopiesTrue
  <2>4. jobj.status = NewStatus => jobj' = jobj
    BY <2>3 DEF CopiesTrue
  <2>5. jfresh' \in BOOLEAN /\ (jfresh' => jcache' = jobj')
    BY <2>1, <2>4 DEF CopiesTrue
  <2> QED
    BY <2>1, <2>2, <2>3, <2>4, <2>5 DEF CopiesTrue, JIdle
<1>2. CASE ~jrc.fresh
  BY <1>2 DEF JStatus, CopiesTrue, JIdle
<1> QED
  BY <1>1, <1>2 DEF CopiesTrue

LEMMA CopiesStep ==
  ASSUME CopiesTrue, [JobControllerNext]_jvars
  PROVE  CopiesTrue'
<1>1. CASE EditJob
  BY <1>1, ChangedStep DEF EditJob, CopiesTrue
<1>2. CASE SetStatus
  <2>1. PICK status : Changed([jobj EXCEPT !.status = status])
    BY <1>2 DEF SetStatus
  <2>2. [jobj EXCEPT !.status = status] = [spec |-> jobj.spec, status |-> status]
    BY DEF CopiesTrue
  <2> QED
    BY <2>1, <2>2, ChangedStep
<1>3. CASE DeleteOwned \/ ManagerActive \/ UNCHANGED jvars
  BY <1>3 DEF DeleteOwned, ManagerActive, jvars, CopiesTrue
<1>4. CASE JSync
  BY <1>4 DEF JSync, CopiesTrue
<1>5. CASE JBegin
  BY <1>5 DEF JBegin, CopiesTrue
<1>6. CASE JPatch \/ JDelete
  BY <1>6 DEF JPatch, JDelete, CopiesTrue
<1>7. CASE JStatus
  BY <1>7, JStatusStep
<1>8. CASE JFail
  <2>1. UNCHANGED <<jobj, jcache, jfresh>> /\ (jrc' = [jrc EXCEPT !.deletes = Tail(@)] \/ jrc' = JIdle)
    BY <1>8 DEF JFail
  <2>2. CASE jrc' = JIdle
    BY <2>1, <2>2 DEF CopiesTrue, JIdle
  <2>3. CASE jrc' = [jrc EXCEPT !.deletes = Tail(@)]
    BY <2>1, <2>3 DEF CopiesTrue
  <2> QED
    BY <2>1, <2>2, <2>3
<1>9. CASE JRestart
  BY <1>9 DEF JRestart, CopiesTrue, JIdle
<1> QED
  BY <1>1, <1>2, <1>3, <1>4, <1>5, <1>6, <1>7, <1>8, <1>9 DEF JobControllerNext, JReconcile

\* However old the copy of a reconcile is, it never changes a status that the
\* manager has set: StatusUntouched, for all specs and any number of faults.
THEOREM StatusUntouchedHolds == JobControllerSpec => StatusUntouched
<1>1. CopiesTrue /\ [JobControllerNext]_jvars
        => [JReconcile /\ jobj.status # "" => jobj'.status = jobj.status]_jvars
  <2> SUFFICES ASSUME CopiesTrue, JReconcile, jobj.status # "" PROVE jobj'.status = jobj.status
    OBVIOUS
  <2>1. CASE JStatus
    BY <2>1, JStatusStep
  <2>2. CASE JBegin \/ JPatch \/ JDelete
    BY <2>2 DEF JBegin, JPatch, JDelete
  <2> QED
    BY <2>1, <2>2 DEF JReconcile
<1> QED
  BY <1>1, CopiesStart, CopiesStep, PTL DEF JobControllerSpec, StatusUntouched

-----------------------------------------------------------------------------
(* The ConfigMap and the Deployment that mounts it                         *)

\* The patches that are left, of the desired objects d: none is empty, and the
\* ConfigMap is there, or comes first, when a Deployment that mounts it follows.
PatchesFit(p, d) ==
  /\ p \in Seq(Kinds)
  /\ \A i \in 1..Len(p) : d[p[i]] # {}
  /\ \A i \in 1..Len(p) : p[i] = "app" /\ "config" \in d["app"] =>
       jobjs["cm"] # {} \/ \E j \in 1..i - 1 : p[j] = "cm"

\* The inductive invariant.  A ConfigMap is never deleted, so that it is enough
\* that each reconcile makes it first.
MountInv ==
  /\ CopiesTrue
  /\ jobjs = [k \in Kinds |-> jobjs[k]]
  /\ jrc.run => /\ PatchesFit(jrc.patches, Desired(jrc.copy.spec, jrc.copy.status))
                /\ jrc.deletes \in Seq(Kinds \ {"cm"})
  /\ ConfigMounted

\* A Deployment that mounts the configuration is only desired with its ConfigMap.
LEMMA ConfigDesired ==
  ASSUME NEW spec, NEW status, NEW d, d = Desired(spec, status)
  PROVE  "config" \in d["app"] => "config" \in d["cm"]
<1>1. d["app"] = desiredDeployment(spec, status) /\ d["cm"] = Parts({<<"config", HasConfigMap(spec)>>})
  BY DEF Desired
<1>2. "config" \in desiredDeployment(spec, status) => HasConfigMap(spec)
  <2> DEFINE w == workerContainer(spec, status)
             f == frontContainer(spec)
             r == rsyncContainer(spec)
             c == HasConfigMap(spec)
  <2>1. SUFFICES ASSUME "config" \in desiredDeployment(spec, status) PROVE c
    OBVIOUS
  <2> HIDE DEF w, f, r, c
  <2>2. PICK x \in {<<"worker", w>>, <<"front", f>>, <<"rsync", r>>, <<"config", c>>} : x[2] /\ "config" = x[1]
    BY <2>1 DEF desiredDeployment, Parts, w, f, r, c
  <2>3. x = <<"config", c>>
    BY <2>2
  <2> QED
    BY <2>2, <2>3
<1>3. HasConfigMap(spec) => "config" \in Parts({<<"config", HasConfigMap(spec)>>})
  <2> DEFINE x == <<"config", HasConfigMap(spec)>>
  <2>1. x[1] = "config" /\ (HasConfigMap(spec) => x[2])
    OBVIOUS
  <2> HIDE DEF x
  <2>2. HasConfigMap(spec) => x[1] \in Parts({x})
    BY <2>1 DEF Parts
  <2> QED
    BY <2>1, <2>2 DEF x
<1> QED
  BY <1>1, <1>2, <1>3

\* The patches of a reconcile fit when it begins.
LEMMA PatchesBegin ==
  ASSUME NEW spec, NEW status, NEW d, d = Desired(spec, status)
  PROVE  PatchesFit(Patches(d), d)
<1> DEFINE Put(k) == IF d[k] # {} /\ (k = "pvc" \/ d.app # {}) THEN <<k>> ELSE <<>>
           K1 == {"pvc", "svc", "ingress"}
           Fits(p) == p \in Seq(Kinds) /\ \A i \in 1..Len(p) : d[p[i]] # {}
           A == Put("pvc") \o Put("svc") \o Put("ingress")
           B == A \o Put("cm")
           C == B \o Put("app")
<1>0. Patches(d) = C \o Put("sm")
  BY DEF Patches
<1>1. ASSUME NEW k \in Kinds PROVE Fits(Put(k))
  BY <1>1
<1>2. ASSUME NEW p, NEW q, Fits(p), Fits(q) PROVE Fits(p \o q)
  <2>1. /\ p \o q \in Seq(Kinds) /\ Len(p \o q) = Len(p) + Len(q) /\ Len(p) \in Nat /\ Len(q) \in Nat
        /\ \A i \in 1..Len(p) + Len(q) : (p \o q)[i] = IF i <= Len(p) THEN p[i] ELSE q[i - Len(p)]
    BY <1>2, ConcatProperties
  <2>2. ASSUME NEW i \in 1..Len(p \o q) PROVE d[(p \o q)[i]] # {}
    <3>1. i <= Len(p) => i \in 1..Len(p)
      BY <2>1
    <3>2. ~(i <= Len(p)) => i - Len(p) \in 1..Len(q)
      BY <2>1
    <3> QED
      BY <1>2, <2>1, <2>2, <3>1, <3>2
  <2> QED
    BY <2>1, <2>2
<1>3. A \in Seq(K1)
  <2>0. <<>> \in Seq(K1) /\ \A k \in K1 : <<k>> \in Seq(K1)
    OBVIOUS
  <2>1. Put("pvc") \in Seq(K1) /\ Put("svc") \in Seq(K1) /\ Put("ingress") \in Seq(K1)
    BY <2>0
  <2> HIDE DEF Put
  <2> QED
    BY <2>1, ConcatProperties
<1>4. Put("cm") \in Seq(Kinds) /\ Put("app") \in Seq(Kinds) /\ Put("sm") \in Seq(Kinds)
  <2>1. <<>> \in Seq(Kinds) /\ \A k \in Kinds : <<k>> \in Seq(Kinds)
    OBVIOUS
  <2>2. "cm" \in Kinds /\ "app" \in Kinds /\ "sm" \in Kinds
    BY DEF Kinds
  <2> QED
    BY <2>1, <2>2
<1>5. Fits(A) /\ Fits(B) /\ Fits(C) /\ Fits(C \o Put("sm"))
  <2>1. Fits(Put("pvc")) /\ Fits(Put("svc")) /\ Fits(Put("ingress")) /\ Fits(Put("cm"))
        /\ Fits(Put("app")) /\ Fits(Put("sm"))
    BY <1>1 DEF Kinds
  <2> HIDE DEF Put, Fits
  <2>2. Fits(A)
    BY <1>2, <2>1
  <2> HIDE DEF A
  <2>3. Fits(B)
    BY <1>2, <2>1, <2>2
  <2> HIDE DEF B
  <2>4. Fits(C)
    BY <1>2, <2>1, <2>3
  <2> HIDE DEF C
  <2> QED
    BY <1>2, <2>1, <2>2, <2>3, <2>4
<1>6. ASSUME "config" \in d["app"], NEW i \in 1..Len(Patches(d)), Patches(d)[i] = "app"
      PROVE  \E j \in 1..i - 1 : Patches(d)[j] = "cm"
  <2>1. Put("cm") = <<"cm">>
    BY <1>6, ConfigDesired
  <2>2. A \in Seq(Kinds) /\ B \in Seq(Kinds) /\ C \in Seq(Kinds)
    BY <1>5
  <2>3. Len(A) \in Nat /\ \A n \in 1..Len(A) : A[n] \in K1
    BY <1>3
  <2> DEFINE D == C \o Put("sm")
             X == Put("app")
             Y == Put("sm")
  <2>4. X \in Seq(Kinds) /\ Y \in Seq(Kinds) /\ Len(X) \in Nat /\ Len(Y) \in Nat
    BY <1>4
  <2> HIDE DEF A, Put, X, Y
  <2>5. /\ Len(B) = Len(A) + 1
        /\ \A n \in 1..Len(A) + 1 : B[n] = IF n <= Len(A) THEN A[n] ELSE <<"cm">>[n - Len(A)]
    <3> DEFINE one == <<"cm">>
    <3>1. one \in Seq(Kinds) /\ Len(one) = 1
      BY DEF Kinds
    <3>2. B = A \o one
      BY <2>1
    <3> HIDE DEF one, B
    <3>3. /\ Len(A \o one) = Len(A) + Len(one)
          /\ \A n \in 1..Len(A) + Len(one) : (A \o one)[n] = IF n <= Len(A) THEN A[n] ELSE one[n - Len(A)]
      BY <2>2, <3>1, ConcatProperties
    <3> QED
      BY <3>1, <3>2, <3>3 DEF one
  <2>6. B[Len(A) + 1] = "cm" /\ \A n \in 1..Len(A) : B[n] \in K1
    BY <2>3, <2>5
  <2> HIDE DEF B
  <2>7. /\ Len(C) = Len(B) + Len(X)
        /\ \A n \in 1..Len(B) + Len(X) : C[n] = IF n <= Len(B) THEN B[n] ELSE X[n - Len(B)]
    BY <2>2, <2>4, ConcatProperties DEF X
  <2> HIDE DEF C
  <2>8. /\ Len(D) = Len(C) + Len(Y)
        /\ \A n \in 1..Len(C) + Len(Y) : D[n] = IF n <= Len(C) THEN C[n] ELSE Y[n - Len(C)]
    BY <2>2, <2>4, ConcatProperties DEF Y
  <2> HIDE DEF D
  <2>9. \A n \in 1..Len(A) + 1 : D[n] = B[n]
    BY <2>3, <2>4, <2>5, <2>7, <2>8
  <2>10. D[Len(A) + 1] = "cm" /\ \A n \in 1..Len(A) : D[n] \in K1
    BY <2>3, <2>6, <2>9
  <2>11. Patches(d) = D
    BY <1>0 DEF D
  <2>12. i \in Nat /\ i # Len(A) + 1 /\ i \notin 1..Len(A) /\ i >= 1
    BY <1>6, <2>10, <2>11, <2>3
  <2>13. Len(A) + 1 \in 1..i - 1
    BY <2>3, <2>12
  <2> QED
    BY <2>10, <2>11, <2>13
<1> HIDE DEF C, Put
<1> QED
  BY <1>0, <1>5, <1>6 DEF PatchesFit

LEMMA DeletesBegin == ASSUME NEW d PROVE Deletes(d) \in Seq(Kinds \ {"cm"})
<1> DEFINE Drop(k) == IF d.app = {} \/ (k = "ingress" /\ d.ingress = {}) THEN <<k>> ELSE <<>>
<1>1. Drop("ingress") \in Seq(Kinds \ {"cm"}) /\ Drop("app") \in Seq(Kinds \ {"cm"})
      /\ Drop("sm") \in Seq(Kinds \ {"cm"})
  <2>1. <<>> \in Seq(Kinds \ {"cm"}) /\ \A k \in Kinds \ {"cm"} : <<k>> \in Seq(Kinds \ {"cm"})
    OBVIOUS
  <2>2. {"ingress", "app", "sm"} \subseteq Kinds \ {"cm"}
    BY DEF Kinds
  <2> QED
    BY <2>1, <2>2
<1>2. Deletes(d) = Drop("ingress") \o Drop("app") \o Drop("sm")
  BY DEF Deletes
<1> HIDE DEF Drop
<1> QED
  BY <1>1, <1>2, ConcatProperties

\* A patch: the ConfigMap comes before the Deployment that mounts it.
LEMMA PatchMounts ==
  ASSUME MountInv, JPatch
  PROVE  MountInv'
<1> DEFINE d == Desired(jrc.copy.spec, jrc.copy.status)
           p == jrc.patches
           k == Head(p)
<1>1. /\ jrc.run /\ p # <<>> /\ jobjs' = [jobjs EXCEPT ![k] = d[k]]
      /\ jrc' = [jrc EXCEPT !.patches = Tail(@)]
  BY DEF JPatch
<1>2. CopiesTrue'
  BY CopiesStep DEF MountInv, JobControllerNext, JReconcile
<1>3. jrc'.run = jrc.run /\ jrc'.copy = jrc.copy /\ jrc'.patches = Tail(p) /\ jrc'.deletes = jrc.deletes
  BY <1>1 DEF MountInv, CopiesTrue
<1>4. /\ p \in Seq(Kinds) /\ \A i \in 1..Len(p) : d[p[i]] # {}
      /\ \A i \in 1..Len(p) : p[i] = "app" /\ "config" \in d["app"] =>
           jobjs["cm"] # {} \/ \E j \in 1..i - 1 : p[j] = "cm"
      /\ jrc.deletes \in Seq(Kinds \ {"cm"}) /\ jobjs = [x \in Kinds |-> jobjs[x]]
  BY <1>1 DEF MountInv, PatchesFit
<1>5. Desired(jrc'.copy.spec, jrc'.copy.status) = d
  BY <1>3
<1> HIDE DEF d, p
<1>6. /\ Tail(p) \in Seq(Kinds) /\ Len(Tail(p)) = Len(p) - 1 /\ Len(p) \in Nat \ {0}
      /\ \A i \in 1..Len(Tail(p)) : Tail(p)[i] = p[i + 1]
      /\ k \in Kinds /\ k = p[1]
  BY <1>1, <1>4, HeadTailProperties, LenProperties, EmptySeq
<1>7. d[k] # {} /\ (k = "app" /\ "config" \in d["app"] => jobjs["cm"] # {})
  <2>1. 1 \in 1..Len(p) /\ 1..1 - 1 = {}
    BY <1>6
  <2> QED
    BY <1>4, <1>6, <2>1
<1> HIDE DEF k
<1>8. /\ jobjs' = [x \in Kinds |-> jobjs'[x]] /\ jobjs'[k] = d[k]
      /\ \A x \in Kinds \ {k} : jobjs'[x] = jobjs[x]
  BY <1>1, <1>4, <1>6
<1>9. "cm" \in Kinds /\ "app" \in Kinds
  BY DEF Kinds
<1>10. (jobjs["cm"] # {} => jobjs'["cm"] # {}) /\ (k = "cm" => jobjs'["cm"] # {})
  BY <1>7, <1>8, <1>9
<1>11. ConfigMounted'
  BY <1>7, <1>8, <1>9, <1>10 DEF ConfigMounted, MountInv
<1>12. ASSUME NEW i \in 1..Len(Tail(p)), Tail(p)[i] = "app", "config" \in d["app"]
       PROVE  jobjs'["cm"] # {} \/ \E j \in 1..i - 1 : Tail(p)[j] = "cm"
  <2>1. i + 1 \in 1..Len(p) /\ p[i + 1] = "app"
    BY <1>6, <1>12
  <2>2. CASE jobjs["cm"] # {}
    BY <1>10, <2>2
  <2>3. ASSUME NEW j \in 1..(i + 1) - 1, p[j] = "cm" PROVE jobjs'["cm"] # {} \/ \E n \in 1..i - 1 : Tail(p)[n] = "cm"
    <3>1. CASE j = 1
      BY <1>6, <1>10, <2>3, <3>1
    <3>2. CASE j # 1
      <4>1. j - 1 \in 1..i - 1 /\ j - 1 \in 1..Len(Tail(p)) /\ (j - 1) + 1 = j
        BY <1>6, <1>12, <3>2
      <4>2. Tail(p)[j - 1] = "cm"
        BY <1>6, <2>3, <4>1
      <4> QED
        BY <4>1, <4>2
    <3> QED
      BY <3>1, <3>2
  <2> QED
    BY <1>4, <1>12, <2>1, <2>2, <2>3
<1>13. ASSUME NEW i \in 1..Len(Tail(p)) PROVE d[Tail(p)[i]] # {}
  <2>1. i + 1 \in 1..Len(p) /\ Tail(p)[i] = p[i + 1]
    BY <1>6
  <2> QED
    BY <1>4, <2>1
<1>14. PatchesFit(p, d)'
  <2>1. d' = d /\ p' = Tail(p)
    BY <1>3, <1>5 DEF d, p
  <2>2. PatchesFit(p, d)' <=>
          /\ p' \in Seq(Kinds)
          /\ \A i \in 1..Len(p') : d'[p'[i]] # {}
          /\ \A i \in 1..Len(p') : p'[i] = "app" /\ "config" \in d'["app"] =>
               jobjs'["cm"] # {} \/ \E j \in 1..i - 1 : p'[j] = "cm"
    BY DEF PatchesFit
  <2> QED
    BY <1>6, <1>12, <1>13, <2>1, <2>2
<1>15. PatchesFit(jrc.patches, Desired(jrc.copy.spec, jrc.copy.status))'
  BY <1>14 DEF p, d
<1> QED
  BY <1>2, <1>3, <1>4, <1>8, <1>11, <1>15 DEF MountInv

\* The steps that leave objects and reconcile alone, or drop the reconcile.
LEMMA MountStays ==
  ASSUME MountInv, CopiesTrue', jobjs' = jobjs,
         \/ jrc'.run = FALSE
         \/ /\ jrc'.run = jrc.run /\ jrc'.copy = jrc.copy /\ jrc'.patches = jrc.patches
            /\ jrc'.deletes \in {jrc.deletes, Tail(jrc.deletes)} /\ (jrc.deletes = <<>> => jrc'.deletes = <<>>)
  PROVE  MountInv'
<1>1. jrc'.run => jrc'.deletes \in Seq(Kinds \ {"cm"})
  <2>1. SUFFICES ASSUME jrc'.run PROVE jrc'.deletes \in Seq(Kinds \ {"cm"})
    OBVIOUS
  <2>2. jrc.deletes \in Seq(Kinds \ {"cm"})
    BY <2>1 DEF MountInv
  <2>3. CASE jrc'.deletes = jrc.deletes
    BY <2>2, <2>3
  <2>4. CASE jrc'.deletes = Tail(jrc.deletes) /\ jrc.deletes # <<>>
    BY <2>2, <2>4, HeadTailProperties
  <2> QED
    BY <2>1, <2>3, <2>4
<1>2. jrc'.run => PatchesFit(jrc.patches, Desired(jrc.copy.spec, jrc.copy.status))'
  <2> SUFFICES ASSUME jrc'.run PROVE PatchesFit(jrc.patches, Desired(jrc.copy.spec, jrc.copy.status))'
    OBVIOUS
  <2> DEFINE p == jrc.patches
             d == Desired(jrc.copy.spec, jrc.copy.status)
  <2>1. p' = p /\ d' = d /\ PatchesFit(p, d)
    BY DEF MountInv
  <2> HIDE DEF p, d
  <2>2. PatchesFit(p, d)'
    BY <2>1 DEF PatchesFit
  <2> QED
    BY <2>2 DEF p, d
<1> QED
  BY <1>1, <1>2 DEF MountInv, ConfigMounted

LEMMA DeleteMounts ==
  ASSUME MountInv, CopiesTrue', NEW k \in Kinds \ {"cm"}, jobjs' = [jobjs EXCEPT ![k] = {}],
         \/ jrc' = jrc
         \/ jrc' = [jrc EXCEPT !.deletes = Tail(@)] /\ jrc.deletes # <<>>
  PROVE  MountInv'
<1>1. /\ jrc'.run = jrc.run /\ jrc'.copy = jrc.copy /\ jrc'.patches = jrc.patches
      /\ jrc'.deletes = jrc.deletes \/ (jrc'.deletes = Tail(jrc.deletes) /\ jrc.deletes # <<>>)
  BY DEF MountInv, CopiesTrue
<1>2. jobjs = [x \in Kinds |-> jobjs[x]] /\ "cm" \in Kinds /\ "app" \in Kinds
  BY DEF MountInv, Kinds
<1>3. /\ jobjs' = [x \in Kinds |-> jobjs'[x]] /\ jobjs'["cm"] = jobjs["cm"]
      /\ jobjs'["app"] \in {jobjs["app"], {}}
  BY <1>2
<1>4. jrc'.run => jrc'.deletes \in Seq(Kinds \ {"cm"})
  <2>1. SUFFICES ASSUME jrc'.run PROVE jrc'.deletes \in Seq(Kinds \ {"cm"})
    OBVIOUS
  <2>2. jrc.deletes \in Seq(Kinds \ {"cm"})
    BY <1>1, <2>1 DEF MountInv
  <2>3. CASE jrc'.deletes = Tail(jrc.deletes) /\ jrc.deletes # <<>>
    BY <2>2, <2>3, HeadTailProperties
  <2> QED
    BY <1>1, <2>2, <2>3
<1>5. jrc'.run => PatchesFit(jrc.patches, Desired(jrc.copy.spec, jrc.copy.status))'
  <2> DEFINE d == Desired(jrc.copy.spec, jrc.copy.status)
  <2>1. d' = d /\ (jrc.run => PatchesFit(jrc.patches, d))
    BY <1>1 DEF MountInv
  <2> HIDE DEF d
  <2>2. jrc.run => PatchesFit(jrc.patches, d)'
    BY <1>1, <1>3, <2>1 DEF PatchesFit
  <2> QED
    BY <1>1, <2>2 DEF d
<1>6. ConfigMounted'
  BY <1>3 DEF MountInv, ConfigMounted
<1> QED
  BY <1>3, <1>4, <1>5, <1>6 DEF MountInv

LEMMA MountStep ==
  ASSUME MountInv, [JobControllerNext]_jvars
  PROVE  MountInv'
<1>0. CopiesTrue'
  BY CopiesStep DEF MountInv
<1>a. jrc = [run |-> jrc.run, copy |-> jrc.copy, fresh |-> jrc.fresh, patches |-> jrc.patches, deletes |-> jrc.deletes]
  BY DEF MountInv, CopiesTrue
<1>b. JIdle.run = FALSE
  BY DEF JIdle
<1>1. CASE EditJob \/ SetStatus
  <2>1. jobjs' = jobjs /\ jrc' = [jrc EXCEPT !.fresh = FALSE]
    BY <1>1 DEF EditJob, SetStatus, Changed
  <2>2. /\ jrc'.run = jrc.run /\ jrc'.copy = jrc.copy /\ jrc'.patches = jrc.patches
        /\ jrc'.deletes = jrc.deletes
    BY <1>a, <2>1
  <2> QED
    BY <1>0, <2>1, <2>2, MountStays
<1>2. CASE DeleteOwned
  <2>1. PICK k \in Owned : jobjs' = [jobjs EXCEPT ![k] = {}]
    BY <1>2 DEF DeleteOwned
  <2>2. k \in Kinds \ {"cm"}
    BY DEF Owned, Kinds
  <2>3. jrc' = jrc
    BY <1>2 DEF DeleteOwned
  <2> QED
    BY <1>0, <2>1, <2>2, <2>3, DeleteMounts
<1>3. CASE ManagerActive \/ JSync \/ UNCHANGED jvars
  <2>1. jobjs' = jobjs /\ jrc' = jrc
    BY <1>3 DEF ManagerActive, JSync, jvars
  <2> QED
    BY <1>0, <2>1, MountStays
<1>4. CASE JBegin
  <2>1. jobjs' = jobjs /\ jrc.run = FALSE /\ jobjs = [k \in Kinds |-> jobjs[k]] /\ ConfigMounted
    BY <1>4, <1>a DEF JBegin, MountInv
  <2>2. CASE jrc' = jrc
    BY <1>0, <2>1, <2>2, MountStays
  <2>3. CASE jrc' # jrc
    <3> DEFINE d == Desired(jcache.spec, jcache.status)
    <3>1. jrc' = [run |-> TRUE, copy |-> jcache, fresh |-> jfresh, patches |-> Patches(d), deletes |-> Deletes(d)]
      BY <1>4, <2>3 DEF JBegin
    <3>2. jrc'.copy = jcache /\ jrc'.patches = Patches(d) /\ jrc'.deletes = Deletes(d)
      BY <3>1
    <3>3. PatchesFit(Patches(d), d)
      BY PatchesBegin
    <3>4. Deletes(d) \in Seq(Kinds \ {"cm"})
      BY DeletesBegin
    <3>5. Desired(jrc.copy.spec, jrc.copy.status)' = d
      BY <3>2
    <3> HIDE DEF d
    <3>6. PatchesFit(jrc.patches, Desired(jrc.copy.spec, jrc.copy.status))'
      <4> DEFINE e == Desired(jrc.copy.spec, jrc.copy.status)
      <4>1. e' = d
        BY <3>5
      <4> HIDE DEF e
      <4>2. PatchesFit(jrc.patches, e)'
        BY <2>1, <3>2, <3>3, <4>1 DEF PatchesFit
      <4> QED
        BY <4>2 DEF e
    <3> QED
      BY <1>0, <2>1, <3>2, <3>4, <3>6 DEF MountInv, ConfigMounted
  <2> QED
    BY <2>2, <2>3
<1>5. CASE JPatch
  BY <1>5, PatchMounts
<1>6. CASE JDelete
  <2>1. /\ jrc.run /\ jrc.deletes # <<>> /\ jobjs' = [jobjs EXCEPT ![Head(jrc.deletes)] = {}]
        /\ jrc' = [jrc EXCEPT !.deletes = Tail(@)]
    BY <1>6 DEF JDelete
  <2>2. Head(jrc.deletes) \in Kinds \ {"cm"}
    BY <2>1, HeadTailProperties DEF MountInv
  <2> QED
    BY <1>0, <2>1, <2>2, DeleteMounts
<1>7. CASE JStatus \/ JRestart
  <2>1. jobjs' = jobjs /\ jrc' = JIdle
    BY <1>7 DEF JStatus, JRestart
  <2> QED
    BY <1>0, <1>b, <2>1, MountStays
<1>8. CASE JFail
  <2>1. /\ jobjs' = jobjs
        /\ \/ jrc' = JIdle
           \/ jrc' = [jrc EXCEPT !.deletes = Tail(@)] /\ jrc.deletes # <<>>
    BY <1>8 DEF JFail
  <2>2. CASE jrc' = JIdle
    BY <1>0, <1>b, <2>1, <2>2, MountStays
  <2>3. CASE jrc' = [jrc EXCEPT !.deletes = Tail(@)] /\ jrc.deletes # <<>>
    <3>1. /\ jrc'.run = jrc.run /\ jrc'.copy = jrc.copy /\ jrc'.patches = jrc.patches
          /\ jrc'.deletes = Tail(jrc.deletes)
      BY <1>a, <2>3
    <3> QED
      BY <1>0, <2>1, <2>3, <3>1, MountStays
  <2> QED
    BY <2>1, <2>2, <2>3
<1> QED
  BY <1>1, <1>2, <1>3, <1>4, <1>5, <1>6, <1>7, <1>8 DEF JobControllerNext, JReconcile

\* Whatever edits, deletions, failed calls and restarts come in between, and
\* however old the copies are, no Deployment that mounts the configuration of the
\* front exists without the ConfigMap.
THEOREM ConfigMountedHolds == JobControllerSpec => []ConfigMounted
<1>1. JobControllerInit => MountInv
  <2> SUFFICES ASSUME JobControllerInit PROVE MountInv
    OBVIOUS
  <2>1. jobjs = [k \in Kinds |-> {}] /\ jrc.run = FALSE
    BY DEF JobControllerInit, JIdle
  <2>2. jobjs["app"] = {}
    BY <2>1 DEF Kinds
  <2> QED
    BY <2>1, <2>2, CopiesStart DEF MountInv, ConfigMounted
<1>2. MountInv /\ [JobControllerNext]_jvars => MountInv'
  BY MountStep
<1>3. MountInv => ConfigMounted
  BY DEF MountInv
<1> QED
  BY <1>1, <1>2, <1>3, PTL DEF JobControllerSpec

-----------------------------------------------------------------------------
(* ManagerReconciler                                                       *)

ManagerType == [here : BOOLEAN, type : {"", "Deployment", "DaemonSet", "none"}, phase : {"", "Succeeded"}]

LEMMA NoManagerType == NoManager \in ManagerType
  BY DEF NoManager, ManagerType

LEMMA IdleTodo == MIdle.todo = <<>>
  BY DEF MIdle

\* Managers, the cache and the reconcile have their types at the start, and the
\* cache tells the truth where it says so.
LEMMA ManagersStart ==
  ASSUME ManagerControllerInit
  PROVE  /\ mgr \in [Managers -> ManagerType]
         /\ mcache \in [Managers -> ManagerType]
         /\ mfresh \in [Managers -> BOOLEAN]
         /\ mrc = [name |-> mrc.name, type |-> mrc.type, fresh |-> mrc.fresh, todo |-> mrc.todo]
         /\ \A m \in Managers : mfresh[m] => mcache[m] = mgr[m]
<1>1. mgr \in [Managers -> ManagerType]
  <2>1. [NoManager EXCEPT !.here = TRUE, !.type = "Deployment"] \in ManagerType
    BY DEF NoManager, ManagerType
  <2> QED
    BY <2>1, NoManagerType DEF ManagerControllerInit
<1>2. \A m \in Managers : mfresh[m] => mcache[m] = mgr[m]
  BY DEF ManagerControllerInit, NoManager
<1>3. mfresh \in [Managers -> BOOLEAN]
  BY <1>1 DEF ManagerControllerInit
<1>4. mrc = MIdle /\ MIdle = [name |-> MIdle.name, type |-> MIdle.type, fresh |-> MIdle.fresh, todo |-> MIdle.todo]
  BY DEF ManagerControllerInit, MIdle
<1> QED
  BY <1>1, <1>2, <1>3, <1>4, NoManagerType DEF ManagerControllerInit

-----------------------------------------------------------------------------
(* The objects of an active Manager                                        *)

Needed == {"ServiceAccount", "Role", "RoleBinding", "Service", "Ingress"}
PlanSteps == {"ServiceAccount", "Role", "RoleBinding", "other", "Deployment", "DaemonSet", "none", "",
              "Service", "Ingress", "phase"}
Left(todo) == {todo[i] : i \in 1..Len(todo)}

\* A rest of Objects(type): the phase is last, or nothing but rights is left.
PlanFits(todo, type) ==
  /\ todo \in Seq(PlanSteps) /\ todo # <<>>
  /\ \A i \in 1..Len(todo) : todo[i] = "phase" => i = Len(todo)
  /\ type # "none" => todo[Len(todo)] = "phase"
  /\ type = "none" => \A i \in 1..Len(todo) : todo[i] \notin {"phase", "other"}

\* The reconcile in progress: unless the Manager is queued again, it is of the
\* type that the cache knows, and with the latest copy all that is needed is
\* there or still to be made.
PlanOK ==
  mrc # MIdle =>
    /\ mrc.name \in Managers
    /\ PlanFits(mrc.todo, mrc.type)
    /\ mrc.type = mcache[mrc.name].type \/ mrc.name \in mqueue
    /\ mrc.fresh => mgr[mrc.name].here
    /\ mrc.fresh /\ mrc.type # "none" =>
         Needed \subseteq mobjs[mrc.name] \cup Left(mrc.todo) \/ mrc.name \in mqueue

\* An active Manager that the controller knows has what it needs, or a reconcile
\* of it is due or in progress, or its type in the cache has nothing to deploy.
Due(m) ==
  m \in Active(mgr) /\ mcache[m].here =>
    Needed \subseteq mobjs[m] \/ m \in mqueue \/ mrc.name = m \/ mcache[m].type = "none"

CacheTyped ==
  /\ mgr \in [Managers -> ManagerType]
  /\ mcache \in [Managers -> ManagerType]
  /\ mfresh \in [Managers -> BOOLEAN]
  /\ mobjs = [m \in Managers |-> mobjs[m]]
  /\ mrc = [name |-> mrc.name, type |-> mrc.type, fresh |-> mrc.fresh, todo |-> mrc.todo]
  /\ \A m \in Managers : mfresh[m] => mcache[m] = mgr[m]
  /\ \A m \in Managers : mgr[m].phase = "Succeeded" => mgr[m].here

\* The inductive invariant.
DeployInv == CacheTyped /\ PlanOK /\ \A m \in Managers : Due(m)

\* Indices of short sequences.
LEMMA OneToThree == \A i \in 1..3 : i = 1 \/ i = 2 \/ i = 3
  OBVIOUS

LEMMA OneToEight == \A i \in 1..8 : i = 1 \/ i = 2 \/ i = 3 \/ i = 4 \/ i = 5 \/ i = 6 \/ i = 7 \/ i = 8
  OBVIOUS

\* Short tuples as sequences.
LEMMA ThreeTuple ==
  ASSUME NEW P, NEW a \in P, NEW b \in P, NEW c \in P
  PROVE  LET s == <<a, b, c>>
         IN s \in Seq(P) /\ Len(s) = 3 /\ s # <<>> /\ s[1] = a /\ s[2] = b /\ s[3] = c
  OBVIOUS

LEMMA TwoTuple ==
  ASSUME NEW P, NEW a \in P, NEW b \in P
  PROVE  LET s == <<a, b>>
             t == <<a>>
         IN /\ s \in Seq(P) /\ Len(s) = 2 /\ s # <<>> /\ s[1] = a /\ s[2] = b
            /\ t \in Seq(P) /\ Len(t) = 1 /\ t[1] = a
  OBVIOUS

\* The elements of a concatenation.
LEMMA Joined ==
  ASSUME NEW P, NEW s \in Seq(P), NEW t \in Seq(P)
  PROVE  /\ s \o t \in Seq(P) /\ Len(s \o t) = Len(s) + Len(t)
         /\ \A i \in 1..Len(s) : (s \o t)[i] = s[i]
         /\ \A i \in 1..Len(t) : (s \o t)[Len(s) + i] = t[i]
<1>1. /\ s \o t \in Seq(P) /\ Len(s \o t) = Len(s) + Len(t) /\ Len(s) \in Nat /\ Len(t) \in Nat
      /\ \A i \in 1..Len(s) + Len(t) : (s \o t)[i] = IF i <= Len(s) THEN s[i] ELSE t[i - Len(s)]
  BY ConcatProperties, LenProperties
<1>2. ASSUME NEW i \in 1..Len(t) PROVE (s \o t)[Len(s) + i] = t[i]
  <2>1. Len(s) + i \in 1..Len(s) + Len(t) /\ ~(Len(s) + i <= Len(s)) /\ (Len(s) + i) - Len(s) = i
    BY <1>1
  <2> QED
    BY <1>1, <2>1
<1> QED
  BY <1>1, <1>2

\* The same for a sequence that has a name.
LEMMA JoinedAs ==
  ASSUME NEW P, NEW s \in Seq(P), NEW t \in Seq(P), NEW r, r = s \o t
  PROVE  /\ r \in Seq(P) /\ Len(r) = Len(s) + Len(t)
         /\ \A i \in 1..Len(s) : r[i] = s[i]
         /\ \A i \in 1..Len(t) : r[Len(s) + i] = t[i]
  BY Joined

LEMMA Few == /\ 1 \in 1..1 /\ 1 \in 1..2 /\ 2 \in 1..2 /\ 1 \in 1..3 /\ 2 \in 1..3 /\ 3 \in 1..3
             /\ 1 \in 1..4 /\ 2 \in 1..4 /\ 3 \in 1..4 /\ 4 \in 1..4
             /\ 1 \in 1..5 /\ 2 \in 1..5 /\ 3 \in 1..5 /\ 4 \in 1..5 /\ 5 \in 1..5
  OBVIOUS

\* The plan of a reconcile when it begins.
LEMMA ObjectsPlan ==
  ASSUME NEW type \in PlanSteps, type # "phase"
  PROVE  PlanFits(Objects(type), type) /\ (type # "none" => Needed \subseteq Left(Objects(type)))
<1>0. /\ "ServiceAccount" \in PlanSteps /\ "Role" \in PlanSteps /\ "RoleBinding" \in PlanSteps
      /\ "other" \in PlanSteps /\ "Service" \in PlanSteps /\ "Ingress" \in PlanSteps /\ "phase" \in PlanSteps
  BY DEF PlanSteps
<1>a. /\ Rights \in Seq(PlanSteps) /\ Len(Rights) = 3 /\ Rights # <<>>
      /\ Rights[1] = "ServiceAccount" /\ Rights[2] = "Role" /\ Rights[3] = "RoleBinding"
  BY <1>0, ThreeTuple DEF Rights
<1>1. CASE type = "none"
  <2>1. Objects(type) = Rights
    <3>1. Objects(type) = Rights \o <<>>
      BY <1>1 DEF Objects, Workload
    <3> QED
      BY <1>a, <3>1, ConcatEmptySeq
  <2>2. \A i \in 1..Len(Rights) : Rights[i] \notin {"phase", "other"}
    BY <1>a, OneToThree
  <2> QED
    BY <1>1, <1>a, <2>1, <2>2 DEF PlanFits
<1>2. CASE type # "none"
  <2> DEFINE w == <<"other", type>>
             a == Access
             p == <<"phase">>
             wa == w \o a
             wap == wa \o p
             s == Rights \o wap
  <2>1. Objects(type) = s
    <3>1. Workload(type) = w /\ Workload(type) # <<>>
      BY <1>2, TwoTuple DEF Workload
    <3> QED
      BY <3>1 DEF Objects
  <2>2. /\ w \in Seq(PlanSteps) /\ Len(w) = 2 /\ w[1] = "other" /\ w[2] = type
        /\ a \in Seq(PlanSteps) /\ Len(a) = 2 /\ a[1] = "Service" /\ a[2] = "Ingress"
        /\ p \in Seq(PlanSteps) /\ Len(p) = 1 /\ p[1] = "phase"
    BY <1>0, TwoTuple DEF Access
  <2> HIDE DEF w, a, p
  <2>3. /\ wa \in Seq(PlanSteps) /\ Len(wa) = 4
        /\ wa[1] = "other" /\ wa[2] = type /\ wa[3] = "Service" /\ wa[4] = "Ingress"
    <3>1. /\ wa \in Seq(PlanSteps) /\ Len(wa) = 2 + 2
          /\ \A i \in 1..2 : wa[i] = w[i]
          /\ \A i \in 1..2 : wa[2 + i] = a[i]
      BY <2>2, Joined
    <3> HIDE DEF wa
    <3>2. wa[1] = w[1] /\ wa[2] = w[2] /\ wa[2 + 1] = a[1] /\ wa[2 + 2] = a[2]
      BY <3>1, Few
    <3> QED
      BY <2>2, <3>1, <3>2
  <2> HIDE DEF wa
  <2>4. /\ wap \in Seq(PlanSteps) /\ Len(wap) = 5
        /\ wap[1] = "other" /\ wap[2] = type /\ wap[3] = "Service" /\ wap[4] = "Ingress" /\ wap[5] = "phase"
    <3>1. /\ wap \in Seq(PlanSteps) /\ Len(wap) = 4 + 1
          /\ \A i \in 1..4 : wap[i] = wa[i]
          /\ \A i \in 1..1 : wap[4 + i] = p[i]
      <4>1. /\ wap \in Seq(PlanSteps) /\ Len(wap) = Len(wa) + Len(p)
            /\ \A i \in 1..Len(wa) : wap[i] = wa[i]
            /\ \A i \in 1..Len(p) : wap[Len(wa) + i] = p[i]
        <5>1. wa \in Seq(PlanSteps) /\ p \in Seq(PlanSteps) /\ wap = wa \o p
          BY <2>2, <2>3
        <5> HIDE DEF wap, s
        <5> QED
          BY <5>1, JoinedAs
      <4> QED
        BY <2>2, <2>3, <4>1
    <3> HIDE DEF wap
    <3>2. wap[1] = wa[1] /\ wap[2] = wa[2] /\ wap[3] = wa[3] /\ wap[4] = wa[4] /\ wap[4 + 1] = p[1]
      BY <3>1, Few
    <3> QED
      BY <2>2, <2>3, <3>1, <3>2
  <2> HIDE DEF wap
  <2>5. /\ s \in Seq(PlanSteps) /\ Len(s) = 3 + 5
        /\ \A i \in 1..3 : s[i] = Rights[i]
        /\ \A i \in 1..5 : s[3 + i] = wap[i]
    <3>1. /\ s \in Seq(PlanSteps) /\ Len(s) = Len(Rights) + Len(wap)
          /\ \A i \in 1..Len(Rights) : s[i] = Rights[i]
          /\ \A i \in 1..Len(wap) : s[Len(Rights) + i] = wap[i]
      <4>1. Rights \in Seq(PlanSteps) /\ wap \in Seq(PlanSteps) /\ s = Rights \o wap
        BY <1>a, <2>4
      <4> HIDE DEF s
      <4> QED
        BY <4>1, JoinedAs
    <3> HIDE DEF s
    <3> QED
      BY <1>a, <2>4, <3>1
  <2> HIDE DEF s
  <2>6. /\ s[1] = "ServiceAccount" /\ s[2] = "Role" /\ s[3] = "RoleBinding" /\ s[4] = "other" /\ s[5] = type
        /\ s[6] = "Service" /\ s[7] = "Ingress" /\ s[8] = "phase"
    <3>1. s[1] = Rights[1] /\ s[2] = Rights[2] /\ s[3] = Rights[3]
      BY <2>5, Few
    <3>2. s[3 + 1] = wap[1] /\ s[3 + 2] = wap[2] /\ s[3 + 3] = wap[3] /\ s[3 + 4] = wap[4] /\ s[3 + 5] = wap[5]
      BY <2>5, Few
    <3> QED
      BY <1>a, <2>4, <3>1, <3>2
  <2>7. s # <<>>
    <3>1. Len(s) # 0
      BY <2>5
    <3> QED
      BY <3>1
  <2>8. \A i \in 1..Len(s) : s[i] = "phase" => i = Len(s)
    BY <2>5, <2>6, OneToEight
  <2>9. Needed \subseteq Left(s)
    <3>1. 1 \in 1..Len(s) /\ 2 \in 1..Len(s) /\ 3 \in 1..Len(s) /\ 6 \in 1..Len(s) /\ 7 \in 1..Len(s)
      BY <2>5
    <3>2. s[1] \in Left(s) /\ s[2] \in Left(s) /\ s[3] \in Left(s) /\ s[6] \in Left(s) /\ s[7] \in Left(s)
      BY <3>1 DEF Left
    <3> QED
      BY <2>6, <3>2 DEF Needed
  <2>10. s[Len(s)] = "phase"
    BY <2>5, <2>6
  <2> QED
    BY <1>2, <2>1, <2>5, <2>7, <2>8, <2>9, <2>10 DEF PlanFits
<1> QED
  BY <1>1, <1>2

\* What is left of a plan when its first step is done.
LEMMA PlanTail ==
  ASSUME NEW todo, NEW type, PlanFits(todo, type)
  PROVE  /\ Left(todo) = {Head(todo)} \cup Left(Tail(todo))
         /\ Len(todo) # 1 => PlanFits(Tail(todo), type)
         /\ Head(todo) = "phase" => Left(todo) = {"phase"} /\ type # "none"
         /\ Head(todo) # "phase" /\ Len(todo) = 1 => type = "none"
         /\ Head(todo) = "other" => Len(todo) # 1
<1> DEFINE t == Tail(todo)
<1>1. /\ todo \in Seq(PlanSteps) /\ Len(todo) \in Nat \ {0} /\ Head(todo) = todo[1]
      /\ t \in Seq(PlanSteps) /\ Len(t) = Len(todo) - 1
      /\ \A i \in 1..Len(t) : t[i] = todo[i + 1]
  BY HeadTailProperties, LenProperties, EmptySeq DEF PlanFits
<1>2. /\ \A i \in 1..Len(todo) : todo[i] = "phase" => i = Len(todo)
      /\ type # "none" => todo[Len(todo)] = "phase"
      /\ type = "none" => \A i \in 1..Len(todo) : todo[i] \notin {"phase", "other"}
  BY DEF PlanFits
<1> HIDE DEF t
<1>3. Left(todo) = {todo[1]} \cup Left(t)
  <2>1. ASSUME NEW i \in 1..Len(todo) PROVE todo[i] \in {todo[1]} \cup Left(t)
    <3>1. CASE i = 1
      BY <3>1
    <3>2. CASE i # 1
      <4>1. i - 1 \in 1..Len(t) /\ (i - 1) + 1 = i
        BY <1>1, <3>2
      <4>2. t[i - 1] = todo[i]
        BY <1>1, <4>1
      <4> QED
        BY <4>1, <4>2 DEF Left
    <3> QED
      BY <3>1, <3>2
  <2>2. ASSUME NEW i \in 1..Len(t) PROVE t[i] \in Left(todo)
    <3>1. i + 1 \in 1..Len(todo) /\ t[i] = todo[i + 1]
      BY <1>1
    <3> QED
      BY <3>1 DEF Left
  <2>3. todo[1] \in Left(todo)
    BY <1>1 DEF Left
  <2> QED
    BY <2>1, <2>2, <2>3 DEF Left
<1>4. CASE Len(todo) # 1
  <2>1. Len(t) \in Nat \ {0} /\ t # <<>> /\ todo[1] # "phase"
    BY <1>1, <1>2, <1>4, EmptySeq
  <2>2. ASSUME NEW i \in 1..Len(t) PROVE i + 1 \in 1..Len(todo) /\ t[i] = todo[i + 1]
    BY <1>1
  <2>3. t[Len(t)] = todo[Len(todo)]
    BY <1>1, <2>1
  <2>4. \A i \in 1..Len(t) : t[i] = "phase" => i = Len(t)
    BY <1>1, <1>2, <2>2
  <2>5. PlanFits(t, type)
    BY <1>1, <1>2, <2>1, <2>2, <2>3, <2>4 DEF PlanFits
  <2> QED
    BY <1>1, <1>3, <1>4, <2>1, <2>5 DEF t
<1>5. CASE Len(todo) = 1
  <2>1. Left(t) = {} /\ 1 \in 1..Len(todo)
    BY <1>1, <1>5 DEF Left
  <2> QED
    BY <1>1, <1>2, <1>3, <1>5, <2>1 DEF t
<1> QED
  BY <1>4, <1>5

\* No Manager is reconciled while mrc is idle.
LEMMA NamedManagers == \A m \in Managers : MIdle.name # m
  BY ManagerControllerAssumption DEF MIdle

\* A step of a reconcile that is not its last.
LEMMA PlanGoes ==
  ASSUME DeployInv, mrc.todo # <<>>, UNCHANGED <<mgr, mcache, mfresh>>, mrc' = Done, Len(mrc.todo) # 1,
         mobjs' = [m \in Managers |-> mobjs'[m]], mqueue \subseteq mqueue',
         \A m \in Managers : m # mrc.name => mobjs'[m] = mobjs[m],
         mobjs[mrc.name] \cap Needed \subseteq mobjs'[mrc.name],
         mrc.fresh /\ Head(mrc.todo) \in Needed => Head(mrc.todo) \in mobjs'[mrc.name]
  PROVE  DeployInv'
<1>0. mrc # MIdle /\ mrc.name \in Managers /\ PlanFits(mrc.todo, mrc.type)
  BY IdleTodo DEF DeployInv, PlanOK
<1>1. mrc'.name = mrc.name /\ mrc'.type = mrc.type /\ mrc'.fresh = mrc.fresh /\ mrc'.todo = Tail(mrc.todo)
  BY DEF DeployInv, CacheTyped, Done
<1>2. CacheTyped'
  <2>1. mrc' = [name |-> mrc'.name, type |-> mrc'.type, fresh |-> mrc'.fresh, todo |-> mrc'.todo]
    BY DEF DeployInv, CacheTyped, Done
  <2> QED
    BY <2>1 DEF DeployInv, CacheTyped
<1>3. PlanFits(Tail(mrc.todo), mrc.type) /\ Left(mrc.todo) = {Head(mrc.todo)} \cup Left(Tail(mrc.todo))
  BY <1>0, PlanTail
<1>4. PlanFits(mrc.todo, mrc.type)' /\ Left(mrc.todo)' = Left(Tail(mrc.todo))
  BY <1>1, <1>3 DEF PlanFits, Left
<1>5. mrc.fresh /\ mrc.type # "none" =>
        Needed \subseteq mobjs'[mrc.name] \cup Left(Tail(mrc.todo)) \/ mrc.name \in mqueue'
  BY <1>0, <1>3 DEF DeployInv, PlanOK
<1>6. PlanOK'
  BY <1>0, <1>1, <1>4, <1>5 DEF DeployInv, PlanOK
<1>7. ASSUME NEW m \in Managers PROVE Due(m)'
  <2>1. mgr' = mgr /\ mcache' = mcache /\ Active(mgr') = Active(mgr)
    OBVIOUS
  <2>2. Due(m)
    BY DEF DeployInv
  <2> QED
    BY <1>1, <2>1, <2>2 DEF Due
<1> QED
  BY <1>2, <1>6, <1>7 DEF DeployInv

\* The end of a reconcile, when the Manager has what it needs or is due again.
LEMMA PlanEnds ==
  ASSUME DeployInv, CacheTyped', mrc' = MIdle, mcache' = mcache, mqueue \subseteq mqueue',
         Active(mgr') \subseteq Active(mgr) \cup {mrc.name},
         \A m \in Managers : m # mrc.name => mobjs'[m] = mobjs[m],
         \A m \in Managers : m = mrc.name => Due(m)'
  PROVE  DeployInv'
<1>1. PlanOK'
  BY DEF PlanOK, MIdle
<1>2. ASSUME NEW m \in Managers, m # mrc.name PROVE Due(m)'
  <2>1. Due(m) /\ (m \in Active(mgr)' => m \in Active(mgr))
    BY <1>2 DEF DeployInv
  <2> QED
    BY <1>2, <2>1 DEF Due
<1> QED
  BY <1>1, <1>2 DEF DeployInv

LEMMA DeployStart == ManagerControllerInit => DeployInv
<1> SUFFICES ASSUME ManagerControllerInit PROVE DeployInv
  OBVIOUS
<1>2. \A m \in Managers : mgr[m].phase # "Succeeded"
  <2>1. NoManager.phase # "Succeeded" /\ [NoManager EXCEPT !.here = TRUE, !.type = "Deployment"].phase # "Succeeded"
    BY DEF NoManager
  <2> QED
    BY <2>1 DEF ManagerControllerInit
<1>3. mrc = MIdle /\ mobjs = [m \in Managers |-> mobjs[m]]
  BY DEF ManagerControllerInit
<1>4. CacheTyped
  BY <1>2, <1>3, ManagersStart DEF CacheTyped
<1>5. \A m \in Managers : Due(m)
  BY <1>2 DEF Due, Active
<1> QED
  BY <1>3, <1>4, <1>5 DEF DeployInv, PlanOK

\* A user's change of m: it is not active if it was not before, its objects go
\* only with it, and the copy of a reconcile of it is out of date.
LEMMA UserDeploys ==
  ASSUME DeployInv, NEW m \in Managers, NEW new \in ManagerType,
         new.phase = "Succeeded" => new.here /\ mgr[m].phase = "Succeeded",
         mgr' = [mgr EXCEPT ![m] = new], mfresh' = [mfresh EXCEPT ![m] = FALSE],
         mcache' = mcache, mqueue' = mqueue,
         mobjs' = mobjs \/ (~new.here /\ mobjs' = [mobjs EXCEPT ![m] = {}]),
         (mrc' = mrc /\ mrc.name # m) \/ (mrc' = [mrc EXCEPT !.fresh = FALSE] /\ mrc.name = m)
  PROVE  DeployInv'
<1>0. CacheTyped
  BY DEF DeployInv
<1>1. /\ mgr'[m] = new /\ \A n \in Managers : n # m => mgr'[n] = mgr[n]
      /\ \A n \in Managers : n # m \/ new.here => mobjs'[n] = mobjs[n]
  BY <1>0 DEF CacheTyped
<1>2. /\ mrc'.name = mrc.name /\ mrc'.type = mrc.type /\ mrc'.todo = mrc.todo
      /\ mrc'.fresh => mrc.fresh /\ mrc.name # m
      /\ mrc' = [name |-> mrc'.name, type |-> mrc'.type, fresh |-> mrc'.fresh, todo |-> mrc'.todo]
  BY <1>0 DEF CacheTyped
<1>3. CacheTyped'
  <2>1. mgr' \in [Managers -> ManagerType] /\ mcache' \in [Managers -> ManagerType]
        /\ mfresh' \in [Managers -> BOOLEAN]
    BY <1>0 DEF CacheTyped
  <2>2. mobjs' = [n \in Managers |-> mobjs'[n]]
    BY <1>0 DEF CacheTyped
  <2>3. \A n \in Managers : mfresh'[n] => mcache'[n] = mgr'[n]
    BY <1>0 DEF CacheTyped
  <2>4. \A n \in Managers : mgr'[n].phase = "Succeeded" => mgr'[n].here
    BY <1>0, <1>1 DEF CacheTyped
  <2> QED
    BY <1>2, <2>1, <2>2, <2>3, <2>4 DEF CacheTyped
<1>4. mrc' # MIdle => mrc # MIdle
  BY NamedManagers
<1>5. PlanOK'
  <2> SUFFICES ASSUME mrc' # MIdle PROVE
        /\ mrc'.name \in Managers
        /\ PlanFits(mrc.todo, mrc.type)'
        /\ mrc'.type = mcache'[mrc'.name].type \/ mrc'.name \in mqueue'
        /\ mrc'.fresh => mgr'[mrc'.name].here
        /\ mrc'.fresh /\ mrc'.type # "none" =>
             Needed \subseteq mobjs'[mrc'.name] \cup Left(mrc.todo)' \/ mrc'.name \in mqueue'
    BY DEF PlanOK
  <2>1. PlanFits(mrc.todo, mrc.type)' = PlanFits(mrc.todo, mrc.type) /\ Left(mrc.todo)' = Left(mrc.todo)
    BY <1>2 DEF PlanFits, Left
  <2> QED
    BY <1>1, <1>2, <1>4, <2>1 DEF DeployInv, PlanOK
<1>6. ASSUME NEW n \in Managers PROVE Due(n)'
  <2> SUFFICES ASSUME n \in Active(mgr') PROVE Due(n)'
    BY DEF Due
  <2>1. n \in Active(mgr) /\ mobjs'[n] = mobjs[n]
    BY <1>0, <1>1 DEF Active, CacheTyped
  <2>2. Due(n)
    BY DEF DeployInv
  <2> QED
    BY <1>2, <2>1, <2>2 DEF Due
<1> QED
  BY <1>3, <1>5, <1>6 DEF DeployInv

\* The cache takes the latest copy of m over, and what changes its type queues it.
LEMMA SyncDeploys ==
  ASSUME DeployInv, NEW m \in Managers, MSync(m)
  PROVE  DeployInv'
<1>0. CacheTyped
  BY DEF DeployInv
<1>1. /\ mcache' = [mcache EXCEPT ![m] = mgr[m]] /\ mfresh' = [mfresh EXCEPT ![m] = TRUE]
      /\ UNCHANGED <<mgr, mobjs, mrc>> /\ mqueue \subseteq mqueue'
      /\ m \in mqueue' \/ (mcache[m].here = mgr[m].here /\ mcache[m].type = mgr[m].type)
  BY DEF MSync
<1>2. /\ mcache'[m] = mgr[m] /\ \A n \in Managers : n # m => mcache'[n] = mcache[n]
      /\ mcache' \in [Managers -> ManagerType] /\ mfresh' \in [Managers -> BOOLEAN]
  BY <1>0, <1>1 DEF CacheTyped
<1>3. \A n \in Managers : mfresh'[n] => mcache'[n] = mgr'[n]
  BY <1>0, <1>1, <1>2 DEF CacheTyped
<1>4. CacheTyped'
  BY <1>0, <1>1, <1>2, <1>3 DEF CacheTyped
<1>5. \A n \in Managers : n \in mqueue' \/ (mcache'[n].here = mcache[n].here /\ mcache'[n].type = mcache[n].type)
  BY <1>1, <1>2
<1>6. PlanOK'
  <2>1. PlanFits(mrc.todo, mrc.type)' = PlanFits(mrc.todo, mrc.type) /\ Left(mrc.todo)' = Left(mrc.todo)
    BY <1>1 DEF PlanFits, Left
  <2> QED
    BY <1>1, <1>5, <2>1 DEF DeployInv, PlanOK
<1>7. ASSUME NEW n \in Managers PROVE Due(n)'
  <2>1. Due(n) /\ Active(mgr') = Active(mgr)
    BY <1>1 DEF DeployInv
  <2> QED
    BY <1>1, <1>5, <2>1 DEF Due
<1> QED
  BY <1>4, <1>6, <1>7 DEF DeployInv

\* A reconcile begins: m leaves the queue, but its whole plan lies ahead.
LEMMA BeginDeploys ==
  ASSUME DeployInv, NEW m \in Managers, MBegin(m)
  PROVE  DeployInv'
<1>0. CacheTyped /\ UNCHANGED <<mgr, mcache, mfresh, mobjs>> /\ mrc = MIdle /\ mqueue' = mqueue \ {m}
  BY DEF DeployInv, MBegin
<1>1. CASE ~mcache[m].here /\ mrc' = mrc
  <2>1. ASSUME NEW n \in Managers PROVE Due(n)'
    <3>1. Due(n) /\ Active(mgr') = Active(mgr)
      BY <1>0 DEF DeployInv
    <3> QED
      BY <1>0, <1>1, <3>1 DEF Due
  <2>2. CacheTyped'
    BY <1>0, <1>1 DEF CacheTyped
  <2> QED
    BY <1>0, <1>1, <2>1, <2>2 DEF DeployInv, PlanOK
<1>2. CASE mrc' = [name |-> m, type |-> mcache[m].type, fresh |-> mfresh[m], todo |-> Objects(mcache[m].type)]
  <2>1. mrc'.name = m /\ mrc'.type = mcache[m].type /\ mrc'.fresh = mfresh[m] /\ mrc'.todo = Objects(mcache[m].type)
        /\ mrc' = [name |-> mrc'.name, type |-> mrc'.type, fresh |-> mrc'.fresh, todo |-> mrc'.todo]
    BY <1>2
  <2>2. mcache[m].type \in PlanSteps /\ mcache[m].type # "phase"
    <3>1. mcache[m] \in ManagerType
      BY <1>0 DEF CacheTyped
    <3>2. mcache[m].type \in {"", "Deployment", "DaemonSet", "none"}
      BY <3>1, Zenon DEF ManagerType
    <3> QED
      BY <3>2, Zenon DEF PlanSteps
  <2> DEFINE todo == Objects(mcache[m].type)
             type == mcache[m].type
  <2>3. PlanFits(todo, type) /\ (type # "none" => Needed \subseteq Left(todo))
    BY <2>2, ObjectsPlan
  <2> HIDE DEF todo
  <2>4. mrc'.todo = todo
    BY <2>1 DEF todo
  <2>5. PlanFits(mrc.todo, mrc.type)' /\ (type # "none" => Needed \subseteq Left(mrc.todo)')
    BY <2>1, <2>3, <2>4 DEF PlanFits, Left
  <2>6. CacheTyped'
    BY <1>0, <2>1 DEF CacheTyped
  <2>7. mfresh[m] => mgr'[m].here
    <3>1. CASE mcache[m].here
      BY <1>0, <3>1 DEF CacheTyped
    <3>2. CASE ~mcache[m].here
      BY <1>0, <2>1, <3>2, NamedManagers DEF MBegin
    <3> QED
      BY <3>1, <3>2
  <2>8. PlanOK'
    BY <1>0, <2>1, <2>5, <2>7 DEF PlanOK
  <2>9. ASSUME NEW n \in Managers PROVE Due(n)'
    <3>1. Due(n) /\ Active(mgr') = Active(mgr) /\ mrc.name # n
      BY <1>0, NamedManagers DEF DeployInv
    <3> QED
      BY <1>0, <2>1, <3>1 DEF Due
  <2> QED
    BY <2>6, <2>8, <2>9 DEF DeployInv
<1> QED
  BY <1>1, <1>2 DEF MBegin

\* A patch: the object is there then, if the Manager is.
LEMMA PatchDeploys ==
  ASSUME DeployInv, MPatch
  PROVE  DeployInv'
<1>0. PICK k \in {"ServiceAccount", "Role", "RoleBinding", "Deployment", "DaemonSet", "Service", "Ingress"} :
        /\ mrc.todo # <<>> /\ Head(mrc.todo) = k
        /\ mobjs' = IF mgr[mrc.name].here THEN [mobjs EXCEPT ![mrc.name] = @ \cup {k}] ELSE mobjs
        /\ mrc' = IF Len(mrc.todo) = 1 THEN MIdle ELSE Done
        /\ mqueue' = mqueue \cup OwnedChange
        /\ UNCHANGED <<mgr, mcache, mfresh, mfaults>>
  BY DEF MPatch, Todo
<1>1. CacheTyped /\ mrc # MIdle /\ mrc.name \in Managers /\ PlanFits(mrc.todo, mrc.type)
      /\ (mrc.fresh => mgr[mrc.name].here)
      /\ (mrc.type = mcache[mrc.name].type \/ mrc.name \in mqueue)
  BY <1>0, IdleTodo DEF DeployInv, PlanOK
<1>2. /\ mobjs' = [m \in Managers |-> mobjs'[m]]
      /\ \A m \in Managers : m # mrc.name => mobjs'[m] = mobjs[m]
      /\ mobjs[mrc.name] \subseteq mobjs'[mrc.name]
      /\ mrc.fresh => k \in mobjs'[mrc.name]
  BY <1>0, <1>1 DEF CacheTyped
<1>3. mqueue \subseteq mqueue'
  BY <1>0
<1>4. CASE Len(mrc.todo) # 1
  <2>1. mobjs[mrc.name] \cap Needed \subseteq mobjs'[mrc.name]
    BY <1>2
  <2>2. mrc' = Done
    BY <1>0, <1>4
  <2> QED
    BY <1>0, <1>2, <1>3, <1>4, <2>1, <2>2, PlanGoes
<1>5. CASE Len(mrc.todo) = 1
  <2>1. mrc' = MIdle
    BY <1>0, <1>5
  <2>2. mrc.type = "none"
    <3>1. Head(mrc.todo) # "phase"
      BY <1>0
    <3> QED
      BY <1>1, <1>5, <3>1, PlanTail
  <2>3. CacheTyped'
    BY <1>0, <1>1, <1>2, <2>1 DEF CacheTyped, MIdle
  <2>4. ASSUME NEW m \in Managers, m = mrc.name PROVE Due(m)'
    <3>1. mcache'[m].type = "none" \/ m \in mqueue'
      BY <1>0, <1>1, <1>3, <2>2, <2>4
    <3> QED
      BY <3>1 DEF Due
  <2>5. Active(mgr') \subseteq Active(mgr) \cup {mrc.name} /\ mcache' = mcache
    BY <1>0
  <2> QED
    BY <1>2, <1>3, <2>1, <2>3, <2>4, <2>5, PlanEnds
<1> QED
  BY <1>4, <1>5

\* The workload of the other type is not among what every Manager needs.
LEMMA OtherDeploys ==
  ASSUME DeployInv, MDeleteOther
  PROVE  DeployInv'
<1>0. /\ mrc.todo # <<>> /\ Head(mrc.todo) = "other"
      /\ mobjs' = [mobjs EXCEPT ![mrc.name] = @ \ {Other(mrc.type)}]
      /\ mrc' = Done /\ mqueue \subseteq mqueue' /\ UNCHANGED <<mgr, mcache, mfresh>>
  BY DEF MDeleteOther, Todo
<1>1. CacheTyped /\ mrc.name \in Managers /\ PlanFits(mrc.todo, mrc.type)
  BY <1>0, IdleTodo DEF DeployInv, PlanOK
<1>2. Len(mrc.todo) # 1
  BY <1>0, <1>1, PlanTail
<1>3. Other(mrc.type) \notin Needed /\ "other" \notin Needed
  BY DEF Other, Needed
<1>4. /\ mobjs' = [m \in Managers |-> mobjs'[m]]
      /\ \A m \in Managers : m # mrc.name => mobjs'[m] = mobjs[m]
      /\ mobjs[mrc.name] \cap Needed \subseteq mobjs'[mrc.name]
  BY <1>0, <1>1, <1>3 DEF CacheTyped
<1> QED
  BY <1>0, <1>2, <1>3, <1>4, PlanGoes

\* The phase is stored last, with the latest copy: the rest is there by then.
LEMMA PhaseDeploys ==
  ASSUME DeployInv, MPhase
  PROVE  DeployInv'
<1>0. mrc.todo # <<>> /\ Head(mrc.todo) = "phase" /\ mrc' = MIdle /\ mcache' = mcache /\ mobjs' = mobjs
  BY DEF MPhase, Todo
<1>1. /\ CacheTyped /\ mrc # MIdle /\ mrc.name \in Managers /\ PlanFits(mrc.todo, mrc.type)
      /\ mrc.fresh => mgr[mrc.name].here
      /\ mrc.fresh /\ mrc.type # "none" =>
           Needed \subseteq mobjs[mrc.name] \cup Left(mrc.todo) \/ mrc.name \in mqueue
  BY <1>0, IdleTodo DEF DeployInv, PlanOK
<1>2. CASE ~mrc.fresh
  <2>1. mqueue' = mqueue \cup {mrc.name} /\ UNCHANGED <<mgr, mfresh>>
    BY <1>2 DEF MPhase
  <2>2. CacheTyped'
    BY <1>0, <1>1, <2>1 DEF CacheTyped, MIdle
  <2>3. \A m \in Managers : m = mrc.name => Due(m)'
    BY <2>1 DEF Due
  <2>4. Active(mgr') \subseteq Active(mgr) \cup {mrc.name} /\ mqueue \subseteq mqueue'
    BY <2>1
  <2>5. \A m \in Managers : m # mrc.name => mobjs'[m] = mobjs[m]
    BY <1>0
  <2> QED
    BY <1>0, <2>2, <2>3, <2>4, <2>5, PlanEnds
<1>3. CASE mrc.fresh
  <2>1. /\ mgr' = [mgr EXCEPT ![mrc.name].phase = "Succeeded"]
        /\ mfresh' = [mfresh EXCEPT ![mrc.name] = @ /\ mgr[mrc.name].phase = "Succeeded"]
        /\ mqueue' = mqueue
    BY <1>3 DEF MPhase
  <2>2. mgr[mrc.name] \in ManagerType
    BY <1>1 DEF CacheTyped
  <2>3. [mgr[mrc.name] EXCEPT !.phase = "Succeeded"] \in ManagerType
    BY <2>2 DEF ManagerType
  <2>4. mgr' \in [Managers -> ManagerType] /\ mfresh' \in [Managers -> BOOLEAN]
    BY <1>1, <2>1, <2>3 DEF CacheTyped
  <2>5. ASSUME NEW n \in Managers, mfresh'[n] PROVE mcache'[n] = mgr'[n]
    <3>1. CASE n # mrc.name
      BY <1>0, <1>1, <2>1, <2>5, <3>1 DEF CacheTyped
    <3>2. CASE n = mrc.name
      <4>1. mfresh[n] /\ mgr[n].phase = "Succeeded"
        BY <1>1, <2>1, <2>5, <3>2 DEF CacheTyped
      <4>2. mgr'[n] = [mgr[n] EXCEPT !.phase = "Succeeded"] /\ mgr[n] \in ManagerType
        BY <1>1, <2>1, <2>2, <3>2 DEF CacheTyped
      <4>3. mgr'[n] = mgr[n]
        BY <4>1, <4>2 DEF ManagerType
      <4> QED
        BY <1>0, <1>1, <4>1, <4>3 DEF CacheTyped
    <3> QED
      BY <3>1, <3>2
  <2>6. ASSUME NEW n \in Managers, mgr'[n].phase = "Succeeded" PROVE mgr'[n].here
    <3>1. CASE n # mrc.name
      BY <1>1, <2>1, <2>6, <3>1 DEF CacheTyped
    <3>2. CASE n = mrc.name
      <4>1. mgr'[n] = [mgr[n] EXCEPT !.phase = "Succeeded"]
        BY <1>1, <2>1, <3>2 DEF CacheTyped
      <4>2. mgr'[n].here = mgr[n].here
        BY <2>2, <3>2, <4>1 DEF ManagerType
      <4> QED
        BY <1>1, <1>3, <3>2, <4>2
    <3> QED
      BY <3>1, <3>2
  <2>7. CacheTyped'
    BY <1>0, <1>1, <2>4, <2>5, <2>6 DEF CacheTyped, MIdle
  <2>8. Needed \subseteq mobjs[mrc.name] \/ mrc.name \in mqueue
    <3>1. Left(mrc.todo) = {"phase"} /\ mrc.type # "none"
      BY <1>0, <1>1, PlanTail
    <3>2. "phase" \notin Needed
      BY DEF Needed
    <3> QED
      BY <1>1, <1>3, <3>1, <3>2
  <2>9. \A m \in Managers : m = mrc.name => Due(m)'
    BY <1>0, <2>1, <2>8 DEF Due
  <2>10. Active(mgr') \subseteq Active(mgr) \cup {mrc.name}
    BY <1>1, <2>1 DEF Active, CacheTyped
  <2>11. mqueue \subseteq mqueue' /\ \A m \in Managers : m # mrc.name => mobjs'[m] = mobjs[m]
    BY <1>0, <2>1
  <2> QED
    BY <1>0, <2>7, <2>9, <2>10, <2>11, PlanEnds
<1> QED
  BY <1>2, <1>3

LEMMA DeployStep ==
  ASSUME DeployInv, [ManagerControllerNext]_mvars
  PROVE  DeployInv'
<1>0. CacheTyped
  BY DEF DeployInv
<1>1. ASSUME NEW m \in Managers, CreateManager(m) PROVE DeployInv'
  <2>1. PICK type \in {"Deployment", "DaemonSet", "none"} :
          mgr' = [mgr EXCEPT ![m] = [NoManager EXCEPT !.here = TRUE, !.type = type]]
    BY <1>1 DEF CreateManager
  <2> DEFINE new == [NoManager EXCEPT !.here = TRUE, !.type = type]
  <2>2. new \in ManagerType /\ new.phase # "Succeeded"
    BY DEF NoManager, ManagerType
  <2>3. /\ mfresh' = [mfresh EXCEPT ![m] = FALSE] /\ mrc' = mrc /\ mrc.name # m
        /\ mcache' = mcache /\ mqueue' = mqueue /\ mobjs' = mobjs /\ mgr' = [mgr EXCEPT ![m] = new]
    BY <1>1, <2>1 DEF CreateManager
  <2> HIDE DEF new
  <2> QED
    BY <2>2, <2>3, UserDeploys
<1>2. ASSUME NEW m \in Managers, EditManager(m) PROVE DeployInv'
  <2>1. PICK type \in {"Deployment", "DaemonSet", "none"} : mgr' = [mgr EXCEPT ![m].type = type]
    BY <1>2 DEF EditManager
  <2> DEFINE new == [mgr[m] EXCEPT !.type = type]
  <2>2. mgr[m] \in ManagerType /\ mgr[m].here
    BY <1>0, <1>2 DEF CacheTyped, EditManager
  <2>3. new \in ManagerType /\ new.phase = mgr[m].phase /\ new.here
    BY <2>2 DEF ManagerType
  <2>4. mgr' = [mgr EXCEPT ![m] = new]
    BY <1>0, <2>1 DEF CacheTyped
  <2>5. /\ mfresh' = [mfresh EXCEPT ![m] = FALSE] /\ mcache' = mcache /\ mqueue' = mqueue /\ mobjs' = mobjs
        /\ (mrc' = mrc /\ mrc.name # m) \/ (mrc' = [mrc EXCEPT !.fresh = FALSE] /\ mrc.name = m)
    BY <1>2 DEF EditManager
  <2> HIDE DEF new
  <2> QED
    BY <2>3, <2>4, <2>5, UserDeploys
<1>3. ASSUME NEW m \in Managers, DeleteManager(m) PROVE DeployInv'
  <2>1. NoManager.phase # "Succeeded" /\ NoManager.here = FALSE
    BY DEF NoManager
  <2>2. /\ mfresh' = [mfresh EXCEPT ![m] = FALSE] /\ mcache' = mcache /\ mqueue' = mqueue
        /\ mobjs' = [mobjs EXCEPT ![m] = {}] /\ mgr' = [mgr EXCEPT ![m] = NoManager]
        /\ (mrc' = mrc /\ mrc.name # m) \/ (mrc' = [mrc EXCEPT !.fresh = FALSE] /\ mrc.name = m)
    BY <1>3 DEF DeleteManager
  <2> QED
    BY <2>1, <2>2, NoManagerType, UserDeploys
<1>4. ASSUME NEW m \in Managers, DeleteObject(m) PROVE DeployInv'
  <2>1. /\ UNCHANGED <<mgr, mcache, mfresh, mrc>> /\ mqueue' = mqueue \cup {m}
        /\ mobjs' = [n \in Managers |-> mobjs'[n]]
        /\ \A n \in Managers : n # m => mobjs'[n] = mobjs[n]
    BY <1>0, <1>4 DEF DeleteObject, CacheTyped
  <2>2. CacheTyped'
    BY <1>0, <2>1 DEF CacheTyped
  <2>3. PlanOK'
    <3>1. PlanFits(mrc.todo, mrc.type)' = PlanFits(mrc.todo, mrc.type) /\ Left(mrc.todo)' = Left(mrc.todo)
      BY <2>1 DEF PlanFits, Left
    <3> QED
      BY <2>1, <3>1 DEF DeployInv, PlanOK
  <2>4. ASSUME NEW n \in Managers PROVE Due(n)'
    <3>1. Due(n) /\ Active(mgr') = Active(mgr)
      BY <2>1 DEF DeployInv
    <3> QED
      BY <2>1, <3>1 DEF Due
  <2> QED
    BY <2>2, <2>3, <2>4 DEF DeployInv
<1>5. CASE MFail
  <2>1. mrc # MIdle /\ UNCHANGED <<mgr, mcache, mfresh, mobjs>> /\ mrc.name \in Managers
        /\ PlanFits(mrc.todo, mrc.type)
    BY <1>5 DEF MFail, DeployInv, PlanOK
  <2>2. CASE Todo("other")
    <3>1. mrc.todo # <<>> /\ Head(mrc.todo) = "other" /\ mrc' = Done /\ mqueue' = mqueue
      BY <1>5, <2>2 DEF MFail, Todo
    <3>2. Len(mrc.todo) # 1 /\ "other" \notin Needed
      BY <2>1, <3>1, PlanTail DEF Needed
    <3>3. mobjs' = [m \in Managers |-> mobjs'[m]] /\ mobjs' = mobjs
      BY <1>0, <2>1 DEF CacheTyped
    <3> QED
      BY <2>1, <3>1, <3>2, <3>3, PlanGoes
  <2>3. CASE ~Todo("other")
    <3>1. mrc' = MIdle /\ mqueue' = mqueue \cup {mrc.name}
      BY <1>5, <2>3 DEF MFail
    <3>2. CacheTyped'
      BY <1>0, <2>1, <3>1 DEF CacheTyped, MIdle
    <3>3. \A m \in Managers : m = mrc.name => Due(m)'
      BY <3>1 DEF Due
    <3>4. Active(mgr') \subseteq Active(mgr) \cup {mrc.name}
      BY <2>1
    <3> QED
      BY <2>1, <3>1, <3>2, <3>3, <3>4, PlanEnds
  <2> QED
    BY <2>2, <2>3
<1>6. CASE MRestart
  <2>1. /\ mcache' = mgr /\ mfresh' = [m \in Managers |-> TRUE] /\ mqueue' = {m \in Managers : mgr[m].here}
        /\ mrc' = MIdle /\ UNCHANGED <<mgr, mobjs>>
    BY <1>6 DEF MRestart
  <2>2. CacheTyped'
    BY <1>0, <2>1 DEF CacheTyped, MIdle
  <2>3. \A m \in Managers : Due(m)'
    BY <2>1 DEF Due, Active
  <2> QED
    BY <2>1, <2>2, <2>3 DEF DeployInv, PlanOK
<1>7. CASE UNCHANGED mvars
  <2>1. CacheTyped'
    BY <1>0, <1>7 DEF CacheTyped, mvars
  <2>2. PlanOK' /\ \A m \in Managers : Due(m)'
    BY <1>7 DEF DeployInv, PlanOK, PlanFits, Left, Due, Active, mvars
  <2> QED
    BY <2>1, <2>2 DEF DeployInv
<1> QED
  BY <1>1, <1>2, <1>3, <1>4, <1>5, <1>6, <1>7, SyncDeploys, BeginDeploys, PatchDeploys, OtherDeploys, PhaseDeploys
  DEF ManagerControllerNext, MReconcile

\* A Manager that is said to be deployed has what every Manager needs, or a
\* reconcile of it is due: DeployedIsComplete, for any number of Managers, edits,
\* failures and restarts, and however old the cache is.
THEOREM DeployedIsCompleteHolds == ManagerControllerSpec => []DeployedIsComplete
<1>1. DeployInv => DeployedIsComplete
  <2> SUFFICES ASSUME DeployInv, NEW m \in Active(mgr), mfresh[m], mrc.name # m, m \notin mqueue, mgr[m].type # "none"
               PROVE  Needed \subseteq mobjs[m]
    BY DEF DeployedIsComplete, Needed
  <2>1. m \in Managers /\ mgr[m].here
    BY DEF Active
  <2>2. mcache[m] = mgr[m] /\ Due(m)
    BY <2>1 DEF DeployInv, CacheTyped
  <2> QED
    BY <2>1, <2>2 DEF Due
<1>2. DeployInv /\ [ManagerControllerNext]_mvars => DeployInv'
  BY DeployStep
<1> QED
  BY <1>1, <1>2, DeployStart, PTL DEF ManagerControllerSpec

-----------------------------------------------------------------------------
(* The active Manager                                                      *)

\* A step that makes no other Manager active, does not forget m, and begins no
\* reconcile of another one with its latest copy.
LEMMA StaysEstablished ==
  ASSUME NEW m \in Managers, Established(m), Active(mgr') \subseteq Active(mgr), m \in Active(mgr'),
         m \in Active(mcache'), mrc'.fresh => mrc.fresh /\ mrc'.name = mrc.name
  PROVE  Established(m)'
  BY DEF Established

\* Users take Managers away or make such that are not deployed.
LEMMA UserEstablished ==
  ASSUME DeployInv, NEW m \in Managers, Established(m), mgr'[m].here,
         NEW n \in Managers, CreateManager(n) \/ EditManager(n) \/ DeleteManager(n)
  PROVE  Established(m)'
<1> DEFINE new == mgr'[n]
<1>0. CacheTyped /\ mgr[m].here /\ mgr[n] \in ManagerType
  BY DEF DeployInv, CacheTyped, Established, Active
<1>1. mrc'.fresh => mrc.fresh /\ mrc'.name = mrc.name
  BY <1>0 DEF CreateManager, EditManager, DeleteManager, CacheTyped
<1>2. mgr' = [mgr EXCEPT ![n] = new] /\ mcache' = mcache
  BY <1>0 DEF CreateManager, EditManager, DeleteManager, CacheTyped
<1>3. new.phase = "Succeeded" => mgr[n].here /\ mgr[n].phase = "Succeeded"
  <2>1. NoManager.phase # "Succeeded" /\ \A t : [NoManager EXCEPT !.here = TRUE, !.type = t].phase # "Succeeded"
    BY DEF NoManager
  <2>2. CASE EditManager(n)
    <3>1. mgr[n].here /\ \E t : new = [mgr[n] EXCEPT !.type = t]
      BY <1>0, <2>2 DEF EditManager, CacheTyped
    <3> QED
      BY <1>0, <3>1 DEF ManagerType
  <2>3. CASE CreateManager(n)
    BY <1>0, <2>1, <2>3 DEF CreateManager, CacheTyped
  <2>4. CASE DeleteManager(n)
    BY <1>0, <2>1, <2>4 DEF DeleteManager, CacheTyped
  <2> QED
    BY <2>2, <2>3, <2>4
<1>4. n = m => new.phase = mgr[n].phase
  <2>1. NoManager.here = FALSE
    BY DEF NoManager
  <2>2. n = m => EditManager(n)
    BY <1>0, <2>1 DEF CreateManager, DeleteManager, CacheTyped
  <2>3. EditManager(n) => \E t : new = [mgr[n] EXCEPT !.type = t]
    BY <1>0 DEF EditManager, CacheTyped
  <2> QED
    BY <1>0, <2>2, <2>3 DEF ManagerType
<1> HIDE DEF new
<1>5. Active(mgr') \subseteq Active(mgr)
  BY <1>0, <1>2, <1>3 DEF Active, CacheTyped
<1>6. m \in Active(mgr')
  BY <1>0, <1>2, <1>4 DEF Active, CacheTyped, Established
<1>7. m \in Active(mcache')
  BY <1>2 DEF Established
<1> QED
  BY <1>1, <1>5, <1>6, <1>7, StaysEstablished

\* A reconcile of another Manager begins only with an old copy of it.
LEMMA BeginEstablished ==
  ASSUME DeployInv, NEW m \in Managers, Established(m), NEW n \in Managers, MBegin(n)
  PROVE  Established(m)'
<1>1. UNCHANGED <<mgr, mcache>>
  BY DEF MBegin
<1>2. CASE mrc' = mrc
  BY <1>1, <1>2 DEF Established
<1>3. CASE /\ MayDeploy(n)
           /\ mrc' = [name |-> n, type |-> mcache[n].type, fresh |-> mfresh[n],
                      todo |-> Objects(mcache[n].type)]
  <2>1. n \in Active(mcache)
    BY <1>3 DEF MayDeploy, Established
  <2>2. mrc'.name = n /\ mrc'.fresh = mfresh[n]
    BY <1>3
  <2>3. mfresh[n] => n \in Active(mgr)
    BY <2>1 DEF Active, DeployInv, CacheTyped
  <2> QED
    BY <1>1, <2>2, <2>3 DEF Established
<1> QED
  BY <1>2, <1>3 DEF MBegin

\* With the latest copy only m is reconciled, and its phase does not change.
LEMMA PhaseEstablished ==
  ASSUME DeployInv, NEW m \in Managers, Established(m), MPhase
  PROVE  Established(m)'
<1>1. mrc' = MIdle /\ mcache' = mcache /\ MIdle.fresh = FALSE
  BY DEF MPhase, MIdle
<1>2. Active(mgr') = Active(mgr)
  <2>1. CASE mrc.fresh
    <3>1. mgr' = [mgr EXCEPT ![m].phase = "Succeeded"] /\ m \in Active(mgr) /\ mgr \in [Managers -> ManagerType]
      BY <2>1 DEF MPhase, Established, DeployInv, CacheTyped
    <3>2. \A n \in Managers : mgr'[n].here = mgr[n].here /\ mgr'[n].phase = mgr[n].phase
      BY <3>1 DEF Active, ManagerType
    <3> QED
      BY <3>2 DEF Active
  <2>2. CASE ~mrc.fresh
    BY <2>2 DEF MPhase
  <2> QED
    BY <2>1, <2>2
<1> QED
  BY <1>1, <1>2 DEF Established

LEMMA EstablishedStep ==
  ASSUME DeployInv, [ManagerControllerNext]_mvars, NEW m \in Managers, Established(m), mgr'[m].here
  PROVE  Established(m)'
<1>0. CacheTyped /\ MIdle.fresh = FALSE
  BY DEF DeployInv, MIdle
<1>1. ASSUME NEW n \in Managers, CreateManager(n) \/ EditManager(n) \/ DeleteManager(n) PROVE Established(m)'
  BY <1>1, UserEstablished
<1>2. ASSUME NEW n \in Managers, MBegin(n) PROVE Established(m)'
  BY <1>2, BeginEstablished
<1>3. CASE MPhase
  BY <1>3, PhaseEstablished
<1>4. ASSUME NEW n \in Managers, MSync(n) PROVE Established(m)'
  BY <1>0, <1>4 DEF MSync, Established, Active, CacheTyped
<1>5. CASE MPatch \/ MDeleteOther \/ MFail
  <2>1. UNCHANGED <<mgr, mcache>> /\ (mrc' = MIdle \/ mrc' = [mrc EXCEPT !.todo = Tail(@)])
    BY <1>5 DEF MPatch, MDeleteOther, MFail, Done
  <2>2. mrc'.fresh => mrc.fresh /\ mrc'.name = mrc.name
    BY <1>0, <2>1 DEF CacheTyped
  <2> QED
    BY <2>1, <2>2 DEF Established
<1>6. CASE MRestart
  BY <1>0, <1>6 DEF MRestart, Established
<1>7. CASE UNCHANGED <<mgr, mcache, mrc>>
  BY <1>7 DEF Established
<1> QED
  BY <1>1, <1>2, <1>3, <1>4, <1>5, <1>6, <1>7 DEF ManagerControllerNext, MReconcile, DeleteObject, mvars

\* Once the controller knows the one active Manager no other becomes active
\* until it is deleted: ActiveStays, for any number of Managers, edits, failed
\* calls and restarts, and however old the copies of the others are.
THEOREM ActiveStaysHolds == ManagerControllerSpec => ActiveStays
<1>1. DeployInv /\ [ManagerControllerNext]_mvars
        => [\A m \in Managers : Established(m) /\ mgr'[m].here => Established(m)']_mvars
  BY EstablishedStep
<1>2. DeployInv /\ [ManagerControllerNext]_mvars => DeployInv'
  BY DeployStep
<1> QED
  BY <1>1, <1>2, DeployStart, PTL DEF ManagerControllerSpec, ActiveStays

-----------------------------------------------------------------------------
(* Announcements and files                                                 *)

\* The inductive invariant: only an announcement that exists is dated, copies
\* are the latest where they are said to be, and updateFile has not replied
\* while it runs.
CatalogInv ==
  /\ news = [text |-> news.text, pub |-> news.pub, edit |-> news.edit, here |-> news.here]
  /\ nlag \in {"none", "status", "spec"}
  /\ nlag = "none" => ncache = news
  /\ nrc = [run |-> nrc.run, copy |-> nrc.copy, fresh |-> nrc.fresh]
  /\ nrc.fresh => nrc.copy = news /\ news.here /\ nlag = "none"
  /\ news.edit # 0 => news.here
  /\ file = [alias |-> file.alias, files |-> file.files, here |-> file.here]
  /\ fop = [run |-> fop.run, files |-> fop.files, fresh |-> fop.fresh, reply |-> fop.reply]
  /\ ffresh \in BOOLEAN
  /\ ffresh => fseen = file
  /\ fop.run => fop.reply # "ok"

\* What announcements, files and requests are before anybody makes one.
LEMMA Nothings ==
  /\ NoNews = [text |-> NoNews.text, pub |-> 0, edit |-> 0, here |-> FALSE]
  /\ NoNews.pub = 0 /\ NoNews.edit = 0 /\ NoNews.here = FALSE
  /\ NIdle = [run |-> NIdle.run, copy |-> NIdle.copy, fresh |-> NIdle.fresh] /\ NIdle.fresh = FALSE
  /\ NoFile = [alias |-> NoFile.alias, files |-> {}, here |-> FALSE]
  /\ NoFile.files = {} /\ NoFile.here = FALSE
  /\ NoOp = [run |-> FALSE, files |-> {}, fresh |-> FALSE, reply |-> NoOp.reply]
  /\ NoOp.run = FALSE /\ NoOp.files = {} /\ NoOp.fresh = FALSE
  BY DEF NoNews, NIdle, NoFile, NoOp

LEMMA CatalogStart == CatalogInit => CatalogInv
  BY Nothings DEF CatalogInit, CatalogInv

LEMMA NewsStep ==
  ASSUME CatalogInv, NewsNext, UNCHANGED fileVars
  PROVE  CatalogInv' /\ (news.here /\ news'.here /\ news.pub # 0 => news'.pub = news.pub)
<1>0. UNCHANGED <<file, fseen, ffresh, fop>>
  BY DEF fileVars
<1> SUFFICES /\ news' = [text |-> news'.text, pub |-> news'.pub, edit |-> news'.edit, here |-> news'.here]
             /\ nlag' \in {"none", "status", "spec"}
             /\ nlag' = "none" => ncache' = news'
             /\ nrc' = [run |-> nrc'.run, copy |-> nrc'.copy, fresh |-> nrc'.fresh]
             /\ nrc'.fresh => nrc'.copy = news' /\ news'.here /\ nlag' = "none"
             /\ news'.edit # 0 => news'.here
             /\ news.here /\ news'.here /\ news.pub # 0 => news'.pub = news.pub
  BY <1>0 DEF CatalogInv
<1>1. CASE createAnnouncement \/ deleteAnnouncement
  <2>1. PICK n : StoreSpec(n) /\ (n = NoNews \/ \E text : n = [news EXCEPT !.text = text, !.here = TRUE])
    BY <1>1, Zenon DEF createAnnouncement, deleteAnnouncement
  <2>2. news' = n /\ nlag' = "spec" /\ nrc' = [nrc EXCEPT !.fresh = FALSE]
    BY <2>1 DEF StoreSpec
  <2>3. nrc' = [run |-> nrc.run, copy |-> nrc.copy, fresh |-> FALSE]
    BY <2>2 DEF CatalogInv
  <2>4. CASE n = NoNews
    BY <2>2, <2>3, <2>4, Nothings
  <2>5. ASSUME NEW text, n = [news EXCEPT !.text = text, !.here = TRUE]
        PROVE  n = [text |-> text, pub |-> news.pub, edit |-> news.edit, here |-> TRUE]
    BY <2>5 DEF CatalogInv
  <2> QED
    BY <2>1, <2>2, <2>3, <2>4, <2>5
<1>2. CASE SeeNews \/ SyncNews \/ Tick \/ NFail \/ NRestart
  <2>1. news' = news /\ (nrc' = nrc \/ nrc' = NIdle)
    BY <1>2 DEF SeeNews, SyncNews, Tick, NFail, NRestart
  <2>2. UNCHANGED <<ncache, nlag>> \/ (ncache' = news /\ nlag' = "none")
    BY <1>2 DEF SeeNews, SyncNews, Tick, NFail, NRestart
  <2> QED
    BY <2>1, <2>2, Nothings DEF CatalogInv
<1>3. CASE GetNews
  <2>1. UNCHANGED <<news, ncache, nlag>>
    BY <1>3 DEF GetNews
  <2>2. nrc' = NIdle \/ (ncache.here /\ nrc' = [run |-> TRUE, copy |-> ncache, fresh |-> nlag = "none"])
    BY <1>3 DEF GetNews
  <2>3. CASE nrc' = NIdle
    BY <2>1, <2>3, Nothings DEF CatalogInv
  <2>4. CASE ncache.here /\ nrc' = [run |-> TRUE, copy |-> ncache, fresh |-> nlag = "none"]
    <3>1. nrc'.run = TRUE /\ nrc'.copy = ncache /\ nrc'.fresh = (nlag = "none")
      BY <2>4
    <3>2. nrc' = [run |-> nrc'.run, copy |-> nrc'.copy, fresh |-> nrc'.fresh]
      BY <2>4, <3>1, Zenon
    <3> QED
      BY <2>1, <2>4, <3>1, <3>2 DEF CatalogInv
  <2> QED
    BY <2>2, <2>3, <2>4
<1>4. CASE DateNews
  <2>1. nrc' = NIdle /\ ncache' = ncache
    BY <1>4 DEF DateNews
  <2>2. CASE nrc.fresh
    <3>1. news' = Dated(news) /\ news.here /\ nlag' = (IF news' = news THEN nlag ELSE "status")
      BY <1>4, <2>2 DEF DateNews, CatalogInv
    <3>2. news' = [text |-> news.text, pub |-> (IF news.pub = 0 THEN now ELSE news.pub), edit |-> now, here |-> news.here]
      BY <3>1 DEF Dated, CatalogInv
    <3> QED
      BY <2>1, <3>1, <3>2, Nothings DEF CatalogInv
  <2>3. CASE ~nrc.fresh
    BY <1>4, <2>1, <2>3, Nothings DEF DateNews, CatalogInv
  <2> QED
    BY <2>2, <2>3
<1> QED
  BY <1>1, <1>2, <1>3, <1>4 DEF NewsNext, NReconcile

LEMMA FileStep ==
  ASSUME CatalogInv, FileNext, UNCHANGED newsVars
  PROVE  CatalogInv' /\ (fop.run /\ fop'.reply = "ok" /\ fop.files # {} => file'.files = fop.files)
<1>0. UNCHANGED <<news, ncache, nlag, nrc>>
  BY DEF newsVars
<1> SUFFICES /\ file' = [alias |-> file'.alias, files |-> file'.files, here |-> file'.here]
             /\ fop' = [run |-> fop'.run, files |-> fop'.files, fresh |-> fop'.fresh, reply |-> fop'.reply]
             /\ ffresh' \in BOOLEAN
             /\ ffresh' => fseen' = file'
             /\ fop'.run => fop'.reply # "ok"
             /\ fop.run /\ fop'.reply = "ok" /\ fop.files # {} => file'.files = fop.files
  BY <1>0 DEF CatalogInv
<1>1. CASE updateFile
  <2>1. PICK files \in SUBSET Known, given \in Aliases :
          LET alias == IF given = "" THEN fseen.alias ELSE given
              patch == ~fseen.here \/ alias # fseen.alias
          IN /\ file' = IF patch THEN [file EXCEPT !.alias = alias, !.here = TRUE] ELSE file
             /\ fop' = [run |-> TRUE, files |-> files, fresh |-> patch \/ ffresh, reply |-> ""]
    BY <1>1, Zenon DEF updateFile
  <2> DEFINE alias == IF given = "" THEN fseen.alias ELSE given
             patch == ~fseen.here \/ alias # fseen.alias
             reply == NoOp.reply
  <2>a. file' = IF patch THEN [file EXCEPT !.alias = alias, !.here = TRUE] ELSE file
    BY <2>1, Zenon
  <2>b. fop' = [run |-> TRUE, files |-> files, fresh |-> patch \/ ffresh, reply |-> reply]
    <3>1. reply = ""
      BY DEF NoOp
    <3> QED
      BY <2>1, <3>1, Zenon
  <2>2. ~fop.run /\ ffresh' = (ffresh /\ file' = file) /\ fseen' = fseen
    BY <1>1, Zenon DEF updateFile
  <2>3. reply # "ok"
    BY Zenon DEF NoOp
  <2> HIDE DEF alias, patch, reply
  <2> QED
    BY <2>a, <2>b, <2>2, <2>3 DEF CatalogInv
<1>2. CASE StoreFiles
  BY <1>2 DEF StoreFiles, CatalogInv
<1>3. CASE deleteFile
  BY <1>3, Nothings DEF deleteFile, CatalogInv
<1>4. CASE SeeFile
  BY <1>4 DEF SeeFile, CatalogInv
<1> QED
  BY <1>1, <1>2, <1>3, <1>4 DEF FileNext

LEMMA CatalogStep ==
  ASSUME CatalogInv, [CatalogNext]_<<newsVars, fileVars>>
  PROVE  CatalogInv'
<1>1. CASE UNCHANGED <<newsVars, fileVars>>
  BY <1>1 DEF newsVars, fileVars, CatalogInv
<1> QED
  BY <1>1, NewsStep, FileStep DEF CatalogNext

\* The time of publication is set once: PublishedOnce, for any fields and texts,
\* however long the announcement lives, and however often the reconciler is
\* behind or restarts.  It rests on the API server refusing old copies.
THEOREM PublishedOnceHolds == CatalogSpec => PublishedOnce
<1>1. CatalogInv /\ [CatalogNext]_<<newsVars, fileVars>>
        => [news.here /\ news'.here /\ news.pub # 0 => news'.pub = news.pub]_newsVars
  BY NewsStep DEF CatalogNext, newsVars
<1>2. CatalogInv /\ [CatalogNext]_<<newsVars, fileVars>> => CatalogInv'
  BY CatalogStep
<1> QED
  BY <1>1, <1>2, CatalogStart, PTL DEF CatalogSpec, PublishedOnce

\* updateFile says ok only if the API server has the files then: RepliesTrue,
\* for any names and aliases.
THEOREM RepliesTrueHolds == CatalogSpec => RepliesTrue
<1>1. CatalogInv /\ [CatalogNext]_<<newsVars, fileVars>>
        => [fop.run /\ fop'.reply = "ok" /\ fop.files # {} => file'.files = fop.files]_fileVars
  BY FileStep DEF CatalogNext, fileVars
<1>2. CatalogInv /\ [CatalogNext]_<<newsVars, fileVars>> => CatalogInv'
  BY CatalogStep
<1> QED
  BY <1>1, <1>2, CatalogStart, PTL DEF CatalogSpec, RepliesTrue

-----------------------------------------------------------------------------
(* The controllers side by side                                            *)

\* Each controller of the composition is a behaviour of its own specification.
LEMMA SideBySide == Spec => JobControllerSpec /\ ManagerControllerSpec /\ CatalogSpec
<1>1. Init => JobControllerInit /\ ManagerControllerInit /\ CatalogInit
  BY DEF Init
<1>2. [Next]_vars => [JobControllerNext]_jvars
  BY DEF Next, Jobs, Mgrs, News, File, vars
<1>3. [Next]_vars => [ManagerControllerNext]_mvars
  BY DEF Next, Jobs, Mgrs, News, File, vars
<1>4. [Next]_vars => [CatalogNext]_<<newsVars, fileVars>>
  BY DEF Next, Jobs, Mgrs, News, File, vars, CatalogNext
<1> QED
  BY <1>1, <1>2, <1>3, <1>4, PTL DEF Spec, JobControllerSpec, ManagerControllerSpec, CatalogSpec

Statuses == {"", "Created", "Disabled"}

\* The Job has one of the specs it may be given, and a status.
JobTyped == CopiesTrue /\ jobj.spec \in JobSpecs /\ jobj.status \in Statuses

LEMMA JobTypedStart == JobControllerInit => JobTyped
<1> SUFFICES ASSUME JobControllerInit PROVE JobTyped
  OBVIOUS
<1>1. PICK spec \in JobSpecs : jobj = [spec |-> spec, status |-> ""]
  BY DEF JobControllerInit
<1>2. jobj.spec = spec /\ jobj.status = ""
  BY <1>1
<1>3. "" \in Statuses
  BY Zenon DEF Statuses
<1> QED
  BY <1>2, <1>3, CopiesStart, Zenon DEF JobTyped

LEMMA JobTypedStep ==
  ASSUME JobTyped, [JobControllerNext]_jvars
  PROVE  JobTyped'
<1>0. CopiesTrue /\ CopiesTrue' /\ "Created" \in Statuses /\ "Disabled" \in Statuses
  BY CopiesStep, Zenon DEF JobTyped, Statuses
<1> SUFFICES jobj'.spec \in JobSpecs /\ jobj'.status \in Statuses
  BY <1>0 DEF JobTyped
<1>1. CASE EditJob
  <2>1. PICK spec \in JobSpecs : jobj' = [jobj EXCEPT !.spec = spec]
    BY <1>1 DEF EditJob, Changed
  <2> QED
    BY <1>0, <2>1 DEF JobTyped, CopiesTrue
<1>2. CASE SetStatus
  <2>1. PICK status \in {"Created", "Disabled"} : jobj' = [jobj EXCEPT !.status = status]
    BY <1>2, Zenon DEF SetStatus, Changed
  <2> QED
    BY <1>0, <2>1 DEF JobTyped, CopiesTrue
<1>3. CASE JStatus
  <2>1. CASE jrc.fresh
    <3>1. jobj' = [jobj EXCEPT !.status = NewStatus] /\ jrc.copy = jobj
      BY <1>0, <1>3, <2>1 DEF JStatus, CopiesTrue
    <3>2. NewStatus \in {"Created", jobj.status}
      BY <3>1, Zenon DEF NewStatus
    <3> QED
      BY <1>0, <3>1, <3>2 DEF JobTyped, CopiesTrue
  <2>2. CASE ~jrc.fresh
    BY <1>3, <2>2 DEF JStatus, JobTyped
  <2> QED
    BY <2>1, <2>2
<1>4. CASE DeleteOwned \/ ManagerActive \/ JSync \/ JBegin \/ JPatch \/ JDelete \/ JFail \/ JRestart \/ UNCHANGED jvars
  <2>1. jobj' = jobj
    BY <1>4 DEF DeleteOwned, ManagerActive, JSync, JBegin, JPatch, JDelete, JFail, JRestart, jvars
  <2> QED
    BY <2>1 DEF JobTyped
<1> QED
  BY <1>1, <1>2, <1>3, <1>4 DEF JobControllerNext, JReconcile

\* The controllers' type invariant with what ties caches to the API server:
\* ControllersTypeOK, for all the constants.
THEOREM ControllersTypeCorrect == Spec => []ControllersTypeOK
<1>1. JobTyped /\ DeployInv /\ CatalogInv => ControllersTypeOK
  BY Zenon DEF JobTyped, CopiesTrue, Statuses, DeployInv, CacheTyped, CatalogInv, ControllersTypeOK
<1>2. JobTyped /\ [JobControllerNext]_jvars => JobTyped'
  BY JobTypedStep
<1>3. DeployInv /\ [ManagerControllerNext]_mvars => DeployInv'
  BY DeployStep
<1>4. CatalogInv /\ [CatalogNext]_<<newsVars, fileVars>> => CatalogInv'
  BY CatalogStep
<1> QED
  BY <1>1, <1>2, <1>3, <1>4, JobTypedStart, DeployStart, CatalogStart, SideBySide, PTL
  DEF JobControllerSpec, ManagerControllerSpec, CatalogSpec

\* What is proved of each controller holds of the composition: the safety
\* properties of the Job, of the Managers, of the announcement and of the file
\* entry.
THEOREM ControllersSafe ==
  Spec => /\ []ConfigMounted /\ StatusUntouched
          /\ []DeployedIsComplete /\ ActiveStays
          /\ PublishedOnce /\ RepliesTrue
  BY SideBySide, ConfigMountedHolds, StatusUntouchedHolds, DeployedIsCompleteHolds, ActiveStaysHolds,
     PublishedOnceHolds, RepliesTrueHolds, PTL
=============================================================================
