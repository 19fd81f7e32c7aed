------------------------------- MODULE Catalog -------------------------------
(***************************************************************************)
(* Announcements and files: the handlers of the manager that edit them     *)
(* (manager/server.go) and the reconciler that dates announcements         *)
(* (internal/controller/announcement_controller.go).  The manager and the  *)
(* controller each read a cache that lags behind the API server, which     *)
(* refuses to update a copy that is not the latest version.                *)
(***************************************************************************)
EXTENDS Naturals

CONSTANTS
  Fields,      \* the fields of an announcement
  Texts,       \* what a field may say, "" for nothing
  Known,       \* file names that the recognizer knows
  Aliases,     \* aliases that clients give a file entry, "" for none
  MaxTime,     \* bound: the time
  MaxChanges   \* bound: edits and deletions of the announcement, failed calls and restarts

ASSUME CatalogAssumption ==
  /\ "" \in Texts /\ "" \in Aliases
  /\ MaxTime \in Nat \ {0} /\ MaxChanges \in Nat

VARIABLES
  news,      \* the announcement: its text and times
  nseen,     \* the manager's copy
  ncache,    \* the controller's copy
  nlag,      \* what that copy lacks: nothing ("none"), the "status" or the "spec"
  nqueued,   \* the announcement is in the controller's work queue
  nrc,       \* the reconcile in progress: its copy, and whether that is the latest version
  changed,   \* when the text was changed last
  now,       \* the time in seconds
  nchanges,  \* edits, deletions, failed calls and restarts so far
  file,      \* the file entry
  fseen,     \* the manager's copy
  ffresh,    \* it is the latest version
  fop        \* updateFile between its patch and its status update, and its reply

newsVars == <<news, nseen, ncache, nlag, nqueued, nrc, changed, now, nchanges>>
fileVars == <<file, fseen, ffresh, fop>>

NoNews == [text |-> [f \in Fields |-> ""], pub |-> 0, edit |-> 0, here |-> FALSE]
NIdle == [run |-> FALSE, copy |-> NoNews, fresh |-> FALSE]
NoFile == [alias |-> "", files |-> {}, here |-> FALSE]
NoOp == [run |-> FALSE, files |-> {}, fresh |-> FALSE, reply |-> ""]

CatalogInit ==
  /\ news = NoNews /\ nseen = NoNews /\ ncache = NoNews /\ nlag = "none"
  /\ nqueued = FALSE /\ nrc = NIdle
  /\ changed = 0 /\ now = 1 /\ nchanges = 0
  /\ file = NoFile /\ fseen = NoFile /\ ffresh = TRUE /\ fop = NoOp

-----------------------------------------------------------------------------
(* Announcements                                                           *)

NChange == nchanges < MaxChanges /\ nchanges' = nchanges + 1

\* a new version of which the spec is n: no copy is up to date any more
StoreSpec(n) ==
  /\ news' = n
  /\ nlag' = "spec"
  /\ nrc' = [nrc EXCEPT !.fresh = FALSE]

\* createAnnouncement: the fields given replace those of the cached one
createAnnouncement ==
  /\ NChange
  /\ \E given \in SUBSET Fields, says \in [Fields -> Texts] :
       LET text == [f \in Fields |-> IF f \in given THEN says[f] ELSE nseen.text[f]]
       IN /\ text # news.text \/ ~news.here
          /\ StoreSpec([news EXCEPT !.text = text, !.here = TRUE])
  /\ changed' = now
  /\ UNCHANGED <<nseen, ncache, nqueued, now>>

deleteAnnouncement ==
  /\ NChange
  /\ nseen.here
  /\ StoreSpec(NoNews)
  /\ UNCHANGED <<nseen, ncache, nqueued, changed, now>>

\* the manager's cache catches up
SeeNews ==
  /\ nseen # news
  /\ nseen' = news
  /\ UNCHANGED <<news, ncache, nlag, nqueued, nrc, changed, now, nchanges>>

SyncNewNews ==
  /\ nlag # "none"
  /\ ncache' = news /\ nlag' = "none"
  /\ nqueued' = (nqueued \/ (nlag = "spec" /\ news.pub = 0))
  /\ UNCHANGED <<news, nseen, nrc, changed, now, nchanges>>

\* the controller's cache catches up; the filter passes what changes the generation
SyncNews ==
  /\ nlag # "none"
  /\ ncache' = news /\ nlag' = "none"
  /\ nqueued' = (nqueued \/ nlag = "spec")
  /\ UNCHANGED <<news, nseen, nrc, changed, now, nchanges>>

Tick ==
  /\ now < MaxTime
  /\ now' = now + 1
  /\ UNCHANGED <<news, nseen, ncache, nlag, nqueued, nrc, changed, nchanges>>

\* AnnouncementReconciler.Reconcile reads its copy; one that is gone is dropped
GetNews ==
  /\ nqueued /\ ~nrc.run
  /\ nqueued' = FALSE
  /\ nrc' = IF ncache.here THEN [run |-> TRUE, copy |-> ncache, fresh |-> nlag = "none"] ELSE NIdle
  /\ UNCHANGED <<news, nseen, ncache, nlag, changed, now, nchanges>>

\* what Reconcile makes of its copy
Dated(copy) == [copy EXCEPT !.pub = IF @ = 0 THEN now ELSE @, !.edit = now]

DateBlindly ==
  /\ nrc.run
  /\ nrc' = NIdle
  /\ news' = IF news.here THEN [Dated(nrc.copy) EXCEPT !.text = news.text] ELSE news
  /\ nlag' = IF nlag = "spec" \/ news' = news THEN nlag ELSE "status"
  /\ UNCHANGED <<nseen, ncache, nqueued, changed, now, nchanges>>

\* It updates the status; with a copy that is out of date, or of an announcement
\* that is gone, the update is refused and the announcement queued again.
DateNews ==
  /\ nrc.run
  /\ nrc' = NIdle
  /\ IF nrc.fresh
     THEN /\ news' = Dated(nrc.copy)
          /\ nlag' = IF news' = news THEN nlag ELSE "status"
          /\ UNCHANGED nqueued
     ELSE nqueued' = TRUE /\ UNCHANGED <<news, nlag>>
  /\ UNCHANGED <<nseen, ncache, changed, now, nchanges>>

\* the update fails for another reason
NFail ==
  /\ nrc.run
  /\ NChange
  /\ nrc' = NIdle /\ nqueued' = TRUE
  /\ UNCHANGED <<news, nseen, ncache, nlag, changed, now>>

\* the controller restarts: it lists everything anew, which counts as created
NRestart ==
  /\ NChange
  /\ ncache' = news /\ nlag' = "none" /\ nqueued' = news.here /\ nrc' = NIdle
  /\ UNCHANGED <<news, nseen, changed, now>>

NReconcile == GetNews \/ DateNews

NewsNext ==
  \/ createAnnouncement \/ deleteAnnouncement \/ SeeNews \/ SyncNews \/ Tick
  \/ NReconcile \/ NFail \/ NRestart

-----------------------------------------------------------------------------
(* Files                                                                   *)

\* updateFile up to its patch, with rwmu held: the alias is kept when none is
\* given, and the patch is left out when nothing differs.  After a patch the
\* entry is read again, otherwise the copy read first is updated.
updateFile ==
  /\ ~fop.run
  /\ \E files \in SUBSET Known, given \in Aliases :
       LET alias == IF given = "" THEN fseen.alias ELSE given
           patch == ~fseen.here \/ alias # fseen.alias
       IN /\ file' = IF patch THEN [file EXCEPT !.alias = alias, !.here = TRUE] ELSE file
          /\ ffresh' = (ffresh /\ file' = file)
          /\ fop' = [run |-> TRUE, files |-> files, fresh |-> patch \/ ffresh, reply |-> ""]
  /\ UNCHANGED fseen

StoreFilesAlways ==
  /\ fop.run
  /\ file' = IF fop.files # {} /\ fop.fresh /\ ffresh THEN [file EXCEPT !.files = fop.files] ELSE file
  /\ fop' = [fop EXCEPT !.run = FALSE, !.reply = "ok"]
  /\ ffresh' = (ffresh /\ file' = file)
  /\ UNCHANGED fseen

\* The rest of updateFile: the list is replaced if a file was recognized.  The
\* API server refuses a copy that is not the last version, and the cache may
\* still have the version from before the patch.
StoreFiles ==
  /\ fop.run
  /\ IF fop.files = {} \/ (fop.fresh /\ ffresh)
     THEN /\ file' = IF fop.files = {} THEN file ELSE [file EXCEPT !.files = fop.files]
          /\ fop' = [fop EXCEPT !.run = FALSE, !.reply = "ok"]
     ELSE /\ file' = file
          /\ fop' = [fop EXCEPT !.run = FALSE, !.reply = "error"]
  /\ ffresh' = (ffresh /\ file' = file)
  /\ UNCHANGED fseen

deleteFile ==
  /\ ~fop.run
  /\ fseen.here
  /\ file' = NoFile
  /\ ffresh' = (ffresh /\ file' = file)
  /\ fop' = NoOp
  /\ UNCHANGED fseen

\* the manager's cache catches up
SeeFile ==
  /\ ~ffresh
  /\ fseen' = file
  /\ ffresh' = TRUE
  /\ UNCHANGED <<file, fop>>

FileNext == updateFile \/ StoreFiles \/ deleteFile \/ SeeFile

CatalogNext ==
  \/ NewsNext /\ UNCHANGED fileVars
  \/ FileNext /\ UNCHANGED newsVars

CatalogSpec == CatalogInit /\ [][CatalogNext]_<<newsVars, fileVars>>

-----------------------------------------------------------------------------
(* Properties                                                              *)

\* The time of publication is set once: neither a reconcile whose copy is from
\* before the publication, nor one after a restart of the controller, which
\* dates every announcement again, changes it.
PublishedOnce ==
  [][news.here /\ news'.here /\ news.pub # 0 => news'.pub = news.pub]_newsVars

\* When the text of an announcement changes its time of modification follows.
EditsDated == (news.here /\ news.edit < changed) ~> (~news.here \/ news.edit >= changed)

\* A client that is told that its files were stored finds exactly those in the
\* API server, although the entry was read from a cache after its patch.
RepliesTrue ==
  [][fop.run /\ fop'.reply = "ok" /\ fop.files # {} => file'.files = fop.files]_fileVars
=============================================================================
