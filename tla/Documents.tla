----------------------------- MODULE Documents -----------------------------
(***************************************************************************)
(* The files and the knowledge base of one user, kept in four stores       *)
(* without a common transaction: rows in PostgreSQL, objects in S3 or on   *)
(* disk, uploaded files on the disk of the API server, and the results of  *)
(* searches in Redis.                                                      *)
(*                                                                         *)
(*   app/rag/service.py            ingest_file, search, delete_document    *)
(*   app/services/file_service.py  create_from_path, delete                *)
(*   app/api/routers/rag.py, files.py, app/storage/service.py              *)
(*   app/cache/service.py          get_or_set_json, delete_pattern         *)
(*                                                                         *)
(* Every file is uploaded once; its number names the upload, its row, its  *)
(* object, its local copy and the document that is made of it.  Each       *)
(* commit and each call of a store is a step.  A flush that fails leaves   *)
(* the session unusable until it is rolled back, and all its objects       *)
(* expired: the next use of either raises.                                 *)
(***************************************************************************)
EXTENDS Integers, FiniteSets

CONSTANTS
    MaxFiles,   \* uploads
    Contents,   \* sha256 digests of uploads to the knowledge base
    Searchers,  \* searches that may run at the same time, all of one query
    MaxFaults   \* failures of stores and deaths of processes

ASSUME DocumentsAssumption == MaxFiles \in Nat /\ MaxFaults \in Nat

Files == 1..MaxFiles

VARIABLES
    \* PostgreSQL.
    row,        \* files with a stored_files row
    doc,        \* KnowledgeDocument.status of the document of a file
    \* Object storage; the upload directory.
    object, local,
    \* Redis.
    cached,     \* documents in the result of the query
    \* Handlers.
    up,         \* where the upload of a file is
    content,    \* its digest, or "plain" for POST /files
    found,      \* the document with the same content that it has read
    rm, del,    \* DELETE /files/{id}, DELETE /rag/documents/{id}
    at, got,    \* a search; the rows it has read
    faults,
    \* History.
    broken,     \* uploads whose session a failed flush made unusable
    fresh,      \* searches that have read since the cache was last cleared
    lost        \* documents for which clearing the cache failed

database == <<row, doc>>
disks == <<object, local>>
upload == <<up, content, found, broken>>
search == <<at, got>>
clearing == <<cached, fresh, lost>>
vars == <<database, disks, upload, rm, del, search, clearing, faults>>

NoResult == [hit |-> FALSE, docs |-> {}, fresh |-> FALSE]
Live == {"processing", "ready", "failed"}
UpStates == {"none", "put", "row", "unput", "find", "replace", "insert", "embed",
             "mark", "clear", "answer", "dupobject", "duprow", "cleanobject",
             "cleanrow", "ok", "error", "astray", "crashed"}
Over == {"none", "ok", "error", "astray", "crashed"}

TypeOK ==
    /\ row \in [Files -> BOOLEAN] /\ doc \in [Files -> Live \cup {"absent", "deleted"}]
    /\ object \in [Files -> BOOLEAN] /\ local \in [Files -> BOOLEAN]
    /\ cached \in [hit : BOOLEAN, docs : SUBSET Files, fresh : BOOLEAN]
    /\ up \in [Files -> UpStates] /\ content \in [Files -> Contents \cup {"plain"}]
    /\ found \in [Files -> Files \cup {0}] /\ broken \in [Files -> BOOLEAN]
    /\ rm \in [Files -> {"idle", "object", "row"}]
    /\ del \in [Files -> {"idle", "commit", "clear"}]
    /\ at \in [Searchers -> {"idle", "query", "store"}]
    /\ got \in [Searchers -> SUBSET Files] /\ fresh \in [Searchers -> BOOLEAN]
    /\ lost \subseteq Files /\ faults \in 0..MaxFaults

Init ==
    /\ row = [i \in Files |-> FALSE] /\ doc = [i \in Files |-> "absent"]
    /\ object = [i \in Files |-> FALSE] /\ local = [i \in Files |-> FALSE]
    /\ cached = NoResult
    /\ up = [i \in Files |-> "none"] /\ content = [i \in Files |-> "plain"]
    /\ found = [i \in Files |-> 0] /\ broken = [i \in Files |-> FALSE]
    /\ rm = [i \in Files |-> "idle"] /\ del = [i \in Files |-> "idle"]
    /\ at = [s \in Searchers |-> "idle"] /\ got = [s \in Searchers |-> {}]
    /\ fresh = [s \in Searchers |-> FALSE] /\ lost = {} /\ faults = 0

-----------------------------------------------------------------------------
(* Helpers.                                                                *)

Fault == faults < MaxFaults /\ faults' = faults + 1

Goto(i, p) == up' = [up EXCEPT ![i] = p] /\ UNCHANGED <<content, found, broken>>

Unlink(i) == local' = [local EXCEPT ![i] = FALSE]

(* The upload ends with an error; the handler removes the local file.      *)
Refuse(i) == Goto(i, "error") /\ Unlink(i)

(* A flush has failed: the clean-up of the handler raises before it has    *)
(* deleted anything, and rolls back.                                       *)
Break(i) ==
    /\ up' = [up EXCEPT ![i] = "error"] /\ broken' = [broken EXCEPT ![i] = TRUE]
    /\ Unlink(i)
    /\ UNCHANGED <<content, found>>

Ready == {i \in Files : doc[i] = "ready"}

(* delete_pattern("rag:query:*")                                           *)
ClearsCache ==
    /\ cached' = NoResult /\ lost' = {}
    /\ fresh' = [s \in Searchers |-> FALSE]

(* It swallows a RedisError.                                               *)
ClearFails(i) ==
    /\ Fault
    /\ lost' = lost \cup {i}
    /\ UNCHANGED <<cached, fresh>>

-----------------------------------------------------------------------------
(* upload_document and upload_file                                         *)

(* The body has been written to the upload directory.                      *)
Begin(i, c) ==
    /\ up[i] = "none" /\ \A j \in 1..(i - 1) : up[j] # "none"
    /\ up' = [up EXCEPT ![i] = "put"] /\ content' = [content EXCEPT ![i] = c]
    /\ local' = [local EXCEPT ![i] = TRUE]
    /\ UNCHANGED <<database, object, found, broken, rm, del, search, clearing, faults>>

PutObject(i) ==
    /\ up[i] = "put"
    /\ object' = [object EXCEPT ![i] = TRUE]
    /\ Goto(i, "row")
    /\ UNCHANGED <<database, local, rm, del, search, clearing, faults>>

(* Too large, or the storage fails, at worst after it has the object.      *)
PutFails(i) ==
    /\ up[i] = "put" /\ Unlink(i)
    /\ \/ Goto(i, "error") /\ UNCHANGED <<object, faults>>
       \/ Fault /\ Goto(i, "astray") /\ object' = [object EXCEPT ![i] = TRUE]
    /\ UNCHANGED <<database, rm, del, search, clearing>>

(* create_from_path commits the row; POST /files ends here.                *)
CommitRow(i) ==
    /\ up[i] = "row"
    /\ row' = [row EXCEPT ![i] = TRUE]
    /\ IF content[i] = "plain" THEN Goto(i, "ok") /\ Unlink(i)
                               ELSE Goto(i, "find") /\ UNCHANGED local
    /\ UNCHANGED <<doc, object, rm, del, search, clearing, faults>>

RowFails(i) ==
    /\ up[i] = "row" /\ Fault
    /\ Goto(i, "unput")
    /\ UNCHANGED <<database, disks, rm, del, search, clearing>>

(* Mutant: the uploaded object is not compensated.                         *)
MutUnput(i) ==
    /\ up[i] = "unput"
    /\ Refuse(i)
    /\ UNCHANGED <<database, object, rm, del, search, clearing, faults>>

(* The compensation of create_from_path, which may itself fail.            *)
Unput(i) ==
    /\ up[i] = "unput"
    /\ Refuse(i)
    /\ \/ object' = [object EXCEPT ![i] = FALSE] /\ UNCHANGED faults
       \/ Fault /\ UNCHANGED object
    /\ UNCHANGED <<database, rm, del, search, clearing>>

(* ingest_file looks for a document of the same content.                   *)
Same(i) == {e \in Files : content[e] = content[i] /\ doc[e] \in Live}

FindNone(i) ==
    /\ up[i] = "find" /\ Same(i) = {}
    /\ Goto(i, "insert")
    /\ UNCHANGED <<database, disks, rm, del, search, clearing, faults>>

FindFailed(i, e) ==
    /\ up[i] = "find" /\ e \in Same(i) /\ doc[e] = "failed"
    /\ up' = [up EXCEPT ![i] = "replace"] /\ found' = [found EXCEPT ![i] = e]
    /\ UNCHANGED <<database, disks, content, broken, rm, del, search, clearing, faults>>

(* A document that is ready, or still being processed, is the answer.      *)
FindSame(i, e) ==
    /\ up[i] = "find" /\ e \in Same(i) /\ doc[e] # "failed"
    /\ up' = [up EXCEPT ![i] = "dupobject"] /\ found' = [found EXCEPT ![i] = e]
    /\ Unlink(i)
    /\ UNCHANGED <<database, object, content, broken, rm, del, search, clearing, faults>>

Replace(i) ==
    /\ up[i] = "replace"
    /\ doc' = [doc EXCEPT ![found[i]] = "deleted"]
    /\ Goto(i, "insert")
    /\ UNCHANGED <<row, disks, rm, del, search, clearing, faults>>

Insert(i) ==
    /\ up[i] = "insert" /\ Same(i) = {} /\ row[i]
    /\ doc' = [doc EXCEPT ![i] = "processing"]
    /\ Goto(i, "embed")
    /\ UNCHANGED <<row, disks, rm, del, search, clearing, faults>>

(* uq_knowledge_user_sha256, or the stored file has been deleted.          *)
InsertConflict(i) ==
    /\ up[i] = "insert" /\ (Same(i) # {} \/ ~row[i])
    /\ Break(i)
    /\ UNCHANGED <<database, object, rm, del, search, clearing, faults>>

(* Chunks and status in one transaction.                                   *)
CommitReady(i) ==
    /\ up[i] = "embed" /\ doc[i] = "processing"
    /\ doc' = [doc EXCEPT ![i] = "ready"]
    /\ Goto(i, "clear")
    /\ UNCHANGED <<row, disks, rm, del, search, clearing, faults>>

(* The document cannot be read, split or embedded.                         *)
LoadFails(i) ==
    /\ up[i] = "embed"
    /\ Goto(i, "mark")
    /\ UNCHANGED <<database, disks, rm, del, search, clearing, faults>>

(* Mutant: the failure is raised without being recorded.                   *)
MutMarkFailed(i) ==
    /\ up[i] = "mark" /\ doc[i] = "processing"
    /\ Goto(i, "cleanobject")
    /\ UNCHANGED <<database, disks, rm, del, search, clearing, faults>>

MarkFailed(i) ==
    /\ up[i] = "mark" /\ doc[i] = "processing"
    /\ doc' = [doc EXCEPT ![i] = "failed"]
    /\ Goto(i, "cleanobject")
    /\ UNCHANGED <<row, disks, rm, del, search, clearing, faults>>

(* The document has been deleted while it was processed: StaleDataError.   *)
UpdateStale(i) ==
    /\ up[i] \in {"embed", "mark"} /\ doc[i] = "deleted"
    /\ Break(i)
    /\ UNCHANGED <<database, object, rm, del, search, clearing, faults>>

UploadClears(i) ==
    /\ up[i] = "clear"
    /\ Goto(i, "answer")
    /\ \/ ClearsCache /\ UNCHANGED faults
       \/ ClearFails(i)
    /\ UNCHANGED <<database, disks, rm, del, search>>

(* Both rows are read again after the commit.                              *)
Answer(i) ==
    /\ up[i] = "answer"
    /\ CASE doc[i] = "deleted" -> Goto(i, "cleanobject") /\ UNCHANGED local
         [] doc[i] # "deleted" /\ ~row[i] -> Refuse(i)
         [] OTHER -> Goto(i, "ok") /\ UNCHANGED local
    /\ UNCHANGED <<database, object, rm, del, search, clearing, faults>>

(* FileService.delete of the file that was not needed; on a failure the    *)
(* handler tries once more.                                                *)
DeleteDuplicate(i) ==
    /\ up[i] = "dupobject"
    /\ \/ /\ object' = [object EXCEPT ![i] = FALSE]
          /\ Goto(i, "duprow")
          /\ UNCHANGED faults
       \/ Fault /\ Goto(i, "cleanobject") /\ UNCHANGED object
    /\ UNCHANGED <<database, local, rm, del, search, clearing>>

(* The answer is made of the document that was found, if it is still there. *)
CommitDuplicate(i) ==
    /\ up[i] = "duprow"
    /\ row' = [row EXCEPT ![i] = FALSE]
    /\ Goto(i, IF doc[found[i]] = "deleted" THEN "error" ELSE "ok")
    /\ UNCHANGED <<doc, disks, rm, del, search, clearing, faults>>

(* Mutant: the handler of exceptions leaves the stored file.               *)
MutCleanObject(i) ==
    /\ up[i] = "cleanobject"
    /\ Refuse(i)
    /\ UNCHANGED <<database, object, rm, del, search, clearing, faults>>

(* FileService.delete in the handler of exceptions; the row is read first. *)
CleanObject(i) ==
    /\ up[i] = "cleanobject"
    /\ \/ /\ row[i]
          /\ object' = [object EXCEPT ![i] = FALSE]
          /\ Goto(i, "cleanrow")
          /\ UNCHANGED <<local, faults>>
       \/ ~row[i] /\ Refuse(i) /\ UNCHANGED <<object, faults>>
       \/ Fault /\ Refuse(i) /\ UNCHANGED object
    /\ UNCHANGED <<database, rm, del, search, clearing>>

CleanRow(i) ==
    /\ up[i] = "cleanrow"
    /\ row' = [row EXCEPT ![i] = FALSE]
    /\ Refuse(i)
    /\ UNCHANGED <<doc, object, rm, del, search, clearing, faults>>

(* A statement fails, and the clean-up works with the session or does not. *)
DatabaseFails(i) ==
    /\ up[i] \in {"find", "replace", "insert", "embed", "mark", "answer", "duprow",
                  "cleanrow"}
    /\ Fault
    /\ \/ up[i] # "cleanrow" /\ Goto(i, "cleanobject") /\ UNCHANGED local
       \/ Refuse(i)
    /\ UNCHANGED <<database, object, rm, del, search, clearing>>

Crash(i) ==
    /\ up[i] \notin Over /\ Fault
    /\ Goto(i, "crashed")
    /\ lost' = IF up[i] = "clear" THEN lost \cup {i} ELSE lost
    /\ UNCHANGED <<database, disks, rm, del, search, cached, fresh>>

-----------------------------------------------------------------------------
(* delete_file: FileService.delete                                         *)

RemoveRead(i) ==
    /\ rm[i] = "idle" /\ row[i]
    /\ rm' = [rm EXCEPT ![i] = "object"]
    /\ UNCHANGED <<database, disks, upload, del, search, clearing, faults>>

RemoveObject(i) ==
    /\ rm[i] = "object"
    /\ object' = [object EXCEPT ![i] = FALSE]
    /\ rm' = [rm EXCEPT ![i] = "row"]
    /\ UNCHANGED <<database, local, upload, del, search, clearing, faults>>

RemoveRow(i) ==
    /\ rm[i] = "row"
    /\ row' = [row EXCEPT ![i] = FALSE]
    /\ rm' = [rm EXCEPT ![i] = "idle"]
    /\ UNCHANGED <<doc, disks, upload, del, search, clearing, faults>>

RemoveFails(i) ==
    /\ rm[i] # "idle" /\ Fault
    /\ rm' = [rm EXCEPT ![i] = "idle"]
    /\ UNCHANGED <<database, disks, upload, del, search, clearing>>

-----------------------------------------------------------------------------
(* delete_document; the stored file stays in the list of files.            *)

DeleteRead(i) ==
    /\ del[i] = "idle" /\ doc[i] \in Live
    /\ del' = [del EXCEPT ![i] = "commit"]
    /\ UNCHANGED <<database, disks, upload, rm, search, clearing, faults>>

DeleteCommit(i) ==
    /\ del[i] = "commit"
    /\ doc' = [doc EXCEPT ![i] = "deleted"]
    /\ del' = [del EXCEPT ![i] = "clear"]
    /\ UNCHANGED <<row, disks, upload, rm, search, clearing, faults>>

(* Mutant: the cached results are kept.                                    *)
MutDeleteClears(i) ==
    /\ del[i] = "clear"
    /\ del' = [del EXCEPT ![i] = "idle"]
    /\ Unlink(i)
    /\ UNCHANGED <<database, object, upload, rm, search, clearing, faults>>

DeleteClears(i) ==
    /\ del[i] = "clear"
    /\ del' = [del EXCEPT ![i] = "idle"]
    /\ Unlink(i)
    /\ \/ ClearsCache /\ UNCHANGED faults
       \/ ClearFails(i)
    /\ UNCHANGED <<database, object, upload, rm, search>>

DeleteFails(i) ==
    /\ del[i] # "idle" /\ Fault
    /\ del' = [del EXCEPT ![i] = "idle"]
    /\ lost' = IF del[i] = "clear" THEN lost \cup {i} ELSE lost
    /\ UNCHANGED <<database, disks, upload, rm, search, cached, fresh>>

-----------------------------------------------------------------------------
(* search: get_or_set_json around run_search                               *)

(* The look-up finds nothing, or fails.                                    *)
Miss(s) ==
    /\ at[s] = "idle"
    /\ \/ ~cached.hit /\ UNCHANGED faults
       \/ cached.hit /\ Fault
    /\ at' = [at EXCEPT ![s] = "query"]
    /\ UNCHANGED <<database, disks, upload, rm, del, got, clearing>>

(* The second look-up under the lock, or the wait for its holder, finds a  *)
(* result; whoever waits in vain queries without another look.             *)
HitAfterMiss(s) ==
    /\ at[s] = "query" /\ cached.hit
    /\ at' = [at EXCEPT ![s] = "idle"]
    /\ UNCHANGED <<database, disks, upload, rm, del, got, clearing, faults>>

Query(s) ==
    /\ at[s] = "query"
    /\ got' = [got EXCEPT ![s] = Ready] /\ fresh' = [fresh EXCEPT ![s] = TRUE]
    /\ at' = [at EXCEPT ![s] = "store"]
    /\ UNCHANGED <<database, disks, upload, rm, del, cached, lost, faults>>

(* The result is stored, an empty one too, unless Redis refuses it.        *)
StoreResult(s) ==
    /\ at[s] = "store"
    /\ cached' \in {cached, [hit |-> TRUE, docs |-> got[s], fresh |-> fresh[s]]}
    /\ at' = [at EXCEPT ![s] = "idle"] /\ got' = [got EXCEPT ![s] = {}]
    /\ fresh' = [fresh EXCEPT ![s] = FALSE]
    /\ UNCHANGED <<database, disks, upload, rm, del, lost, faults>>

ResultExpires ==
    /\ cached.hit
    /\ cached' = NoResult
    /\ UNCHANGED <<database, disks, upload, rm, del, search, fresh, lost, faults>>

-----------------------------------------------------------------------------
Upload(i) ==
    \/ \E c \in Contents \cup {"plain"} : Begin(i, c)
    \/ PutObject(i) \/ PutFails(i) \/ CommitRow(i) \/ RowFails(i) \/ Unput(i)
    \/ FindNone(i) \/ (\E e \in Files : FindFailed(i, e) \/ FindSame(i, e))
    \/ Replace(i) \/ Insert(i) \/ InsertConflict(i)
    \/ CommitReady(i) \/ LoadFails(i) \/ MarkFailed(i) \/ UpdateStale(i)
    \/ UploadClears(i) \/ Answer(i)
    \/ DeleteDuplicate(i) \/ CommitDuplicate(i) \/ CleanObject(i) \/ CleanRow(i)
    \/ DatabaseFails(i) \/ Crash(i)

Remove(i) == RemoveRead(i) \/ RemoveObject(i) \/ RemoveRow(i) \/ RemoveFails(i)
Delete(i) == DeleteRead(i) \/ DeleteCommit(i) \/ DeleteClears(i) \/ DeleteFails(i)
Search(s) == Miss(s) \/ HitAfterMiss(s) \/ Query(s) \/ StoreResult(s)

Next ==
    \/ \E i \in Files : Upload(i) \/ Remove(i) \/ Delete(i)
    \/ \E s \in Searchers : Search(s)
    \/ ResultExpires

Spec == Init /\ [][Next]_vars

-----------------------------------------------------------------------------
(* Properties.                                                             *)

(* Documents whose change has not cleared the cache yet, or never will.    *)
Unannounced == lost \cup {i \in Files : up[i] = "clear" \/ del[i] = "clear"}

Current(docs) == \A i \in Files \ Unannounced : i \in docs <=> doc[i] = "ready"

(* A cached result that was read since the cache was last cleared has the  *)
(* documents that are ready, but for those about to clear it.  (One that   *)
(* was read before and stored after a deletion still has the document, for *)
(* 300 s.)                                                                 *)
CacheIsCurrent == cached.hit /\ cached.fresh => Current(cached.docs)

(* Between handlers, objects and rows go together: an object without a row *)
(* takes a crash, an upload to the storage that fails after the fact, or a *)
(* second failure; a row without its object takes one.                     *)
ObjectsFollowRows ==
    \A i \in Files :
        /\ object[i] /\ ~row[i] =>
              up[i] \in {"row", "unput", "crashed", "astray"} \/ faults > 1
        /\ row[i] /\ ~object[i] =>
              up[i] \in {"duprow", "cleanrow"} \/ rm[i] = "row" \/ faults > 0

(* A document in processing has an upload that will finish it, unless      *)
(* something failed.  (If so, it stays, and answers all later uploads.)    *)
ProcessingIsAttended ==
    \A i \in Files :
        doc[i] = "processing" => up[i] \in {"embed", "mark"} \/ faults > 0

(* An upload that is answered with an error leaves no stored file, unless  *)
(* it has lost a race: against an upload of the same content, or against   *)
(* the deletion of its document or of its file.                            *)
FailedUploadLeavesNothing ==
    \A i \in Files :
        up[i] = "error" => (~row[i] /\ ~object[i]) \/ broken[i] \/ faults > 0

(* A local copy belongs to an upload under way or to a document.           *)
NoStrayCopy ==
    \A i \in Files : local[i] =>
        up[i] \notin Over \/ doc[i] = "ready" \/ del[i] = "clear" \/ faults > 0

(* What the handlers know of their file where they are.                    *)
HandlersKnow ==
    \A i \in Files :
        /\ up[i] \in {"none", "put"} => ~row[i] /\ ~object[i]
        /\ up[i] \in {"row", "unput"} => ~row[i] /\ object[i]
        /\ up[i] = "unput" => faults > 0
        /\ up[i] = "astray" => ~row[i]
        /\ up[i] \in {"none", "put", "row", "unput"} => rm[i] = "idle"
        /\ up[i] \in {"duprow", "cleanrow"} \/ rm[i] = "row" => ~object[i]
        /\ up[i] \in {"dupobject", "duprow"} => ~local[i]
        /\ up[i] \in {"none", "put", "row", "unput", "find", "replace", "insert"} =>
              doc[i] = "absent"
        /\ del[i] # "idle" => doc[i] # "absent"
        /\ up[i] \in {"clear", "answer"} => doc[i] \in {"ready", "deleted"}
        /\ up[i] = "replace" => /\ found[i] # 0
                                /\ doc[found[i]] \in {"failed", "deleted"}

(* A search about to store what it has read since the cache was cleared    *)
(* has the documents that are ready.                                       *)
SearchesAreCurrent ==
    \A s \in Searchers : at[s] = "store" /\ fresh[s] => Current(got[s])

(* The inductive invariant.                                                *)
IInv ==
    /\ TypeOK /\ HandlersKnow
    /\ ObjectsFollowRows /\ ProcessingIsAttended
    /\ FailedUploadLeavesNothing /\ NoStrayCopy
    /\ CacheIsCurrent /\ SearchesAreCurrent
=============================================================================
