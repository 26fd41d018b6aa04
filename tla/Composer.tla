------------------------------- MODULE Composer -------------------------------
(***************************************************************************)
(* The message box of a conversation: the text, the attachments that are   *)
(* being read or are ready, the model a message goes to, and the upload of *)
(* documents to the knowledge base                                         *)
(* (src/frontend/src/components/thread/index.tsx,                          *)
(* hooks/use-file-upload.tsx, lib/multimodal-utils.ts).                    *)
(*                                                                         *)
(* Files are read asynchronously: a read keeps what its closure captured,  *)
(* the generation of the box and whether images were allowed, and appends  *)
(* its blocks later.  The effects of React run some time after an answer   *)
(* has changed what they depend on: a read or an event of the user may     *)
(* come in between, but before another change is rendered they have run.   *)
(*                                                                         *)
(* Only the order in which blocks are displayed depends on their order, so *)
(* the blocks of the box and of a message are bags, and the files of one   *)
(* pick are a set.                                                         *)
(***************************************************************************)
EXTENDS Naturals, Sequences, Bags

CONSTANTS
    Models, Vision,     \* the models, and those that support images
    Lists,              \* the lists of models the backend may answer, with its current one
    Threads,
    Picks,              \* the sets of files a user may attach at once
    MaxReads,           \* bound: batches of files being read
    MaxSends,           \* bound: messages sent
    MaxEvents           \* bound: picks, switches, refreshes and failures together

VARIABLES
    models,     \* the models listed, the one selected, and the choice in localStorage
    page,       \* the thread of the address, the thread of the stream, a run in progress
    box,        \* the text, the blocks, and the generation of useFileUpload
    ran,        \* what the effects of useFileUpload last ran for
    reads,      \* batches of files being read
    asked,      \* requests for the list of models that are not answered
    picked,     \* the value of the file input: it fires only when this changes
    knowledge,  \* files still to be uploaded, and names the knowledge base holds
    sent,       \* history: the messages that were sent
    events

vars == <<models, page, box, ran, reads, asked, picked, knowledge, sent, events>>

Counted == events < MaxEvents /\ events' = events + 1

-----------------------------------------------------------------------------
(* Files and blocks: a file has a MIME type, the kind of its extension and, for  *)
(* an image, whether it is large enough to be encoded again.                     *)

SupportedImages == {"image/png", "image/gif"}
SeemsImage(f) == f.mime \in SupportedImages \cup {"image/heic"} \/ f.ext = "image"
TextTypes == {"text/plain"}
CodeExtensions == {"code"}
SupportedText(f) == ~SeemsImage(f) /\ (f.mime \in TextTypes \/ f.ext \in CodeExtensions)

SupportedUpload(f, allow) ==
    IF SeemsImage(f) THEN allow /\ f.mime \in SupportedImages
    ELSE f.mime = "application/pdf" \/ SupportedText(f)

\* isDuplicateFile: a block of the same name, and for images of the file's own type.
Duplicate(f, blocks) ==
    \E b \in DOMAIN blocks :
        /\ b.name = f.name
        /\ b.type = IF f.mime = "application/pdf" THEN "file"
                    ELSE IF SupportedText(f) THEN "text" ELSE "image"
        /\ b.type = "image" => b.mime = f.mime

\* imageToBase64Payload: a large image is encoded again, unless it is a GIF, the
\* browser cannot, or the result is no smaller.
ImageMime(f, smaller) ==
    IF f.large /\ f.mime # "image/gif" /\ smaller THEN "image/jpeg" ELSE f.mime

\* fileToContentBlock, with the thread and the turn for which the file was added.
BlockOf(f, smaller, thread, turn) ==
    LET block(type, mime) == [type |-> type, mime |-> mime, name |-> f.name,
                              thread |-> thread, turn |-> turn]
    IN IF SupportedText(f) THEN block("text", "text/plain")
       ELSE IF f.mime \in SupportedImages THEN block("image", ImageMime(f, smaller))
       ELSE block("file", f.mime)

IsImage(block) == block.type = "image"
HasImage(blocks) == \E b \in DOMAIN blocks : IsImage(b)
WithoutImages(blocks) == [b \in {b \in DOMAIN blocks : ~IsImage(b)} |-> blocks[b]]

\* MultimodalPreview: what stands for a block in the box or in a message.
Preview(block) == CASE block.type = "text" -> "language"
                    [] block.type = "image" -> "picture"
                    [] block.type = "file" /\ block.mime = "application/pdf" -> "document"
                    [] OTHER -> "unsupported"

-----------------------------------------------------------------------------
(* What the page shows and offers. *)

AllowImages == models.chosen \in Vision
ThreadLoading == page.thread # page.stream
Empty == ~box.text /\ box.blocks = EmptyBag
Uploading == knowledge.left # {}

CanSend == ~Empty /\ ~page.busy /\ ~ThreadLoading
CanWrite == ~ThreadLoading
CanSwitch == ~page.busy
OtherModels == models.listed \ {models.chosen}
CanUpload == ~Uploading
SendButton == IF page.busy THEN "stop" ELSE IF CanSend THEN "send" ELSE "disabled"

-----------------------------------------------------------------------------
(* Attachments. *)

NoRead == [files |-> {}, gen |-> 0, input |-> FALSE, thread |-> "none", turn |-> 0]
Free == {i \in 1..MaxReads : reads[i] = NoRead}

\* addFiles, for files that were picked, dropped or pasted.
AddFiles(pick, input) ==
    LET unique == {f \in pick : SupportedUpload(f, AllowImages) /\ ~Duplicate(f, box.blocks)}
    IN \E i \in Free :
          /\ unique # {} /\ \A j \in Free : i <= j
          /\ reads' = [reads EXCEPT ![i] =
                         [files |-> unique, gen |-> box.gen, input |-> input,
                          thread |-> page.thread, turn |-> Len(sent)]]

HandleFileUpload(pick) ==
    /\ picked # pick /\ picked' = pick /\ Counted
    /\ AddFiles(pick, TRUE)
    /\ UNCHANGED <<models, page, box, ran, asked, knowledge, sent>>

\* handlePaste and handleWindowDrop.
PasteOrDrop(pick) ==
    /\ AddFiles(pick, FALSE) /\ Counted
    /\ UNCHANGED <<models, page, box, ran, asked, picked, knowledge, sent>>

\* The blocks are appended if the box is still of the generation of the read.
ReadDone(i, smaller) ==
    /\ reads[i] # NoRead /\ reads' = [reads EXCEPT ![i] = NoRead]
    /\ LET r == reads[i]
           new == {BlockOf(f, smaller, r.thread, r.turn) : f \in r.files}
       IN /\ box' = IF r.gen = box.gen THEN [box EXCEPT !.blocks = @ (+) SetToBag(new)] ELSE box
          /\ picked' = IF r.input THEN {} ELSE picked
    /\ UNCHANGED <<models, page, ran, asked, knowledge, sent, events>>

\* One file cannot be read: the batch is lost, and the input keeps its value.
ReadFails(i) ==
    /\ reads[i] # NoRead /\ reads' = [reads EXCEPT ![i] = NoRead] /\ Counted
    /\ UNCHANGED <<models, page, box, ran, asked, picked, knowledge, sent>>

RemoveBlock(block) ==
    /\ box' = [box EXCEPT !.blocks = @ (-) SetToBag({block})]
    /\ UNCHANGED <<models, page, ran, reads, asked, picked, knowledge, sent, events>>

\* A new thread empties the box and leaves the reads of the old one valid.
MutSwitched(b) == [b EXCEPT !.blocks = EmptyBag]
Switched(b) == [b EXCEPT !.blocks = EmptyBag, !.gen = @ + 1]

\* Another model leaves the reads that were begun for the one before it valid.
MutBumped(old, new) == 0
Bumped(old, new) == IF old.allow # new.allow THEN 1 ELSE 0

\* The effects on allowImages, resetKey and contentBlocks, in this order.
After(b, old, new) ==
    IF old.thread # new.thread THEN [Switched(b) EXCEPT !.gen = @ + Bumped(old, new)]
    ELSE [b EXCEPT !.gen = @ + Bumped(old, new),
                   !.blocks = IF new.allow THEN @ ELSE WithoutImages(@)]

\* Before the effects of a render, those of the one before it have run.
Rendered == [thread |-> page.thread, allow |-> AllowImages]
RunEffects(next) == box' = After(After(box, ran, Rendered), Rendered, next) /\ ran' = next

\* They run some time after an answer; after an event of the user they run at once.
Effects ==
    /\ RunEffects(Rendered) /\ <<box, ran>>' # <<box, ran>>
    /\ UNCHANGED <<models, page, reads, asked, picked, knowledge, sent, events>>

-----------------------------------------------------------------------------
(* Models. *)

\* A new authFetch makes the page ask again.
TokenRefreshed ==
    /\ asked = 0 /\ Counted /\ asked' = asked + 1
    /\ UNCHANGED <<models, page, box, ran, reads, picked, knowledge, sent>>

Selected(l) == IF models.stored \in l.models THEN models.stored ELSE l.current

ModelsAnswer ==
    /\ asked > 0 /\ asked' = asked - 1
    /\ \E l \in Lists : models' = [models EXCEPT !.listed = l.models, !.chosen = Selected(l)]
    /\ RunEffects(Rendered)
    /\ UNCHANGED <<page, reads, picked, knowledge, sent, events>>

ModelsFail ==
    /\ asked > 0 /\ asked' = asked - 1 /\ Counted
    /\ UNCHANGED <<models, page, box, ran, reads, picked, knowledge, sent>>

ChangeModel(m) ==
    /\ m \in OtherModels /\ Counted
    /\ models' = [models EXCEPT !.chosen = m, !.stored = m]
    /\ RunEffects([Rendered EXCEPT !.allow = m \in Vision])
    /\ UNCHANGED <<page, reads, asked, picked, knowledge, sent>>

-----------------------------------------------------------------------------
(* Messages and threads. *)

Write ==
    /\ CanWrite /\ ~box.text /\ box' = [box EXCEPT !.text = TRUE]
    /\ UNCHANGED <<models, page, ran, reads, asked, picked, knowledge, sent, events>>

Refused == ~AllowImages /\ HasImage(box.blocks)

\* handleSubmit: images a model does not support are taken out and nothing is sent.
Submit ==
    /\ CanSend /\ Len(sent) < MaxSends
    /\ IF Refused
       THEN /\ box' = [box EXCEPT !.blocks = WithoutImages(@)]
            /\ UNCHANGED <<page, sent>>
       ELSE /\ sent' = Append(sent, [thread |-> page.thread, model |-> models.chosen,
                                     blocks |-> box.blocks])
            /\ box' = [box EXCEPT !.text = FALSE, !.blocks = EmptyBag, !.gen = @ + 1]
            /\ page' = [page EXCEPT !.busy = TRUE]
    /\ UNCHANGED <<models, ran, reads, asked, picked, knowledge, events>>

\* setThreadId, from the page or from the list of threads.
SwitchThread(t) ==
    /\ CanSwitch /\ t # page.thread /\ Counted
    /\ page' = [page EXCEPT !.thread = t]
    /\ RunEffects([Rendered EXCEPT !.thread = t])
    /\ UNCHANGED <<models, reads, asked, picked, knowledge, sent>>

\* The stream has loaded the thread of the address.
Hydrated ==
    /\ ThreadLoading /\ ran.thread = page.thread
    /\ page' = [page EXCEPT !.stream = page.thread]
    /\ UNCHANGED <<models, box, ran, reads, asked, picked, knowledge, sent, events>>

\* The first message of a new conversation gets its thread.
ThreadCreated(t) ==
    /\ page.busy /\ page.thread = "none"
    /\ page' = [page EXCEPT !.thread = t, !.stream = t]
    /\ UNCHANGED <<models, box, ran, reads, asked, picked, knowledge, sent, events>>

RunEnds ==
    /\ page.busy /\ ran.thread = page.thread /\ page.thread # "none"
    /\ page' = [page EXCEPT !.busy = FALSE]
    /\ UNCHANGED <<models, box, ran, reads, asked, picked, knowledge, sent, events>>

-----------------------------------------------------------------------------
(* Documents for the knowledge base: one after the other, until one fails. *)

UploadKnowledgeDocument(pick) ==
    /\ CanUpload /\ Counted
    /\ knowledge' = [knowledge EXCEPT !.left = pick]
    /\ UNCHANGED <<models, page, box, ran, reads, asked, picked, sent>>

KnowledgeAnswer ==
    /\ Uploading
    /\ \E f \in knowledge.left :
          knowledge' = [left |-> knowledge.left \ {f}, held |-> knowledge.held \cup {f.name}]
    /\ UNCHANGED <<models, page, box, ran, reads, asked, picked, sent, events>>

KnowledgeFails ==
    /\ Uploading /\ Counted
    /\ knowledge' = [knowledge EXCEPT !.left = {}]
    /\ UNCHANGED <<models, page, box, ran, reads, asked, picked, sent>>

-----------------------------------------------------------------------------
Init ==
    /\ models = [listed |-> {}, chosen |-> "none", stored |-> "none"]
    /\ \E t \in Threads \cup {"none"} :
          /\ page = [thread |-> t, stream |-> "none", busy |-> FALSE]
          /\ ran = [thread |-> t, allow |-> FALSE]
    /\ box = [text |-> FALSE, blocks |-> EmptyBag, gen |-> 0]
    /\ reads = [i \in 1..MaxReads |-> NoRead] /\ asked = 1 /\ picked = {}
    /\ knowledge = [left |-> {}, held |-> {}]
    /\ sent = <<>> /\ events = 0

Next ==
    \/ Effects \/ TokenRefreshed \/ ModelsAnswer \/ ModelsFail \/ Write \/ Submit
    \/ Hydrated \/ RunEnds \/ KnowledgeAnswer \/ KnowledgeFails
    \/ \E pick \in Picks : HandleFileUpload(pick) \/ PasteOrDrop(pick)
                           \/ UploadKnowledgeDocument(pick)
    \/ \E i \in 1..MaxReads : ReadFails(i) \/ \E smaller \in BOOLEAN : ReadDone(i, smaller)
    \/ \E block \in DOMAIN box.blocks : RemoveBlock(block)
    \/ \E m \in Models : ChangeModel(m)
    \/ \E t \in Threads \cup {"none"} : SwitchThread(t)
    \/ \E t \in Threads : ThreadCreated(t)

Spec == Init /\ [][Next]_vars
-----------------------------------------------------------------------------
(* What is to hold. *)

\* Types; messages go to a model of the list, the one the user chose while it is offered;
\* an image block is of a type that is sent as an image, and no block is unsupported.
TypeOK ==
    /\ models \in [listed : SUBSET Models, chosen : models.listed \cup {"none"},
                   stored : Models \cup {"none"}]
    /\ models.stored \in models.listed => models.chosen = models.stored
    /\ page \in [thread : Threads \cup {"none"}, stream : Threads \cup {"none"}, busy : BOOLEAN]
    /\ ran \in [thread : Threads \cup {"none"}, allow : BOOLEAN]
    /\ box.text \in BOOLEAN /\ box.gen \in Nat /\ asked \in 0..1
    /\ \A b \in DOMAIN box.blocks :
          /\ Preview(b) # "unsupported"
          /\ IsImage(b) => b.mime \in SupportedImages \cup {"image/jpeg"}
    /\ SendButton \in {"stop", "send", "disabled"} /\ (SendButton = "send" => ~Empty)

\* However files are read, models switched and lists of models answered: once the effects
\* have run, the box of a model that does not support images holds none, although a picture
\* that was picked for the model before it may be read only now; handleSubmit need refuse a
\* message only between an answer and its effects (uploadGeneration, use-file-upload.tsx:123-149).
BoxFitsModel == Refused => ran # Rendered

\* A message holds only files that were added for it: to its thread, and since the
\* message before it (uploadGeneration).
SentWhereAdded ==
    \A i \in DOMAIN sent : \A b \in DOMAIN sent[i].blocks :
        b.thread = sent[i].thread /\ b.turn = i - 1
=============================================================================
