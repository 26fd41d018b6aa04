--------------------------- MODULE PagesData_proofs ---------------------------
(***************************************************************************)
(* Proofs about what the parts of Pages show, send, decide and remember:   *)
(* the message box (BoxInv), the messages of a conversation (ChatInv), the *)
(* decisions about a pause (AskInv) and the types of what they are made    *)
(* with (InboxShape), the accounts of a browser (AccountInv), each kept by *)
(* the steps of its part, and the theorems that follow from them.          *)
(***************************************************************************)
EXTENDS Pages, FiniteSetTheorems, SequenceTheorems, TLAPS

-----------------------------------------------------------------------------
(* Numbers and sequences. *)

\* A set of numbers has a least one, and below a bound a largest one.
LEMMA Least ==
    ASSUME NEW T, T \subseteq Nat, T # {}
    PROVE  \E x \in T : \A y \in T : x <= y
<1> DEFINE R == OpToRel(<, Nat)
<1>1. IsWellFoundedOn(R, Nat)
  BY NatLessThanWellFounded
<1>2. PICK x \in T : \A y \in T : ~ (<<y, x>> \in R)
  <2> HIDE DEF R
  <2> QED BY <1>1, WFMin
<1>3. \A y \in T : ~(y < x)
  BY <1>2 DEF OpToRel
<1> QED BY <1>3

LEMMA Largest ==
    ASSUME NEW n \in Nat, NEW S, S \subseteq 1..n, S # {}
    PROVE  \E i \in S : \A k \in S : k <= i
<1> DEFINE T == {n - i : i \in S}
<1>1. T \subseteq Nat /\ T # {}
  <2>1. \A i \in S : i \in 1..n /\ n - i \in Nat
    OBVIOUS
  <2> QED BY <2>1
<1>2. PICK x \in T : \A y \in T : x <= y
  <2> HIDE DEF T
  <2> QED BY <1>1, Least
<1> QED BY <1>2

\* Cardinality is the same operator in the modules that are instantiated.
LEMMA Size == ASSUME NEW S PROVE Chat!Cardinality(S) = Cardinality(S)
BY DEF Chat!Cardinality, Cardinality

\* SetToSeq lists every element of a finite set.
LEMMA Ordered == ASSUME NEW S, IsFiniteSet(S) PROVE Chat!SetToSeq(S) \in Bijection(1..Cardinality(S), S)
<1>1. Cardinality(S) \in Nat /\ ExistsBijection(1..Cardinality(S), S)
  BY FS_CardinalityType
<1>2. \E f \in [1..Cardinality(S) -> S] : Chat!IsInjective(f)
  BY <1>1 DEF ExistsBijection, Bijection, Injection, IsInjective, Chat!IsInjective
<1>3. Chat!SetToSeq(S) \in Injection(1..Cardinality(S), S)
  BY <1>2, Size DEF Chat!SetToSeq, Chat!IsInjective, IsInjective, Injection
<1>4. IsFiniteSet(1..Cardinality(S)) /\ Cardinality(1..Cardinality(S)) = Cardinality(S)
  BY <1>1, FS_Interval
<1>5. Chat!SetToSeq(S) \in Surjection(1..Cardinality(S), S)
  BY <1>3, <1>4, FS_Injection
<1> QED BY <1>3, <1>5 DEF Bijection

-----------------------------------------------------------------------------
(* The message box. *)

PageThreads == Threads \cup {"none"}

\* Files that are read are files of a kind that can be attached.
Readable(f) == (Box!SeemsImage(f) /\ f.mime \in Box!SupportedImages)
               \/ (~Box!SeemsImage(f) /\ (f.mime = "application/pdf" \/ Box!SupportedText(f)))

ReadTypes ==
    /\ DOMAIN reads = 1..Bound.composer.reads
    /\ \A i \in DOMAIN reads :
          /\ DOMAIN reads[i] = {"files", "gen", "input", "thread", "turn"}
          /\ reads[i].gen \in Nat /\ \A f \in reads[i].files : Readable(f)

BoxTypes ==
    /\ Box!TypeOK /\ ReadTypes
    /\ DOMAIN box = {"text", "blocks", "gen"}
    /\ \E S : sent \in Seq(S)

\* The effects lag behind the page only after a run has created its thread.
EffectsLag == ran.thread = chat.thread \/ (chat.busy /\ ran.thread = "none")

\* A block is for the next message and, once the effects have run, for the thread.
Fits(thread, turn) == turn = Len(sent) /\ (ran.thread = chat.thread => thread = chat.thread)

BoxHolds ==
    /\ EffectsLag
    /\ \A b \in DOMAIN box.blocks : Fits(b.thread, b.turn)
    /\ \A i \in DOMAIN reads :
          /\ reads[i].gen <= box.gen
          /\ reads[i].files # {} /\ reads[i].gen = box.gen => Fits(reads[i].thread, reads[i].turn)
    /\ Box!SentWhereAdded

BoxInv == BoxTypes /\ BoxHolds

BlockFine(b) ==
    /\ Box!Preview(b) # "unsupported"
    /\ Box!IsImage(b) => b.mime \in Box!SupportedImages \cup {"image/jpeg"}

\* What a file that can be attached becomes is sent as what it is.
LEMMA BlocksAreFine ==
    ASSUME NEW f, Readable(f), NEW smaller, NEW thread, NEW turn
    PROVE  LET b == Box!BlockOf(f, smaller, thread, turn)
           IN BlockFine(b) /\ b.thread = thread /\ b.turn = turn
BY DEF Readable, BlockFine, Box!BlockOf, Box!Preview, Box!IsImage, Box!ImageMime, Box!SeemsImage,
       Box!SupportedText, Box!SupportedImages

LEMMA BoxInitially == PagesAssumption /\ Box!Init => BoxInv
BY DEF PagesAssumption, ConstantsOK, Box!Init, BoxInv, BoxTypes, BoxHolds, Box!TypeOK, ReadTypes, EffectsLag, Box!NoRead,
       Box!EmptyBag, Box!SetToBag, Box!SentWhereAdded, Box!SendButton,
       Box!CanSend, Box!Empty

LEMMA SendButtonOK ==
    Box!SendButton \in {"stop", "send", "disabled"} /\ (Box!SendButton = "send" => ~Box!Empty)
BY DEF Box!SendButton, Box!CanSend

\* Answers about models, the text of a message and the knowledge base.
LEMMA BoxBeside ==
    ASSUME PagesAssumption, BoxInv,
           Box!TokenRefreshed \/ Box!ModelsFail \/ Box!Write
           \/ (\E pick \in Picks : Box!UploadKnowledgeDocument(pick))
           \/ Box!KnowledgeAnswer \/ Box!KnowledgeFails \/ UNCHANGED composer
    PROVE  BoxInv'
<1>1. /\ UNCHANGED <<chat, ran, reads, sent>> /\ box'.blocks = box.blocks /\ box'.gen = box.gen
      /\ DOMAIN box' = DOMAIN box /\ box'.text \in {box.text, TRUE}
  BY DEF BoxInv, BoxTypes, Box!TokenRefreshed, Box!ModelsFail, Box!Write,
     Box!UploadKnowledgeDocument, Box!KnowledgeAnswer, Box!KnowledgeFails, composer
<1>2. /\ models' \in [listed : SUBSET Models, chosen : models'.listed \cup {"none"},
                      stored : Models \cup {"none"}]
      /\ (models'.stored \in models'.listed => models'.chosen = models'.stored)
      /\ asked' \in 0..1
  BY DEF BoxInv, BoxTypes, Box!TypeOK, Box!TokenRefreshed, Box!ModelsFail, Box!Write,
     Box!UploadKnowledgeDocument, Box!KnowledgeAnswer, Box!KnowledgeFails, composer
<1>3. Box!TypeOK'
  BY <1>1, <1>2, SendButtonOK DEF BoxInv, BoxTypes, Box!TypeOK, Box!SendButton, Box!CanSend,
     Box!Preview, Box!IsImage
<1>4. BoxHolds'
  BY <1>1 DEF BoxInv, BoxHolds, EffectsLag, Fits, Box!SentWhereAdded
<1> QED BY <1>1, <1>3, <1>4 DEF BoxInv, BoxTypes, ReadTypes

\* Files are picked: what is read is for the page as it is.
LEMMA BoxPicks ==
    ASSUME PagesAssumption, BoxInv, NEW pick, NEW input,
           Box!AddFiles(pick, input), UNCHANGED <<models, chat, box, ran, asked, sent>>
    PROVE  BoxInv'
<1> DEFINE unique == {f \in pick : Box!SupportedUpload(f, Box!AllowImages)
                                   /\ ~Box!Duplicate(f, box.blocks)}
           new == [files |-> unique, gen |-> box.gen, input |-> input,
                   thread |-> chat.thread, turn |-> Len(sent)]
<1>1. PICK i \in 1..Bound.composer.reads : reads' = [reads EXCEPT ![i] = new]
  BY DEF Box!AddFiles, Box!Free
<1>2. \A f \in unique : Readable(f)
  BY DEF Box!SupportedUpload, Readable
<1>3. ReadTypes'
  BY <1>1, <1>2 DEF BoxInv, BoxTypes, ReadTypes, Box!TypeOK
<1>4. BoxHolds'
  <2>1. \A k \in DOMAIN reads' : reads'[k] = IF k = i THEN new ELSE reads[k]
    BY <1>1 DEF BoxInv, BoxTypes, ReadTypes
  <2>2. \A k \in DOMAIN reads' :
           /\ reads'[k].gen <= box.gen
           /\ reads'[k].files # {} /\ reads'[k].gen = box.gen
                => Fits(reads'[k].thread, reads'[k].turn)
    BY <1>1, <2>1 DEF BoxInv, BoxTypes, ReadTypes, BoxHolds, Fits, Box!TypeOK
  <2> QED BY <2>2 DEF BoxInv, BoxHolds, EffectsLag, Fits, Box!SentWhereAdded
<1>5. Box!TypeOK'
  BY SendButtonOK DEF BoxInv, BoxTypes, Box!TypeOK, Box!SendButton, Box!CanSend, Box!Empty, Box!ThreadLoading,
     Box!Preview, Box!IsImage
<1> QED BY <1>3, <1>4, <1>5 DEF BoxInv, BoxTypes

\* The box keeps its properties when its blocks afterwards are blocks it had, or blocks that
\* were read for it.
LEMMA BoxFilled ==
    ASSUME BoxInv, UNCHANGED <<models, chat, ran, asked, sent>>,
           DOMAIN box' = DOMAIN box, box'.text = box.text, box'.gen = box.gen,
           ReadTypes', \A i \in DOMAIN reads : reads'[i] \in {reads[i], Box!NoRead},
           \A b \in DOMAIN box'.blocks : b \in DOMAIN box.blocks
                                         \/ (BlockFine(b) /\ Fits(b.thread, b.turn))
    PROVE  BoxInv'
<1>1. Box!TypeOK'
  BY SendButtonOK DEF BoxInv, BoxTypes, Box!TypeOK, Box!SendButton, Box!CanSend, Box!Empty, Box!ThreadLoading,
     BlockFine, Box!Preview, Box!IsImage
<1>2. BoxHolds'
  <2>1. \A k \in DOMAIN reads' :
           /\ reads'[k].gen <= box.gen
           /\ reads'[k].files # {} /\ reads'[k].gen = box.gen
                => Fits(reads'[k].thread, reads'[k].turn)
    BY DEF BoxInv, BoxTypes, ReadTypes, BoxHolds, Box!NoRead, Box!TypeOK
  <2> QED BY <2>1 DEF BoxInv, BoxHolds, EffectsLag, Fits, Box!SentWhereAdded
<1> QED BY <1>1, <1>2 DEF BoxInv, BoxTypes

LEMMA BoxReads ==
    ASSUME BoxInv, NEW i \in 1..Bound.composer.reads,
           Box!ReadFails(i) \/ \E smaller \in BOOLEAN : Box!ReadDone(i, smaller)
    PROVE  BoxInv'
<1>1. reads[i] # Box!NoRead /\ reads' = [reads EXCEPT ![i] = Box!NoRead]
  BY DEF Box!ReadFails, Box!ReadDone
<1>2. ReadTypes' /\ \A k \in DOMAIN reads : reads'[k] \in {reads[k], Box!NoRead}
  BY <1>1 DEF BoxInv, BoxTypes, ReadTypes, Box!NoRead
<1>3. CASE box' = box
  BY <1>2, <1>3, BoxFilled DEF Box!ReadFails, Box!ReadDone
<1>4. CASE box' # box
  <2>1. PICK smaller \in BOOLEAN : Box!ReadDone(i, smaller)
    BY <1>4 DEF Box!ReadFails
  <2> DEFINE r == reads[i]
             new == {Box!BlockOf(f, smaller, r.thread, r.turn) : f \in r.files}
  <2>2. r.gen = box.gen
        /\ box' = [box EXCEPT !.blocks = Box!(+)(@, Box!SetToBag(new))]
    BY <1>4, <2>1 DEF Box!ReadDone
  <2>3. DOMAIN box'.blocks = DOMAIN box.blocks \cup new
    BY <2>2 DEF Box!(+), Box!SetToBag, BoxInv, BoxTypes
  <2>4. \A b \in new : BlockFine(b) /\ Fits(b.thread, b.turn)
    BY <2>2, BlocksAreFine DEF BoxInv, BoxTypes, ReadTypes, BoxHolds
  <2>5. UNCHANGED <<models, chat, ran, asked, sent>>
    BY <2>1 DEF Box!ReadDone
  <2>6. DOMAIN box' = DOMAIN box /\ box'.text = box.text /\ box'.gen = box.gen
    BY <2>2 DEF BoxInv, BoxTypes
  <2> QED BY <1>2, <2>3, <2>4, <2>5, <2>6, BoxFilled
<1> QED BY <1>3, <1>4

LEMMA BoxRemoves ==
    ASSUME BoxInv, NEW block, Box!RemoveBlock(block)
    PROVE  BoxInv'
<1>1. DOMAIN box'.blocks \subseteq DOMAIN box.blocks
  BY DEF Box!RemoveBlock, Box!(-), Box!SetToBag, BoxInv, BoxTypes
<1> QED BY <1>1, BoxFilled DEF Box!RemoveBlock, BoxInv, BoxTypes, ReadTypes

ModelsTyped ==
    /\ models \in [listed : SUBSET Models, chosen : models.listed \cup {"none"},
                   stored : Models \cup {"none"}]
    /\ models.stored \in models.listed => models.chosen = models.stored

\* What the effects leave of a box: fewer blocks, none of them for another thread, and no read
\* of before if the thread or the model is another.
LEMMA AfterIs ==
    ASSUME NEW b, DOMAIN b = {"text", "blocks", "gen"}, b.gen \in Nat, NEW old, NEW new
    PROVE  LET a == Box!After(b, old, new)
           IN /\ DOMAIN a = DOMAIN b /\ a.text = b.text /\ a.gen \in Nat /\ a.gen >= b.gen
              /\ DOMAIN a.blocks \subseteq DOMAIN b.blocks
              /\ old.thread # new.thread => a.gen > b.gen /\ DOMAIN a.blocks = {}
              /\ old.allow # new.allow => a.gen > b.gen
              /\ ~new.allow => ~Box!HasImage(a.blocks)
<1> DEFINE a == Box!After(b, old, new)
           n == Box!Bumped(old, new)
<1>1. n \in 0..1 /\ (old.allow # new.allow => n = 1)
  BY DEF Box!Bumped
<1>2. CASE old.thread # new.thread
  <2>1. a = [[b EXCEPT !.blocks = Box!EmptyBag, !.gen = b.gen + 1] EXCEPT !.gen = b.gen + 1 + n]
    BY <1>2 DEF Box!After, Box!Switched
  <2>2. a.gen = b.gen + 1 + n /\ a.blocks = Box!EmptyBag /\ a.text = b.text /\ DOMAIN a = DOMAIN b
    <3> HIDE DEF n
    <3> QED BY <2>1
  <2>3. DOMAIN a.blocks = {}
    BY <2>2 DEF Box!EmptyBag, Box!SetToBag
  <2> QED BY <1>1, <1>2, <2>2, <2>3 DEF Box!HasImage
<1>3. CASE old.thread = new.thread
  <2> DEFINE c == IF new.allow THEN b.blocks ELSE Box!WithoutImages(b.blocks)
  <2>1. a = [b EXCEPT !.gen = b.gen + n, !.blocks = c]
    BY <1>3 DEF Box!After
  <2>2. DOMAIN c \subseteq DOMAIN b.blocks /\ (~new.allow => ~Box!HasImage(c))
    BY DEF Box!WithoutImages, Box!HasImage
  <2>3. a.gen = b.gen + n /\ a.blocks = c /\ a.text = b.text /\ DOMAIN a = DOMAIN b
    <3> HIDE DEF n, c
    <3> QED BY <2>1
  <2> QED BY <1>1, <1>3, <2>2, <2>3
<1> QED BY <1>2, <1>3

\* The effects of the render before, and then those of the next.
LEMMA BothEffects ==
    ASSUME BoxInv, NEW next, Box!RunEffects(next)
    PROVE  /\ ran' = next
           /\ DOMAIN box' = DOMAIN box /\ box'.text = box.text
           /\ box'.gen \in Nat /\ box'.gen >= box.gen
           /\ DOMAIN box'.blocks \subseteq DOMAIN box.blocks
           /\ ran.thread # chat.thread \/ chat.thread # next.thread
                 => box'.gen > box.gen /\ DOMAIN box'.blocks = {}
           /\ ran.allow # Box!AllowImages \/ Box!AllowImages # next.allow => box'.gen > box.gen
           /\ ~next.allow => ~Box!HasImage(box'.blocks)
<1> DEFINE mid == Box!After(box, ran, Box!Rendered)
<1>1. DOMAIN box = {"text", "blocks", "gen"} /\ box.gen \in Nat
  BY DEF BoxInv, BoxTypes, Box!TypeOK
<1>2. Box!Rendered.thread = chat.thread /\ Box!Rendered.allow = Box!AllowImages
  BY DEF Box!Rendered
<1>3. /\ DOMAIN mid = DOMAIN box /\ mid.text = box.text /\ mid.gen \in Nat /\ mid.gen >= box.gen
      /\ DOMAIN mid.blocks \subseteq DOMAIN box.blocks
      /\ ran.thread # chat.thread => mid.gen > box.gen /\ DOMAIN mid.blocks = {}
      /\ ran.allow # Box!AllowImages => mid.gen > box.gen
  BY <1>1, <1>2, AfterIs
<1>4. box' = Box!After(mid, Box!Rendered, next) /\ ran' = next
  BY DEF Box!RunEffects
<1>5. /\ DOMAIN box' = DOMAIN mid /\ box'.text = mid.text
      /\ box'.gen \in Nat /\ box'.gen >= mid.gen
      /\ DOMAIN box'.blocks \subseteq DOMAIN mid.blocks
      /\ chat.thread # next.thread => box'.gen > mid.gen /\ DOMAIN box'.blocks = {}
      /\ Box!AllowImages # next.allow => box'.gen > mid.gen
      /\ ~next.allow => ~Box!HasImage(box'.blocks)
  <2> HIDE DEF mid
  <2> QED BY <1>1, <1>2, <1>3, <1>4, AfterIs
<1> HIDE DEF mid
<1> QED BY <1>1, <1>3, <1>4, <1>5

\* The effects: what is in the box afterwards is for the thread they have run for.
LEMMA BoxEffects ==
    ASSUME BoxInv, NEW thread \in PageThreads, NEW allow \in BOOLEAN,
           Box!RunEffects([thread |-> thread, allow |-> allow]),
           chat' = [chat EXCEPT !.thread = thread],
           thread = chat.thread \/ ~chat.busy,
           UNCHANGED <<reads, sent>>, asked' \in 0..1, ModelsTyped'
    PROVE  BoxInv'
<1>1. /\ ran' = [thread |-> thread, allow |-> allow]
      /\ DOMAIN box' = DOMAIN box /\ box'.text = box.text
      /\ box'.gen \in Nat /\ box'.gen >= box.gen
      /\ DOMAIN box'.blocks \subseteq DOMAIN box.blocks
      /\ ran.thread # chat.thread \/ chat.thread # thread
            => box'.gen > box.gen /\ DOMAIN box'.blocks = {}
  BY BothEffects
<1>2. chat'.thread = thread /\ chat'.busy = chat.busy /\ chat'.stream = chat.stream
      /\ chat' \in [thread : PageThreads, stream : PageThreads, busy : BOOLEAN]
  BY DEF BoxInv, BoxTypes, Box!TypeOK, PageThreads
<1>3. BoxHolds'
  <2>1. CASE ran.thread = chat.thread /\ chat.thread = thread
    <3>1. ran'.thread = chat'.thread /\ chat'.thread = chat.thread
      BY <1>1, <1>2, <2>1
    <3>2. \A i \in DOMAIN reads : reads[i].gen <= box'.gen
                                  /\ (reads[i].gen = box'.gen => reads[i].gen = box.gen)
      BY <1>1 DEF BoxInv, BoxTypes, ReadTypes, BoxHolds, Box!TypeOK
    <3> QED BY <1>1, <2>1, <3>1, <3>2 DEF BoxInv, BoxHolds, EffectsLag, Fits, Box!SentWhereAdded
  <2>2. CASE ran.thread # chat.thread \/ chat.thread # thread
    <3>1. box'.gen > box.gen /\ DOMAIN box'.blocks = {}
      BY <1>1, <2>2
    <3>2. \A i \in DOMAIN reads : reads[i].gen < box'.gen
      BY <1>1, <3>1 DEF BoxInv, BoxTypes, ReadTypes, BoxHolds, Box!TypeOK
    <3> QED BY <1>1, <1>2, <3>1, <3>2 DEF BoxInv, BoxTypes, ReadTypes, BoxHolds, EffectsLag, Fits,
               Box!SentWhereAdded
  <2> QED BY <2>1, <2>2
<1> QED BY <1>1, <1>2, <1>3, SendButtonOK DEF BoxInv, BoxTypes, Box!TypeOK, ReadTypes,
           ModelsTyped, PageThreads, Box!SendButton, Box!CanSend, Box!Empty, Box!ThreadLoading,
           Box!Preview, Box!IsImage

\* A list of models: the one the user chose while it is offered.
LEMMA ModelsListed ==
    ASSUME PagesAssumption, BoxInv, Box!ModelsAnswer
    PROVE  ModelsTyped' /\ asked' \in 0..1
<1>1. PICK l \in Lists :
        models' = [models EXCEPT !.listed = l.models, !.chosen = Box!Selected(l)]
  BY DEF Box!ModelsAnswer
<1>2. l.models \subseteq Models /\ l.current \in l.models
  BY DEF PagesAssumption, ConstantsOK
<1>3. models.stored \in Models \cup {"none"} /\ DOMAIN models = {"listed", "chosen", "stored"}
  BY DEF BoxInv, BoxTypes, Box!TypeOK
<1>4. models' = [listed |-> l.models, chosen |-> Box!Selected(l), stored |-> models.stored]
  BY <1>1, <1>3 DEF BoxInv, BoxTypes, Box!TypeOK
<1>5. asked' \in 0..1
  <2>1. asked \in 0..1
    BY DEF BoxInv, BoxTypes, Box!TypeOK
  <2>2. asked > 0 /\ asked' = asked - 1
    BY DEF Box!ModelsAnswer
  <2> QED BY <2>1, <2>2
<1> QED BY <1>2, <1>3, <1>4, <1>5 DEF Box!Selected, ModelsTyped

LEMMA BoxSwitches ==
    ASSUME PagesAssumption, BoxInv,
           Box!Effects \/ Box!ModelsAnswer \/ (\E m \in Models : Box!ChangeModel(m))
           \/ \E t \in PageThreads : Box!SwitchThread(t)
    PROVE  BoxInv'
<1>1. /\ chat.thread \in PageThreads /\ chat = [chat EXCEPT !.thread = chat.thread]
      /\ ModelsTyped /\ Box!AllowImages \in BOOLEAN /\ asked \in 0..1
      /\ Box!Rendered = [thread |-> chat.thread, allow |-> Box!AllowImages]
  BY DEF BoxInv, BoxTypes, Box!TypeOK, PageThreads, ModelsTyped, Box!AllowImages, Box!Rendered
<1>2. CASE Box!Effects
  BY <1>1, <1>2, BoxEffects DEF Box!Effects, ModelsTyped
<1>3. CASE Box!ModelsAnswer
  <2>1. Box!RunEffects([thread |-> chat.thread, allow |-> Box!AllowImages])
        /\ UNCHANGED <<chat, reads, sent>>
    BY <1>1, <1>3 DEF Box!ModelsAnswer
  <2> QED BY <1>1, <1>3, <2>1, ModelsListed, BoxEffects
<1>4. ASSUME NEW m \in Models, Box!ChangeModel(m) PROVE BoxInv'
  <2>1. ModelsTyped'
    BY <1>1, <1>4 DEF Box!ChangeModel, Box!OtherModels, ModelsTyped
  <2>2. Box!RunEffects([Box!Rendered EXCEPT !.allow = m \in Vision]) /\ chat' = chat
        /\ UNCHANGED <<reads, asked, sent>>
    BY <1>4 DEF Box!ChangeModel
  <2>3. \E allow \in BOOLEAN : Box!RunEffects([thread |-> chat.thread, allow |-> allow])
    <3>1. (m \in Vision) \in BOOLEAN
      OBVIOUS
    <3>2. [Box!Rendered EXCEPT !.allow = m \in Vision]
             = [thread |-> chat.thread, allow |-> (m \in Vision)]
      BY <1>1
    <3> QED BY <2>2, <3>1, <3>2
  <2> QED BY <1>1, <2>1, <2>2, <2>3, BoxEffects
<1>5. ASSUME NEW t \in PageThreads, Box!SwitchThread(t) PROVE BoxInv'
  <2>1. [Box!Rendered EXCEPT !.thread = t] = [thread |-> t, allow |-> Box!AllowImages]
    BY <1>1
  <2> QED BY <1>1, <1>5, <2>1, BoxEffects DEF Box!SwitchThread, Box!CanSwitch, ModelsTyped
<1> QED BY <1>2, <1>3, <1>4, <1>5

\* A message takes what is in the box.
LEMMA BoxSubmits == PagesAssumption /\ BoxInv /\ Box!Submit => BoxInv'
<1> SUFFICES ASSUME PagesAssumption, BoxInv, Box!Submit PROVE BoxInv'
  OBVIOUS
<1>1. CASE Box!Refused
  <2>1. UNCHANGED <<models, chat, ran, reads, asked, sent>>
        /\ box' = [box EXCEPT !.blocks = Box!WithoutImages(box.blocks)]
    BY <1>1 DEF Box!Submit
  <2>2. DOMAIN box'.blocks \subseteq DOMAIN box.blocks /\ DOMAIN box' = DOMAIN box
        /\ box'.text = box.text /\ box'.gen = box.gen
    BY <2>1 DEF Box!WithoutImages, BoxInv, BoxTypes
  <2> QED BY <2>1, <2>2, BoxFilled DEF BoxInv, BoxTypes, ReadTypes
<1>2. CASE ~Box!Refused
  <2> DEFINE message == [thread |-> chat.thread, model |-> models.chosen, blocks |-> box.blocks]
  <2>1. /\ sent' = Append(sent, message) /\ chat' = [chat EXCEPT !.busy = TRUE]
        /\ box' = [box EXCEPT !.text = FALSE, !.blocks = Box!EmptyBag, !.gen = @ + 1]
        /\ UNCHANGED <<models, ran, reads, asked>> /\ ~chat.busy
    BY <1>2 DEF Box!Submit, Box!CanSend
  <2>2. PICK S : sent \in Seq(S)
    BY DEF BoxInv, BoxTypes
  <2>3. sent \in Seq(S \cup {message}) /\ sent' \in Seq(S \cup {message})
    BY <2>1, <2>2
  <2>4. /\ DOMAIN sent' = 1..Len(sent) + 1 /\ DOMAIN sent = 1..Len(sent) /\ Len(sent) \in Nat
        /\ sent'[Len(sent) + 1] = message /\ \A i \in DOMAIN sent : sent'[i] = sent[i]
    BY <2>1, <2>3
  <2>5. \A b \in DOMAIN box.blocks : b.thread = chat.thread /\ b.turn = Len(sent)
    BY <2>1 DEF BoxInv, BoxHolds, EffectsLag, Fits
  <2>6. Box!SentWhereAdded'
    <3> SUFFICES ASSUME NEW i \in DOMAIN sent', NEW b \in DOMAIN sent'[i].blocks
                 PROVE  b.thread = sent'[i].thread /\ b.turn = i - 1
      BY DEF Box!SentWhereAdded
    <3>1. CASE i = Len(sent) + 1
      BY <2>4, <2>5, <3>1
    <3>2. CASE i # Len(sent) + 1
      BY <2>4, <3>2 DEF BoxInv, BoxHolds, Box!SentWhereAdded
    <3> QED BY <3>1, <3>2
  <2>7. DOMAIN box'.blocks = {} /\ box'.gen = box.gen + 1 /\ DOMAIN box' = DOMAIN box /\ box'.text = FALSE
    BY <2>1 DEF Box!EmptyBag, Box!SetToBag, BoxInv, BoxTypes
  <2>8. \A i \in DOMAIN reads : reads[i].gen < box'.gen
    BY <2>7 DEF BoxInv, BoxTypes, ReadTypes, BoxHolds, Box!TypeOK
  <2>9. chat'.thread = chat.thread /\ chat'.busy = TRUE
    BY <2>1 DEF BoxInv, BoxTypes, Box!TypeOK
  <2>10. BoxHolds'
    BY <2>1, <2>6, <2>7, <2>8, <2>9 DEF BoxInv, BoxTypes, BoxHolds, EffectsLag, Fits, ReadTypes, Box!TypeOK
  <2>11. Box!TypeOK'
    <3>1. (Box!SendButton \in {"stop", "send", "disabled"} /\ (Box!SendButton = "send" => ~Box!Empty))'
      BY DEF Box!SendButton, Box!CanSend
    <3>2. chat' \in [thread : PageThreads, stream : PageThreads, busy : BOOLEAN]
      BY <2>1 DEF BoxInv, BoxTypes, Box!TypeOK, PageThreads
    <3> QED BY <2>1, <2>7, <3>1, <3>2 DEF BoxInv, BoxTypes, Box!TypeOK, PageThreads
  <2> QED BY <2>1, <2>3, <2>7, <2>10, <2>11 DEF BoxInv, BoxTypes, ReadTypes
<1> QED BY <1>1, <1>2

\* The stream loads a thread, creates one, and ends a run.
LEMMA BoxStreams ==
    ASSUME PagesAssumption, BoxInv,
           Box!Hydrated \/ Box!RunEnds \/ \E t \in Threads : Box!ThreadCreated(t)
    PROVE  BoxInv'
<1>1. UNCHANGED <<models, box, ran, reads, asked, sent>>
  BY DEF Box!Hydrated, Box!RunEnds, Box!ThreadCreated
<1>2. chat' \in [thread : PageThreads, stream : PageThreads, busy : BOOLEAN]
  <2>1. chat \in [thread : PageThreads, stream : PageThreads, busy : BOOLEAN]
    BY DEF BoxInv, BoxTypes, Box!TypeOK, PageThreads
  <2>2. CASE Box!Hydrated \/ Box!RunEnds
    BY <2>1, <2>2 DEF Box!Hydrated, Box!RunEnds
  <2>3. ASSUME NEW t \in Threads, Box!ThreadCreated(t)
        PROVE  chat' \in [thread : PageThreads, stream : PageThreads, busy : BOOLEAN]
    BY <2>1, <2>3 DEF Box!ThreadCreated, PageThreads
  <2> QED BY <2>2, <2>3
<1>3. EffectsLag' /\ (ran.thread = chat'.thread => ran.thread = chat.thread /\ chat'.thread = chat.thread)
  <2>1. CASE Box!Hydrated \/ Box!RunEnds
    BY <1>1, <2>1 DEF Box!Hydrated, Box!RunEnds, BoxInv, BoxTypes, BoxHolds, EffectsLag, Box!TypeOK
  <2>2. ASSUME NEW t \in Threads, Box!ThreadCreated(t)
        PROVE  /\ EffectsLag'
               /\ ran.thread = chat'.thread => ran.thread = chat.thread /\ chat'.thread = chat.thread
    BY <1>1, <2>2 DEF Box!ThreadCreated, PagesAssumption, ConstantsOK, BoxInv, BoxTypes, BoxHolds, EffectsLag, Box!TypeOK
  <2> QED BY <2>1, <2>2
<1>4. BoxHolds'
  BY <1>1, <1>3 DEF BoxInv, BoxHolds, Fits, Box!SentWhereAdded
<1> QED BY <1>1, <1>2, <1>4, SendButtonOK DEF BoxInv, BoxTypes, Box!TypeOK, ReadTypes, PageThreads,
           Box!SendButton, Box!CanSend, Box!Empty, Box!ThreadLoading, Box!Preview, Box!IsImage

LEMMA BoxKept == PagesAssumption /\ BoxInv /\ (Box!Next \/ UNCHANGED composer) => BoxInv'
<1> SUFFICES ASSUME PagesAssumption, BoxInv, Box!Next \/ UNCHANGED composer PROVE BoxInv'
  OBVIOUS
<1>1. ASSUME NEW pick \in Picks, Box!HandleFileUpload(pick) \/ Box!PasteOrDrop(pick) PROVE BoxInv'
  BY <1>1, BoxPicks DEF Box!HandleFileUpload, Box!PasteOrDrop
<1> QED BY <1>1, BoxBeside, BoxReads, BoxRemoves, BoxSwitches, BoxSubmits, BoxStreams
        DEF Box!Next, PageThreads

\* Pictures: with a model without them the box holds none and none is being read for it, once
\* the effects have run for that model and while no other is chosen.
Plain ==
    ~ran.allow /\ ~Box!AllowImages =>
        /\ ~Box!HasImage(box.blocks)
        /\ \A i \in DOMAIN reads : reads[i].gen = box.gen =>
              \A f \in reads[i].files : f.mime \notin Box!SupportedImages

LEMMA PlainInitially == PagesAssumption /\ Box!Init => Plain
BY DEF PagesAssumption, ConstantsOK, Box!Init, Plain, Box!HasImage, Box!EmptyBag, Box!SetToBag, Box!NoRead

\* Fewer blocks, fewer reads or a later generation.
LEMMA PlainGoesOn ==
    ASSUME BoxInv, Plain, UNCHANGED <<models, ran>>, DOMAIN reads' = DOMAIN reads,
           DOMAIN box'.blocks \subseteq DOMAIN box.blocks, box'.gen \in {box.gen, box.gen + 1},
           \A i \in DOMAIN reads : reads'[i] \in {reads[i], Box!NoRead}
    PROVE  Plain'
<1>1. \A i \in DOMAIN reads : reads[i].gen \in Nat /\ reads[i].gen <= box.gen /\ box.gen \in Nat
  BY DEF BoxInv, BoxTypes, ReadTypes, BoxHolds, Box!TypeOK
<1>2. \A i \in DOMAIN reads' : reads'[i].gen = box'.gen =>
          reads'[i].files = {} \/ (reads'[i] = reads[i] /\ reads[i].gen = box.gen)
  BY <1>1 DEF Box!NoRead
<1> QED BY <1>2 DEF Plain, Box!HasImage, Box!AllowImages

\* The effects take the pictures out, and leave no read of another model's time current.
LEMMA PlainAfter ==
    ASSUME BoxInv, Plain, NEW next, Box!RunEffects(next), next.allow \in BOOLEAN,
           Box!AllowImages \in BOOLEAN, ran.allow \in BOOLEAN, UNCHANGED reads
    PROVE  Plain'
<1> SUFFICES ASSUME ~ran'.allow PROVE Plain'
  BY DEF Plain
<1>1. /\ ran' = next /\ box'.gen \in Nat /\ box'.gen >= box.gen
      /\ ran.allow # Box!AllowImages \/ Box!AllowImages # next.allow => box'.gen > box.gen
      /\ ~next.allow => ~Box!HasImage(box'.blocks)
  BY BothEffects
<1>2. \A i \in DOMAIN reads : reads[i].gen \in Nat /\ reads[i].gen <= box.gen /\ box.gen \in Nat
  BY DEF BoxInv, BoxTypes, ReadTypes, BoxHolds, Box!TypeOK
<1>3. CASE ran.allow # Box!AllowImages \/ Box!AllowImages # next.allow
  <2>1. \A i \in DOMAIN reads : reads[i].gen # box'.gen
    BY <1>1, <1>2, <1>3
  <2> QED BY <1>1, <2>1 DEF Plain
<1>4. CASE ran.allow = Box!AllowImages /\ Box!AllowImages = next.allow
  <2>1. ~ran.allow /\ ~Box!AllowImages
    BY <1>1, <1>4
  <2>2. \A i \in DOMAIN reads : reads[i].gen = box'.gen => reads[i].gen = box.gen
    BY <1>1, <1>2
  <2> QED BY <1>1, <2>1, <2>2 DEF Plain
<1> QED BY <1>3, <1>4

LEMMA PlainKept == PagesAssumption /\ BoxInv /\ Plain /\ (Box!Next \/ UNCHANGED composer) => Plain'
<1> SUFFICES ASSUME PagesAssumption, BoxInv, Plain, Box!Next \/ UNCHANGED composer PROVE Plain'
  OBVIOUS
<1>1. /\ Box!AllowImages \in BOOLEAN /\ ran.allow \in BOOLEAN /\ DOMAIN box = {"text", "blocks", "gen"}
      /\ Box!Rendered.allow = Box!AllowImages /\ DOMAIN Box!Rendered = {"thread", "allow"}
      /\ DOMAIN reads = 1..Bound.composer.reads
  BY DEF BoxInv, BoxTypes, ReadTypes, Box!TypeOK, Box!AllowImages, Box!Rendered
<1>2. CASE Box!TokenRefreshed \/ Box!ModelsFail \/ Box!Write \/ Box!Hydrated \/ Box!RunEnds
           \/ (\E pick \in Picks : Box!UploadKnowledgeDocument(pick)) \/ Box!KnowledgeAnswer
           \/ Box!KnowledgeFails \/ (\E t \in Threads : Box!ThreadCreated(t)) \/ UNCHANGED composer
  <2>1. UNCHANGED <<models, ran, reads>> /\ box'.blocks = box.blocks /\ box'.gen = box.gen
    BY <1>1, <1>2 DEF Box!TokenRefreshed, Box!ModelsFail, Box!Write, Box!Hydrated, Box!RunEnds,
       Box!UploadKnowledgeDocument, Box!KnowledgeAnswer, Box!KnowledgeFails, Box!ThreadCreated, composer
  <2> QED BY <2>1, PlainGoesOn
<1>3. CASE Box!Effects \/ Box!ModelsAnswer
  BY <1>1, <1>3, PlainAfter DEF Box!Effects, Box!ModelsAnswer
<1>4. ASSUME NEW m \in Models, Box!ChangeModel(m) PROVE Plain'
  <2> DEFINE next == [Box!Rendered EXCEPT !.allow = m \in Vision]
  <2>1. next.allow \in BOOLEAN
    BY <1>1
  <2>2. Box!RunEffects(next) /\ UNCHANGED reads
    BY <1>4 DEF Box!ChangeModel
  <2> QED BY <1>1, <2>1, <2>2, PlainAfter
<1>5. ASSUME NEW t, Box!SwitchThread(t) PROVE Plain'
  <2> DEFINE next == [Box!Rendered EXCEPT !.thread = t]
  <2>1. next.allow \in BOOLEAN
    BY <1>1
  <2>2. Box!RunEffects(next) /\ UNCHANGED reads
    BY <1>5 DEF Box!SwitchThread
  <2> QED BY <1>1, <2>1, <2>2, PlainAfter
<1>6. ASSUME NEW pick, Box!HandleFileUpload(pick) \/ Box!PasteOrDrop(pick) PROVE Plain'
  <2>1. UNCHANGED <<models, box, ran>> /\ \E input : Box!AddFiles(pick, input)
    BY <1>6 DEF Box!HandleFileUpload, Box!PasteOrDrop
  <2> DEFINE unique == {f \in pick : Box!SupportedUpload(f, Box!AllowImages)
                                     /\ ~Box!Duplicate(f, box.blocks)}
             new(input) == [files |-> unique, gen |-> box.gen, input |-> input,
                            thread |-> chat.thread, turn |-> Len(sent)]
  <2>0. PICK x : Box!AddFiles(pick, x)
    BY <2>1
  <2>2. PICK i \in 1..Bound.composer.reads : reads' = [reads EXCEPT ![i] = new(x)]
    BY <2>0 DEF Box!AddFiles, Box!Free
  <2>3. \A k \in DOMAIN reads' : k \in DOMAIN reads /\
            (reads'[k] = reads[k] \/ \A f \in reads'[k].files : Box!SupportedUpload(f, Box!AllowImages))
    BY <1>1, <2>2
  <2>4. ~Box!AllowImages => \A f : Box!SupportedUpload(f, Box!AllowImages) => f.mime \notin Box!SupportedImages
    BY DEF Box!SupportedUpload, Box!SeemsImage
  <2> QED BY <2>1, <2>3, <2>4 DEF Plain, Box!AllowImages
<1>7. ASSUME NEW i \in 1..Bound.composer.reads, Box!ReadFails(i) PROVE Plain'
  BY <1>1, <1>7, PlainGoesOn DEF Box!ReadFails
<1>8. ASSUME NEW i \in 1..Bound.composer.reads, NEW smaller \in BOOLEAN, Box!ReadDone(i, smaller)
      PROVE  Plain'
  <2> DEFINE rd == reads[i]
             new == {Box!BlockOf(f, smaller, rd.thread, rd.turn) : f \in rd.files}
  <2>1. /\ reads' = [reads EXCEPT ![i] = Box!NoRead] /\ UNCHANGED <<models, ran>>
        /\ box' = IF rd.gen = box.gen THEN [box EXCEPT !.blocks = Box!(+)(@, Box!SetToBag(new))] ELSE box
    BY <1>8 DEF Box!ReadDone
  <2>2. DOMAIN reads' = DOMAIN reads /\ \A k \in DOMAIN reads : reads'[k] \in {reads[k], Box!NoRead}
    BY <1>1, <2>1
  <2>3. CASE rd.gen # box.gen
    BY <2>1, <2>2, <2>3, PlainGoesOn
  <2>4. CASE rd.gen = box.gen
    <3> SUFFICES ASSUME ~ran.allow, ~Box!AllowImages PROVE Plain'
      BY <2>1 DEF Plain, Box!AllowImages
    <3>1. DOMAIN box'.blocks = DOMAIN box.blocks \cup new /\ box'.gen = box.gen
      BY <1>1, <2>1, <2>4 DEF Box!(+), Box!SetToBag
    <3>2. \A f \in rd.files : f.mime \notin Box!SupportedImages
      BY <1>1, <2>4 DEF Plain
    <3>3. \A b \in new : ~Box!IsImage(b)
      BY <3>2 DEF Box!BlockOf, Box!IsImage
    <3>4. ~Box!HasImage(box'.blocks)
      BY <3>1, <3>3 DEF Plain, Box!HasImage
    <3> HIDE DEF new
    <3> QED BY <2>2, <3>1, <3>4 DEF Plain, Box!NoRead
  <2> QED BY <2>3, <2>4
<1>9. ASSUME NEW block, Box!RemoveBlock(block) PROVE Plain'
  <2>1. DOMAIN box'.blocks \subseteq DOMAIN box.blocks /\ box'.gen = box.gen
        /\ UNCHANGED <<models, ran, reads>>
    BY <1>1, <1>9 DEF Box!RemoveBlock, Box!(-), Box!SetToBag
  <2> QED BY <2>1, PlainGoesOn
<1>10. CASE Box!Submit
  <2>1. UNCHANGED <<models, ran, reads>> /\ box'.gen \in {box.gen, box.gen + 1}
        /\ DOMAIN box'.blocks \subseteq DOMAIN box.blocks
    <3>1. box' = [box EXCEPT !.blocks = Box!WithoutImages(@)]
          \/ box' = [box EXCEPT !.text = FALSE, !.blocks = Box!EmptyBag, !.gen = @ + 1]
      BY <1>10 DEF Box!Submit
    <3>2. DOMAIN Box!WithoutImages(box.blocks) \subseteq DOMAIN box.blocks
          /\ DOMAIN Box!EmptyBag = {}
      BY DEF Box!WithoutImages, Box!EmptyBag, Box!SetToBag
    <3>3. box'.gen \in {box.gen, box.gen + 1}
          /\ box'.blocks \in {Box!WithoutImages(box.blocks), Box!EmptyBag}
      BY <1>1, <3>1
    <3> QED BY <1>10, <3>2, <3>3 DEF Box!Submit
  <2> QED BY <2>1, PlainGoesOn
<1> QED BY <1>2, <1>3, <1>4, <1>5, <1>6, <1>7, <1>8, <1>9, <1>10 DEF Box!Next

LEMMA PlainFits == BoxInv /\ Plain => Box!BoxFitsModel
BY DEF Plain, Box!BoxFitsModel, Box!Refused, Box!Rendered

-----------------------------------------------------------------------------
(* The messages of a conversation. *)

Message == [type : {"human", "ai", "tool"}, text : BOOLEAN, tools : SUBSET Tools,
            turn : Nat, hidden : BOOLEAN]

Caller(m) == m.type = "ai" /\ m.tools # {}

\* An answer without calls at k has come when every call before it had its result.
SettledAt(ms, k) ==
    \A c \in 1..k :
        Caller(ms[c]) /\ (\A d \in c + 1..k : ~Caller(ms[d]))
          => \A t \in ms[c].tools : \E n \in 1..k : ms[n].turn = c /\ t \in ms[n].tools

\* If a result follows the calls at i, there is one for these calls, and only hidden
\* results stand between them.
AnsweredAt(ms, i) ==
    i \in DOMAIN ms /\ i + 1 \in DOMAIN ms /\ Caller(ms[i]) /\ ms[i + 1].type = "tool"
      => \E k \in i + 1..Len(ms) : /\ ms[k].type = "tool" /\ ms[k].turn = i
                                   /\ \A n \in i + 1..k - 1 : ms[n].hidden

WellFormed(ms) ==
    /\ ms \in Seq(Message)
    /\ \A i \in DOMAIN ms : ms[i].turn < i /\ (ms[i].hidden => ms[i].type = "tool")
    /\ \A k \in DOMAIN ms : ms[k].type = "ai" /\ ms[k].tools = {} => SettledAt(ms, k)
    /\ \A i \in DOMAIN ms : AnsweredAt(ms, i)

\* A conversation goes on.
LEMMA Extended ==
    ASSUME NEW ms, WellFormed(ms), NEW ns \in Seq(Message), Len(ms) <= Len(ns),
           \A i \in 1..Len(ms) : ns[i] = ms[i],
           \A i \in Len(ms) + 1..Len(ns) :
              /\ ns[i].turn < i /\ (ns[i].hidden => ns[i].type = "tool")
              /\ ~Caller(ns[i]) /\ (ns[i].type = "ai" => SettledAt(ns, i)),
           AnsweredAt(ns, Len(ms))
    PROVE  WellFormed(ns)
<1>1. /\ ms \in Seq(Message) /\ Len(ms) \in Nat /\ Len(ns) \in Nat
      /\ DOMAIN ms = 1..Len(ms) /\ DOMAIN ns = 1..Len(ns)
  BY DEF WellFormed
<1>2. \A i \in DOMAIN ns : ns[i].turn < i /\ (ns[i].hidden => ns[i].type = "tool")
  BY <1>1 DEF WellFormed
<1>3. ASSUME NEW k \in DOMAIN ns, ns[k].type = "ai", ns[k].tools = {} PROVE SettledAt(ns, k)
  <2>1. CASE k \in 1..Len(ms)
    <3>1. SettledAt(ms, k)
      BY <1>1, <1>3, <2>1 DEF WellFormed
    <3>2. \A c \in 1..k : ns[c] = ms[c]
      BY <1>1, <2>1
    <3> QED BY <1>1, <2>1, <3>1, <3>2 DEF SettledAt, Caller
  <2>2. CASE k \notin 1..Len(ms)
    BY <1>1, <1>3, <2>2
  <2> QED BY <2>1, <2>2
<1>4. ASSUME NEW i \in DOMAIN ns PROVE AnsweredAt(ns, i)
  <2>1. CASE i < Len(ms)
    <3>1. AnsweredAt(ms, i) /\ i \in DOMAIN ms /\ i + 1 \in DOMAIN ms
          /\ ns[i] = ms[i] /\ ns[i + 1] = ms[i + 1]
      BY <1>1, <2>1 DEF WellFormed
    <3>2. ASSUME Caller(ns[i]), ns[i + 1].type = "tool"
          PROVE  \E k \in i + 1..Len(ns) : /\ ns[k].type = "tool" /\ ns[k].turn = i
                                           /\ \A n \in i + 1..k - 1 : ns[n].hidden
      <4>1. PICK k \in i + 1..Len(ms) : /\ ms[k].type = "tool" /\ ms[k].turn = i
                                        /\ \A n \in i + 1..k - 1 : ms[n].hidden
        BY <3>1, <3>2 DEF AnsweredAt
      <4>2. k \in 1..Len(ms) /\ \A n \in i + 1..k - 1 : n \in 1..Len(ms)
        BY <1>1, <4>1
      <4> QED BY <1>1, <4>1, <4>2
    <3> QED BY <3>2 DEF AnsweredAt
  <2>2. CASE i = Len(ms)
    BY <2>2
  <2>3. CASE i > Len(ms)
    BY <1>1, <2>3 DEF AnsweredAt
  <2> QED BY <1>1, <2>1, <2>2, <2>3
<1> QED BY <1>2, <1>3, <1>4 DEF WellFormed

\* The beginning of a sequence.
LEMMA Cut ==
    ASSUME NEW S, NEW ms \in Seq(S), NEW last \in 0..Len(ms)
    PROVE  LET ns == SubSeq(ms, 1, last)
           IN /\ ns \in Seq(S) /\ Len(ns) = last /\ DOMAIN ns = 1..last
              /\ \A i \in 1..last : ns[i] = ms[i] /\ i \in 1..Len(ms)
<1>1. Len(ms) \in Nat /\ last \in Nat /\ last <= Len(ms)
  OBVIOUS
<1>2. SubSeq(ms, 1, last) \in Seq(S) /\ Len(SubSeq(ms, 1, last)) = last
  BY <1>1
<1>3. \A i \in 1..last : i \in 1..Len(ms)
  BY <1>1
<1>4. \A i \in 1..last : SubSeq(ms, 1, last)[i] = ms[i]
  BY <1>1
<1> QED BY <1>1, <1>2, <1>3, <1>4

\* A conversation is cut off at a message that is seen, or before one of no tool.
LEMMA CutOff ==
    ASSUME NEW ms, WellFormed(ms), NEW ns \in Seq(Message), Len(ns) <= Len(ms),
           \A i \in 1..Len(ns) : ns[i] = ms[i],
           \/ Len(ns) = 0 \/ Len(ns) = Len(ms)
           \/ ~ms[Len(ns)].hidden \/ ms[Len(ns) + 1].type # "tool"
    PROVE  WellFormed(ns)
<1>1. /\ ms \in Seq(Message) /\ Len(ms) \in Nat /\ DOMAIN ms = 1..Len(ms)
      /\ Len(ns) \in Nat
  BY DEF WellFormed
<1>2. /\ DOMAIN ns = 1..Len(ns) /\ \A i \in 1..Len(ns) : ns[i] = ms[i] /\ i \in 1..Len(ms)
      /\ \A k \in DOMAIN ns : k \in 1..Len(ms) /\ \A c \in 1..k : c \in 1..Len(ns)
  <2>1. DOMAIN ns = 1..Len(ns)
    OBVIOUS
  <2>2. \A i \in 1..Len(ns) : i \in 1..Len(ms) /\ \A c \in 1..i : c \in 1..Len(ns)
    BY <1>1
  <2> QED BY <2>1, <2>2
<1>3. \A i \in DOMAIN ns : ns[i].turn < i /\ (ns[i].hidden => ns[i].type = "tool")
  BY <1>1, <1>2 DEF WellFormed
<1>4. ASSUME NEW k \in DOMAIN ns, ns[k].type = "ai", ns[k].tools = {} PROVE SettledAt(ns, k)
  <2>1. k \in 1..Len(ms) /\ \A c \in 1..k : c \in 1..Len(ns)
    BY <1>2
  <2>2. SettledAt(ms, k) /\ \A c \in 1..k : ns[c] = ms[c]
    BY <1>1, <1>2, <1>4, <2>1 DEF WellFormed
  <2>3. \A c \in 1..k : \A d \in c + 1..k : d \in 1..k
    BY <1>1, <2>1
  <2> QED BY <2>2, <2>3 DEF SettledAt, Caller
<1>5. ASSUME NEW i \in DOMAIN ns, i + 1 \in DOMAIN ns, Caller(ns[i]), ns[i + 1].type = "tool"
      PROVE  \E k \in i + 1..Len(ns) : /\ ns[k].type = "tool" /\ ns[k].turn = i
                                       /\ \A j \in i + 1..k - 1 : ns[j].hidden
  <2>1. i \in 1..Len(ms) /\ i + 1 \in 1..Len(ms) /\ ns[i] = ms[i] /\ ns[i + 1] = ms[i + 1]
    BY <1>2, <1>5
  <2>2. AnsweredAt(ms, i)
    BY <1>1, <2>1 DEF WellFormed
  <2>3. PICK k \in i + 1..Len(ms) : /\ ms[k].type = "tool" /\ ms[k].turn = i
                                    /\ \A j \in i + 1..k - 1 : ms[j].hidden
    BY <1>1, <1>5, <2>1, <2>2 DEF AnsweredAt
  <2>4. i \in Nat /\ k \in Nat /\ i + 1 <= Len(ns)
    <3>1. i \in 1..Len(ns) /\ i + 1 \in 1..Len(ns)
      BY <1>2, <1>5
    <3> QED BY <1>1, <2>3, <3>1
  <2>5. k <= Len(ns)
    <3> SUFFICES ASSUME k > Len(ns) PROVE FALSE
      BY <1>1, <2>4
    <3>1. Len(ns) \in i + 1..k - 1 /\ Len(ns) # 0 /\ Len(ns) # Len(ms)
      BY <1>1, <2>3, <2>4
    <3>2. ms[Len(ns)].hidden
      BY <2>3, <3>1
    <3>3. Len(ns) + 1 = k \/ Len(ns) + 1 \in i + 1..k - 1
      BY <1>1, <2>3, <2>4
    <3>4. Len(ns) + 1 \in 1..Len(ms)
      BY <1>1, <2>3, <2>4
    <3>5. ms[Len(ns) + 1].type = "tool"
      BY <1>1, <2>3, <3>3, <3>4 DEF WellFormed
    <3> QED BY <3>1, <3>2, <3>5
  <2>6. k \in 1..Len(ns) /\ \A j \in i + 1..k - 1 : j \in 1..Len(ns)
    BY <1>1, <2>4, <2>5, <2>3
  <2>7. k \in i + 1..Len(ns)
    BY <2>3, <2>4, <2>5
  <2> QED BY <1>2, <2>3, <2>6, <2>7
<1>6. \A i \in DOMAIN ns : AnsweredAt(ns, i)
  BY <1>5 DEF AnsweredAt
<1> QED BY <1>2, <1>3, <1>4, <1>6 DEF WellFormed

\* Messages that are no answers are added at the end.
LEMMA Added ==
    ASSUME NEW ms, WellFormed(ms), NEW more \in Seq(Message),
           \A k \in DOMAIN more : /\ more[k].turn <= Len(ms) /\ more[k].type # "ai"
                                  /\ more[k].hidden => more[k].type = "tool",
           ms # <<>> /\ Caller(ms[Len(ms)]) /\ more # <<>> /\ more[1].type = "tool"
             => \E k \in DOMAIN more : /\ more[k].type = "tool" /\ more[k].turn = Len(ms)
                                       /\ \A j \in 1..k - 1 : more[j].hidden
    PROVE  WellFormed(ms \o more)
<1> DEFINE ns == ms \o more
<1>1. /\ ms \in Seq(Message) /\ Len(ms) \in Nat /\ DOMAIN ms = 1..Len(ms)
      /\ Len(more) \in Nat /\ DOMAIN more = 1..Len(more)
  BY DEF WellFormed
<1>2. /\ ns \in Seq(Message) /\ Len(ns) = Len(ms) + Len(more)
      /\ \A i \in 1..Len(ms) : ns[i] = ms[i]
      /\ \A k \in 1..Len(more) : ns[Len(ms) + k] = more[k]
  BY <1>1
<1> HIDE DEF ns
<1>3. \A k \in 1..Len(more) : more[k] \in Message
  BY <1>1
<1>4. ASSUME NEW i \in Len(ms) + 1..Len(ns)
      PROVE  /\ ns[i].turn < i /\ (ns[i].hidden => ns[i].type = "tool") /\ ns[i].type # "ai"
  <2>1. PICK k \in 1..Len(more) : i = Len(ms) + k
    <3>1. i - Len(ms) \in 1..Len(more) /\ i = Len(ms) + (i - Len(ms))
      BY <1>1, <1>2
    <3> QED BY <3>1
  <2>2. ns[i] = more[k] /\ more[k].turn \in Nat
    BY <1>2, <1>3, <2>1 DEF Message
  <2> QED BY <1>1, <2>1, <2>2
<1>5. AnsweredAt(ns, Len(ms))
  <2> SUFFICES ASSUME Len(ms) \in DOMAIN ns, Len(ms) + 1 \in DOMAIN ns,
                      Caller(ns[Len(ms)]), ns[Len(ms) + 1].type = "tool"
               PROVE  \E k \in Len(ms) + 1..Len(ns) :
                         /\ ns[k].type = "tool" /\ ns[k].turn = Len(ms)
                         /\ \A j \in Len(ms) + 1..k - 1 : ns[j].hidden
    BY DEF AnsweredAt
  <2>1. Len(ms) \in 1..Len(ms) /\ 1 \in 1..Len(more)
    BY <1>1, <1>2
  <2>2. ns[Len(ms)] = ms[Len(ms)] /\ ns[Len(ms) + 1] = more[1] /\ ms # <<>> /\ more # <<>>
    BY <1>1, <1>2, <2>1
  <2>3. PICK k \in 1..Len(more) : /\ more[k].type = "tool" /\ more[k].turn = Len(ms)
                                  /\ \A j \in 1..k - 1 : more[j].hidden
    BY <1>1, <2>2
  <2>4. Len(ms) + k \in Len(ms) + 1..Len(ns) /\ ns[Len(ms) + k] = more[k]
    BY <1>1, <1>2
  <2>5. ASSUME NEW j \in Len(ms) + 1..(Len(ms) + k) - 1 PROVE ns[j].hidden
    <3>1. j - Len(ms) \in 1..k - 1 /\ j - Len(ms) \in 1..Len(more) /\ j = Len(ms) + (j - Len(ms))
      BY <1>1
    <3> QED BY <1>2, <2>3, <3>1
  <2> QED BY <2>3, <2>4, <2>5
<1>6. \A i \in Len(ms) + 1..Len(ns) : ~Caller(ns[i])
  BY <1>4 DEF Caller
<1>7. \A i \in Len(ms) + 1..Len(ns) :
         /\ ns[i].turn < i /\ (ns[i].hidden => ns[i].type = "tool")
         /\ ~Caller(ns[i]) /\ (ns[i].type = "ai" => SettledAt(ns, i))
  BY <1>4, <1>6
<1>8. Len(ms) <= Len(ns)
  BY <1>1, <1>2
<1>9. WellFormed(ns)
  BY <1>2, <1>5, <1>7, <1>8, Extended
<1> QED BY <1>9 DEF ns

Views == [hide : BOOLEAN, first : BOOLEAN, loading : BOOLEAN]
States == {"new", "running", "done", "paused", "stopped", "failed", "left"}
Hows == {"none", "submit", "edit", "regenerate", "respond"}
Ways == [state : States, by : Hows, fork : Nat, base : Nat, approved : BOOLEAN,
         due : SUBSET Tools]

ChatTypes ==
    /\ turns \in Seq(Message) /\ stop \subseteq Gated
    /\ shown \in Views /\ run \in Ways
    /\ \A i \in editing : i \in DOMAIN msgs /\ msgs[i].type = "human"

\* The turn is the last message with calls.
LEMMA TurnIs ==
    ASSUME WellFormed(msgs)
    PROVE  /\ Chat!Turn \in 0..Len(msgs)
           /\ Chat!Turn = 0 => \A i \in DOMAIN msgs : ~Caller(msgs[i])
           /\ Chat!Turn # 0 => /\ Chat!Turn \in DOMAIN msgs /\ Caller(msgs[Chat!Turn])
                               /\ \A i \in DOMAIN msgs : Caller(msgs[i]) => i <= Chat!Turn
<1> DEFINE callers == {i \in DOMAIN msgs : msgs[i].type = "ai" /\ msgs[i].tools # {}}
<1>1. msgs \in Seq(Message) /\ Len(msgs) \in Nat /\ DOMAIN msgs = 1..Len(msgs)
  BY DEF WellFormed
<1>2. \A i : i \in callers <=> i \in DOMAIN msgs /\ Caller(msgs[i])
  BY DEF Caller
<1>3. Chat!Turn = IF callers = {} THEN 0 ELSE CHOOSE i \in callers : \A k \in callers : k <= i
  BY DEF Chat!Turn
<1> HIDE DEF callers
<1>4. CASE callers = {}
  BY <1>1, <1>2, <1>3, <1>4
<1>5. CASE callers # {}
  <2>1. \E i \in callers : \A k \in callers : k <= i
    BY <1>1, <1>2, <1>5, Largest
  <2>2. Chat!Turn \in callers /\ \A k \in callers : k <= Chat!Turn
    BY <1>3, <1>5, <2>1
  <2> QED BY <1>1, <1>2, <2>2
<1> QED BY <1>4, <1>5

\* After an answer with calls, they are the turn.
LEMMA TurnAtEnd ==
    ASSUME WellFormed(msgs), msgs # <<>>, Caller(msgs[Len(msgs)])
    PROVE  Chat!Turn = Len(msgs)
<1>1. Len(msgs) \in Nat /\ DOMAIN msgs = 1..Len(msgs) /\ Len(msgs) \in DOMAIN msgs
  BY DEF WellFormed
<1> QED BY <1>1, TurnIs

\* Results of calls, in some order.
LEMMA ResultsAre ==
    ASSUME PagesAssumption, NEW ts \in SUBSET Tools, NEW turn \in Nat, NEW hidden \in BOOLEAN
    PROVE  LET rs == Chat!Results(ts, turn, hidden)
           IN /\ rs \in Seq(Message)
              /\ \A k \in DOMAIN rs : rs[k].type = "tool" /\ rs[k].turn = turn /\ rs[k].hidden = hidden
<1> DEFINE order == Chat!SetToSeq(ts)
<1>1. IsFiniteSet(ts) /\ Cardinality(ts) \in Nat
  BY FS_Subset, FS_CardinalityType DEF PagesAssumption, ConstantsOK
<1>2. order \in [1..Cardinality(ts) -> ts]
  BY <1>1, Ordered DEF Bijection, Injection
<1> HIDE DEF order
<1>3. \A t \in ts : /\ Chat!Result(t, turn, hidden) \in Message
                    /\ Chat!Result(t, turn, hidden).type = "tool"
                    /\ Chat!Result(t, turn, hidden).turn = turn
                    /\ Chat!Result(t, turn, hidden).hidden = hidden
  BY DEF Chat!Result, Message
<1>4. Chat!Results(ts, turn, hidden) = [k \in 1..Cardinality(ts) |-> Chat!Result(order[k], turn, hidden)]
  BY <1>2 DEF Chat!Results, order
<1> QED BY <1>1, <1>2, <1>3, <1>4

\* The results that are added for calls that have none (ensureToolCallsHaveResponses).
LEMMA AnswersAre ==
    ASSUME PagesAssumption, WellFormed(msgs)
    PROVE  /\ Chat!Answers \in Seq(Message)
           /\ \A k \in DOMAIN Chat!Answers :
                 /\ Chat!Answers[k].type = "tool" /\ Chat!Answers[k].hidden
                 /\ Chat!Answers[k].turn \in DOMAIN msgs
           /\ \A i \in DOMAIN msgs : Caller(msgs[i]) /\ Chat!Unanswered(i)
                 => \E k \in DOMAIN Chat!Answers : Chat!Answers[k].turn = i
<1> DEFINE owed == {e \in (DOMAIN msgs) \X Tools :
                      Chat!Unanswered(e[1]) /\ e[2] \in msgs[e[1]].tools}
           order == Chat!SetToSeq(owed)
           answer(e) == Chat!Result(e[2], e[1], TRUE)
<1>1. /\ msgs \in Seq(Message) /\ Len(msgs) \in Nat /\ DOMAIN msgs = 1..Len(msgs)
      /\ \A i \in DOMAIN msgs : msgs[i].tools \subseteq Tools
  <2>1. msgs \in Seq(Message) /\ \A i \in DOMAIN msgs : msgs[i] \in Message
    BY DEF WellFormed
  <2> QED BY <2>1 DEF Message
<1>2. IsFiniteSet(owed) /\ Cardinality(owed) \in Nat
  <2>1. IsFiniteSet(DOMAIN msgs) /\ IsFiniteSet(Tools)
    BY <1>1, FS_Interval DEF PagesAssumption, ConstantsOK
  <2>2. IsFiniteSet((DOMAIN msgs) \X Tools)
    BY <2>1, FS_Product
  <2> QED BY <2>2, FS_Subset, FS_CardinalityType
<1>3. order \in Bijection(1..Cardinality(owed), owed)
  BY <1>2, Ordered
<1>4. /\ order \in [1..Cardinality(owed) -> owed]
      /\ \A e \in owed : \E k \in 1..Cardinality(owed) : order[k] = e
  BY <1>3 DEF Bijection, Injection, Surjection
<1>5. \A e \in owed : /\ answer(e) \in Message /\ answer(e).type = "tool" /\ answer(e).hidden
                      /\ answer(e).turn \in DOMAIN msgs /\ answer(e).turn = e[1]
  BY <1>1 DEF Chat!Result, Message
<1>6. \A i \in DOMAIN msgs : Caller(msgs[i]) /\ Chat!Unanswered(i)
         => \E e \in owed : e[1] = i
  <2> SUFFICES ASSUME NEW i \in DOMAIN msgs, Caller(msgs[i]), Chat!Unanswered(i)
               PROVE  \E e \in owed : e[1] = i
    OBVIOUS
  <2>1. PICK t \in Tools : t \in msgs[i].tools
    BY <1>1 DEF Caller
  <2>2. <<i, t>> \in owed /\ <<i, t>>[1] = i
    BY <2>1
  <2> QED BY <2>2
<1>7. Chat!Answers = [k \in DOMAIN order |-> Chat!Result(order[k][2], order[k][1], TRUE)]
  BY DEF Chat!Answers
<1>8. Chat!Answers = [k \in 1..Cardinality(owed) |-> answer(order[k])]
  BY <1>4, <1>7
<1> HIDE DEF owed, order, answer
<1>9. Chat!Answers \in Seq(Message) /\ DOMAIN Chat!Answers = 1..Cardinality(owed)
  BY <1>2, <1>4, <1>5, <1>8
<1>10. \A k \in 1..Cardinality(owed) : Chat!Answers[k] = answer(order[k]) /\ order[k] \in owed
  BY <1>4, <1>8
<1> QED BY <1>4, <1>5, <1>6, <1>9, <1>10

\* A pause asks about calls of the last message, or about those a message that is still to
\* come will have.
PauseAtEnd ==
    /\ stop # {} => run.fork = 0 /\ ~run.approved
    /\ run.due # {} => stop # {} /\ stop \subseteq run.due
    /\ stop # {} /\ run.due = {}
         => msgs # <<>> /\ msgs[Len(msgs)].type = "ai" /\ msgs[Len(msgs)].tools \cap stop # {}

\* The page believes that it has the first token only when it has an answer or a result.
FirstAwaited ==
    Chat!Running /\ run.by \in {"submit", "regenerate"}
      => /\ ~shown.loading
         /\ shown.first => run.fork = 0 /\ msgs # <<>> /\ msgs[Len(msgs)].type # "human"

\* A run forks at a message of the user or an answer.
ForkInside ==
    Chat!Running /\ run.fork > 0 => run.fork \in DOMAIN msgs /\ msgs[run.fork].type # "tool"

FailureTold == run.state = "failed" => (error # Chat!NoError => error.consumed \/ told = error)

ChatInv == ChatTypes /\ WellFormed(msgs) /\ PauseAtEnd /\ FirstAwaited /\ ForkInside
           /\ FailureTold /\ Chat!TurnsAnswered

LEMMA ChatInitially == PagesAssumption /\ Chat!Init => ChatInv
<1> SUFFICES ASSUME PagesAssumption, Chat!Init PROVE ChatInv
  OBVIOUS
<1>1. shown \in Views /\ run \in Ways /\ run.state = "new" /\ run.due = {}
  BY DEF Chat!Init, Views, Ways, States, Hows
<1>2. msgs = <<>> /\ turns = <<>> /\ stop = {} /\ editing = {}
  BY DEF Chat!Init
<1>3. msgs \in Seq(Message) /\ Len(msgs) = 0 /\ DOMAIN msgs = {}
  BY <1>2
<1>4. WellFormed(msgs)
  BY <1>3 DEF WellFormed
<1>5. ChatTypes
  BY <1>1, <1>2, <1>3 DEF ChatTypes
<1> QED BY <1>1, <1>2, <1>3, <1>4, <1>5 DEF ChatInv, PauseAtEnd, FirstAwaited, ForkInside,
        FailureTold, Chat!TurnsAnswered, Chat!Running

LEMMA Ends ==
    ASSUME run \in Ways, NEW state \in States, Chat!Ended(state)
    PROVE  /\ run' \in Ways /\ run'.state = state /\ run'.by = run.by /\ run'.fork = run.fork
           /\ run'.due = run.due /\ run'.approved = run.approved
BY DEF Chat!Ended, Ways

LEMMA Begins ==
    ASSUME NEW by \in Hows, NEW fork \in Nat, Len(msgs') \in Nat, Chat!Begin(by, fork)
    PROVE  /\ run' \in Ways /\ run'.state = "running" /\ run'.by = by /\ run'.fork = fork
           /\ run'.due = {}
BY DEF Chat!Begin, Ways, States

\* What the page does without the stream.
LEMMA ChatBeside ==
    ASSUME PagesAssumption, ChatInv,
           Chat!ToggleToolCalls \/ Chat!LoadThread \/ Chat!Hydrated \/ Chat!Stop
           \/ (\E i \in DOMAIN msgs : Chat!StartEdit(i) \/ Chat!CancelEdit(i)
                                     \/ Chat!SubmitEdit(i) \/ Chat!Regenerate(i))
           \/ (\E e \in Errors : Chat!RunFails(e)) \/ Chat!RunEnds \/ Chat!RunPauses
           \/ UNCHANGED transcript
    PROVE  ChatInv'
<1> USE DEF ChatInv, ChatTypes
<1>1. msgs \in Seq(Message) /\ Len(msgs) \in Nat /\ UNCHANGED <<msgs, turns>>
  BY DEF WellFormed, transcript, Chat!CancelEdit, Chat!ToggleToolCalls, Chat!LoadThread, Chat!Hydrated,
     Chat!Stop, Chat!SubmitEdit, Chat!StartEdit, Chat!Regenerate, Chat!RunFails, Chat!RunEnds,
     Chat!RunPauses
<1>2. WellFormed(msgs') /\ Chat!TurnsAnswered'
  BY <1>1 DEF Chat!TurnsAnswered
<1> USE DEF PauseAtEnd, FirstAwaited, ForkInside, FailureTold, Chat!Running, Chat!Busy
<1>3. ASSUME NEW i \in DOMAIN msgs, Chat!CancelEdit(i) PROVE ChatInv'
  BY <1>1, <1>2, <1>3 DEF Chat!CancelEdit
<1>4. CASE Chat!ToggleToolCalls
  BY <1>1, <1>2, <1>4 DEF Chat!ToggleToolCalls, Views
<1>5. CASE Chat!LoadThread
  <2>1. /\ shown' \in Views /\ editing' = {} /\ UNCHANGED stop /\ ~Chat!Running
        /\ Chat!Ended("left")
    BY <1>5 DEF Chat!LoadThread, Views, Chat!Ended
  <2> QED BY <1>1, <1>2, <2>1, Ends DEF States
<1>6. CASE Chat!Hydrated
  <2>1. /\ shown' = [shown EXCEPT !.loading = FALSE, !.first = Chat!FirstToken(msgs, FALSE, @)]
        /\ shown.loading /\ UNCHANGED <<stop, run, error, told, editing>>
    BY <1>6 DEF Chat!Hydrated
  <2>2. Chat!FirstToken(msgs, FALSE, shown.first) \in BOOLEAN
    BY DEF Chat!FirstToken
  <2>3. shown' \in Views
    BY <2>1, <2>2 DEF Views
  <2> QED BY <1>1, <1>2, <2>1, <2>3
<1>7. CASE Chat!Stop
  <2>1. Chat!Running /\ Chat!Ended("stopped") /\ UNCHANGED <<stop, shown, editing>>
    BY <1>7 DEF Chat!Stop
  <2> QED BY <1>1, <1>2, <2>1, Ends DEF States
<1>8. ASSUME NEW i \in DOMAIN msgs, Chat!SubmitEdit(i) PROVE ChatInv'
  <2>1. /\ i \in editing /\ Chat!Begin("edit", i) /\ editing' = editing \ {i} /\ stop' = {}
        /\ UNCHANGED shown
    BY <1>8 DEF Chat!SubmitEdit
  <2>2. i \in Nat
    BY <1>1
  <2> QED BY <1>1, <1>2, <2>1, <2>2, Begins DEF Hows
<1>9. ASSUME NEW i \in DOMAIN msgs, Chat!StartEdit(i) PROVE ChatInv'
  BY <1>1, <1>2, <1>9 DEF Chat!StartEdit
<1>10. ASSUME NEW i \in DOMAIN msgs, Chat!Regenerate(i) PROVE ChatInv'
  <2>1. /\ msgs[i].type = "ai" /\ ~shown.loading /\ Chat!Begin("regenerate", i) /\ stop' = {}
        /\ shown' = [shown EXCEPT !.first = FALSE] /\ UNCHANGED editing
    BY <1>10 DEF Chat!Regenerate, Chat!WaitForFirstToken, Chat!Renderable
  <2>2. shown' \in Views /\ ~shown'.first /\ ~shown'.loading
    BY <2>1 DEF Views
  <2>3. i \in Nat
    BY <1>1
  <2> QED BY <1>1, <1>2, <2>1, <2>2, <2>3, Begins DEF Hows
<1>11. ASSUME NEW e \in Errors, Chat!RunFails(e) PROVE ChatInv'
  <2>1. /\ Chat!Running /\ Chat!Ended("failed") /\ UNCHANGED <<stop, shown, editing>>
        /\ error' = e /\ told' = IF e.consumed THEN told ELSE e
    BY <1>11 DEF Chat!RunFails
  <2> QED BY <1>1, <1>2, <2>1, Ends DEF States
<1>12. CASE Chat!RunEnds
  <2>1. Chat!Running /\ Chat!Ended("done") /\ UNCHANGED <<stop, shown, editing>>
    BY <1>12 DEF Chat!RunEnds, Chat!Streaming
  <2> QED BY <1>1, <1>2, <2>1, Ends DEF States
<1>13. CASE Chat!RunPauses
  <2>1. Chat!Running /\ Chat!Ended("paused") /\ UNCHANGED <<stop, shown, editing>>
    BY <1>13 DEF Chat!RunPauses, Chat!Streaming
  <2> QED BY <1>1, <1>2, <2>1, Ends DEF States
<1>14. CASE UNCHANGED transcript
  BY <1>1, <1>2, <1>14 DEF transcript
<1> QED BY <1>3, <1>4, <1>5, <1>6, <1>7, <1>8, <1>9, <1>10, <1>11, <1>12, <1>13, <1>14

\* New messages come with their effects on the page.
LEMMA Arrives ==
    ASSUME ChatInv, NEW ms, WellFormed(ms), Chat!Arrive(ms),
           \A i \in DOMAIN msgs : i <= Len(ms) /\ msgs[i].type = "human" => ms[i].type = "human"
    PROVE  /\ msgs' = ms /\ WellFormed(msgs') /\ Len(msgs') \in Nat
           /\ \A i \in editing' : i \in DOMAIN msgs' /\ msgs'[i].type = "human"
           /\ shown' \in Views /\ shown'.loading = shown.loading
           /\ shown'.first => shown.first \/ (ms # <<>> /\ ms[Len(ms)].type = "ai")
<1>1. msgs' = ms /\ WellFormed(msgs') /\ Len(ms) \in Nat /\ DOMAIN ms = 1..Len(ms)
  BY DEF Chat!Arrive, WellFormed
<1>2. \A i \in editing' : i \in DOMAIN msgs' /\ msgs'[i].type = "human"
  <2>1. \A i \in editing' : i \in editing /\ i <= Len(ms)
    BY DEF Chat!Arrive, Chat!EditingAfter
  <2>2. /\ DOMAIN msgs = 1..Len(msgs) /\ Len(msgs) \in Nat
        /\ \A i \in editing : i \in DOMAIN msgs /\ msgs[i].type = "human"
    BY DEF ChatInv, ChatTypes, WellFormed
  <2> QED BY <1>1, <2>1, <2>2
<1>3. /\ shown' = [shown EXCEPT !.first = Chat!FirstToken(ms, shown.loading, @)]
      /\ shown \in Views
  BY DEF Chat!Arrive, ChatInv, ChatTypes
<1>4. /\ Chat!FirstToken(ms, shown.loading, shown.first) \in BOOLEAN
      /\ Chat!FirstToken(ms, shown.loading, shown.first)
           => shown.first \/ (ms # <<>> /\ ms[Len(ms)].type = "ai")
  BY <1>3 DEF Views, Chat!FirstToken, Chat!Last
<1>5. /\ shown' \in Views /\ shown'.loading = shown.loading
      /\ shown'.first = Chat!FirstToken(ms, shown.loading, shown.first)
  BY <1>3, <1>4 DEF Views
<1> QED BY <1>1, <1>2, <1>4, <1>5

\* A run begins.
LEMMA ChatSubmits == ASSUME PagesAssumption, ChatInv, Chat!Submit PROVE ChatInv'
<1> DEFINE human == Chat!Human
           more == Chat!Answers \o <<human>>
<1>1. /\ ~Chat!Running /\ ~shown.loading /\ msgs' = (msgs \o Chat!Answers) \o <<human>>
      /\ turns' = msgs' /\ Chat!Begin("submit", 0) /\ shown' = [shown EXCEPT !.first = FALSE]
      /\ stop' = {} /\ UNCHANGED editing
  BY DEF Chat!Submit, Chat!Busy, Chat!WaitForFirstToken
<1>2. human \in Message /\ human.type = "human" /\ human.turn = 0 /\ human.hidden = FALSE
  BY DEF Chat!Human, Message
<1>3. /\ msgs \in Seq(Message) /\ Len(msgs) \in Nat /\ DOMAIN msgs = 1..Len(msgs)
      /\ WellFormed(msgs)
  BY DEF ChatInv, WellFormed
<1>4. Chat!Answers \in Seq(Message)
  BY <1>3, AnswersAre
<1> DEFINE n == Len(Chat!Answers)
<1>5. /\ more \in Seq(Message) /\ Len(more) = n + 1 /\ n \in Nat /\ DOMAIN more = 1..n + 1
      /\ DOMAIN Chat!Answers = 1..n
      /\ \A k \in 1..n : more[k] = Chat!Answers[k]
      /\ more[n + 1] = human
  BY <1>2, <1>4
<1>6. msgs' = msgs \o more
  BY <1>1, <1>2, <1>3, <1>4
<1>7. \A k \in 1..n : /\ more[k].type = "tool" /\ more[k].hidden
                      /\ more[k].turn \in DOMAIN msgs
  BY <1>3, <1>5, AnswersAre
<1>8. \A i \in DOMAIN msgs : Caller(msgs[i]) /\ Chat!Unanswered(i)
         => \E k \in 1..n : more[k].turn = i
  BY <1>3, <1>5, AnswersAre
<1> HIDE DEF more, human, n
<1>9. WellFormed(msgs \o more)
  <2>1. \A k \in DOMAIN more : /\ more[k].turn <= Len(msgs) /\ more[k].type # "ai"
                               /\ more[k].hidden => more[k].type = "tool"
    <3>1. ASSUME NEW k \in 1..n + 1
          PROVE  /\ more[k].turn <= Len(msgs) /\ more[k].type # "ai"
                 /\ more[k].hidden => more[k].type = "tool"
      <4>1. CASE k \in 1..n
        BY <1>3, <1>7, <4>1
      <4>2. CASE k = n + 1
        BY <1>2, <1>3, <1>5, <4>2
      <4> QED BY <1>5, <3>1, <4>1, <4>2
    <3> QED BY <1>5, <3>1
  <2>2. ASSUME msgs # <<>>, Caller(msgs[Len(msgs)])
        PROVE  \E k \in DOMAIN more : /\ more[k].type = "tool" /\ more[k].turn = Len(msgs)
                                      /\ \A j \in 1..k - 1 : more[j].hidden
    <3>1. Len(msgs) \in DOMAIN msgs
      BY <1>3, <2>2
    <3>2. Chat!Unanswered(Len(msgs))
      BY <1>3, <2>2 DEF Chat!Unanswered, Caller
    <3>3. PICK k \in 1..n : more[k].turn = Len(msgs)
      BY <1>8, <2>2, <3>1, <3>2
    <3>4. k \in DOMAIN more /\ \A j \in 1..k - 1 : j \in 1..n
      BY <1>5
    <3> QED BY <1>7, <3>3, <3>4
  <2> QED BY <1>3, <1>5, <2>1, <2>2, Added
<1>10. Chat!TurnsAnswered'
  <2> DEFINE ns == msgs \o more
  <2>1. /\ Len(ns) = Len(msgs) + n + 1 /\ DOMAIN ns = 1..Len(msgs) + n + 1
        /\ \A i \in 1..Len(msgs) : ns[i] = msgs[i]
        /\ \A k \in 1..n + 1 : ns[Len(msgs) + k] = more[k]
    BY <1>3, <1>5
  <2> HIDE DEF ns
  <2>2. ASSUME NEW i \in DOMAIN ns, ns[i].type = "ai", ns[i].tools # {}
        PROVE  \E k \in DOMAIN ns : ns[k].type = "tool" /\ ns[k].turn = i
    <3>1. i \in 1..Len(msgs)
      <4> SUFFICES ASSUME i \notin 1..Len(msgs) PROVE FALSE
        OBVIOUS
      <4>1. i - Len(msgs) \in 1..n + 1 /\ i = Len(msgs) + (i - Len(msgs))
        BY <1>3, <1>5, <2>1
      <4>2. ns[i] = more[i - Len(msgs)]
        BY <2>1, <4>1
      <4>3. CASE i - Len(msgs) \in 1..n
        BY <1>7, <2>2, <4>2, <4>3
      <4>4. CASE i - Len(msgs) = n + 1
        BY <1>2, <1>5, <2>2, <4>2, <4>4
      <4> QED BY <1>5, <4>1, <4>3, <4>4
    <3>2. ns[i] = msgs[i] /\ Caller(msgs[i]) /\ i \in DOMAIN msgs
      BY <1>3, <2>1, <2>2, <3>1 DEF Caller
    <3>3. CASE Chat!Unanswered(i)
      <4>1. PICK k \in 1..n : more[k].turn = i
        BY <1>8, <3>2, <3>3
      <4>2. Len(msgs) + k \in DOMAIN ns /\ ns[Len(msgs) + k] = more[k]
        BY <1>3, <1>5, <2>1
      <4> QED BY <1>7, <4>1, <4>2
    <3>4. CASE ~Chat!Unanswered(i)
      <4>1. i < Len(msgs) /\ msgs[i + 1].type = "tool"
        BY <3>2, <3>4 DEF Chat!Unanswered, Caller
      <4>2. i + 1 \in DOMAIN msgs /\ AnsweredAt(msgs, i)
        BY <1>3, <3>1, <3>2, <4>1 DEF WellFormed
      <4>3. PICK k \in i + 1..Len(msgs) : msgs[k].type = "tool" /\ msgs[k].turn = i
        BY <3>2, <4>1, <4>2 DEF AnsweredAt
      <4>4. k \in 1..Len(msgs) /\ k \in DOMAIN ns
        BY <1>3, <1>5, <2>1, <3>1
      <4> QED BY <2>1, <4>3, <4>4
    <3> QED BY <3>3, <3>4
  <2>3. turns' = ns
    BY <1>1, <1>6 DEF ns
  <2> QED BY <2>2, <2>3 DEF Chat!TurnsAnswered
<1>11. /\ run' \in Ways /\ run'.state = "running" /\ run'.by = "submit" /\ run'.fork = 0
       /\ run'.due = {}
  <2>1. Len(msgs') \in Nat
    BY <1>6, <1>9 DEF WellFormed
  <2> QED BY <1>1, <2>1, Begins DEF Hows
<1>12. shown' \in Views /\ shown'.first = FALSE /\ shown'.loading = FALSE
  BY <1>1 DEF ChatInv, ChatTypes, Views
<1>13. \A i \in editing' : i \in DOMAIN msgs' /\ msgs'[i].type = "human"
  <2>1. editing' = editing /\ \A i \in editing : i \in DOMAIN msgs /\ msgs[i].type = "human"
    BY <1>1 DEF ChatInv, ChatTypes
  <2>2. \A i \in DOMAIN msgs : i \in DOMAIN (msgs \o more) /\ (msgs \o more)[i] = msgs[i]
    BY <1>3, <1>5
  <2> QED BY <1>6, <2>1, <2>2
<1>14. turns' \in Seq(Message) /\ WellFormed(msgs') /\ stop' \subseteq Gated /\ stop' = {}
  BY <1>1, <1>6, <1>9 DEF WellFormed
<1> QED BY <1>10, <1>11, <1>12, <1>13, <1>14
        DEF ChatInv, ChatTypes, PauseAtEnd, FirstAwaited, ForkInside, FailureTold, Chat!Running

\* The run goes on after a decision.
LEMMA ChatResponds ==
    ASSUME PagesAssumption, ChatInv, NEW ts \in SUBSET Tools, Chat!Respond(ts)
    PROVE  ChatInv'
<1> DEFINE more == Chat!Results(ts, Chat!Turn, FALSE)
<1>1. /\ stop # {} /\ run.due = {} /\ Chat!Arrive(msgs \o more) /\ Chat!Begin("respond", 0)
      /\ stop' = {} /\ UNCHANGED turns
  BY DEF Chat!Respond, Chat!CaughtUp
<1>2. /\ msgs \in Seq(Message) /\ Len(msgs) \in Nat /\ DOMAIN msgs = 1..Len(msgs)
      /\ WellFormed(msgs)
  BY DEF ChatInv, WellFormed
<1>3. msgs # <<>> /\ Caller(msgs[Len(msgs)])
  BY <1>1 DEF ChatInv, PauseAtEnd, Caller
<1>4. Chat!Turn = Len(msgs)
  BY <1>2, <1>3, TurnAtEnd
<1>5. /\ more \in Seq(Message)
      /\ \A k \in DOMAIN more : /\ more[k].type = "tool" /\ more[k].turn = Len(msgs)
                                /\ more[k].hidden = FALSE
  <2>1. Chat!Turn \in Nat /\ FALSE \in BOOLEAN /\ ts \in SUBSET Tools
    BY <1>2, <1>4
  <2>2. \A hidden \in BOOLEAN : LET rs == Chat!Results(ts, Chat!Turn, hidden)
        IN /\ rs \in Seq(Message)
           /\ \A k \in DOMAIN rs : /\ rs[k].type = "tool" /\ rs[k].turn = Chat!Turn
                                   /\ rs[k].hidden = hidden
    BY <2>1, ResultsAre
  <2>3. LET rs == Chat!Results(ts, Chat!Turn, FALSE)
        IN /\ rs \in Seq(Message)
           /\ \A k \in DOMAIN rs : /\ rs[k].type = "tool" /\ rs[k].turn = Chat!Turn
                                   /\ rs[k].hidden = FALSE
    BY <2>2, Zenon
  <2> QED BY <1>4, <2>3
<1> HIDE DEF more
<1>6. WellFormed(msgs \o more)
  <2>1. more # <<>> => 1 \in DOMAIN more
    BY <1>5
  <2>2. more # <<>> => \E k \in DOMAIN more : /\ more[k].type = "tool" /\ more[k].turn = Len(msgs)
                                              /\ \A j \in 1..k - 1 : more[j].hidden
    BY <1>5, <2>1
  <2>3. \A k \in DOMAIN more : /\ more[k].turn <= Len(msgs) /\ more[k].type # "ai"
                               /\ more[k].hidden => more[k].type = "tool"
    BY <1>2, <1>5
  <2> QED BY <1>2, <1>5, <2>2, <2>3, Added
<1>7. \A i \in DOMAIN msgs : (msgs \o more)[i] = msgs[i]
  BY <1>2, <1>5
<1>8. /\ WellFormed(msgs') /\ Len(msgs') \in Nat
      /\ \A i \in editing' : i \in DOMAIN msgs' /\ msgs'[i].type = "human"
      /\ shown' \in Views
  BY <1>1, <1>6, <1>7, Arrives
<1>9. /\ run' \in Ways /\ run'.state = "running" /\ run'.by = "respond" /\ run'.fork = 0
      /\ run'.due = {}
  BY <1>1, <1>8, Begins DEF Hows
<1>10. turns' \in Seq(Message) /\ Chat!TurnsAnswered'
  BY <1>1 DEF ChatInv, ChatTypes, Chat!TurnsAnswered
<1> QED BY <1>1, <1>8, <1>9, <1>10
        DEF ChatInv, ChatTypes, PauseAtEnd, FirstAwaited, ForkInside, FailureTold, Chat!Running

\* What a run brings does not make the page believe that an answer has begun which has not.
LEMMA ChatGrows ==
    ASSUME ChatInv, Chat!Running \/ run.due # {}, PauseAtEnd', NEW ms, WellFormed(ms), Chat!Arrive(ms),
           \A i \in DOMAIN msgs : i <= Len(ms) /\ msgs[i].type = "human" => ms[i].type = "human",
           UNCHANGED <<stop, error, told, turns>>, run' \in Ways, run'.state = run.state,
           run'.by = run.by, run'.fork = 0,
           run.fork > 0 \/ (ms # <<>> /\ ms[Len(ms)].type # "human")
    PROVE  ChatInv'
<1>1. /\ msgs' = ms /\ WellFormed(msgs') /\ Len(msgs') \in Nat
      /\ \A i \in editing' : i \in DOMAIN msgs' /\ msgs'[i].type = "human"
      /\ shown' \in Views /\ shown'.loading = shown.loading
      /\ shown'.first => shown.first \/ (ms # <<>> /\ ms[Len(ms)].type = "ai")
  BY Arrives
<1>2. turns' \in Seq(Message) /\ Chat!TurnsAnswered' /\ FailureTold' /\ stop' \subseteq Gated
  BY DEF ChatInv, ChatTypes, Chat!TurnsAnswered, FailureTold, Chat!Running
<1>3. FirstAwaited'
  BY <1>1 DEF ChatInv, FirstAwaited, Chat!Running
<1> QED BY <1>1, <1>2, <1>3 DEF ChatInv, ChatTypes, ForkInside, Chat!Running

\* The first messages of a run that forks.
LEMMA ChatForks == ASSUME PagesAssumption, ChatInv, Chat!Forked PROVE ChatInv'
<1> DEFINE fork == run.fork
           before == Chat!Before(fork)
           more == IF run.by = "edit" THEN <<Chat!Human>> ELSE <<>>
<1>1. /\ Chat!Running /\ fork > 0 /\ Chat!Arrive(before \o more)
      /\ run' = [run EXCEPT !.fork = 0, !.base = Len(msgs')]
      /\ UNCHANGED <<stop, error, told, turns>>
  BY DEF Chat!Forked
<1>2. /\ msgs \in Seq(Message) /\ Len(msgs) \in Nat /\ DOMAIN msgs = 1..Len(msgs)
      /\ WellFormed(msgs)
  BY DEF ChatInv, WellFormed
<1>3. fork \in DOMAIN msgs /\ msgs[fork].type # "tool" /\ fork \in 1..Len(msgs)
  BY <1>1, <1>2 DEF ChatInv, ForkInside
<1> DEFINE earlier == {k \in 1..fork - 1 : ~msgs[k].hidden}
           end == CHOOSE k \in earlier : \A n \in earlier : n <= k
<1>4. before = IF msgs[fork].type = "ai" \/ earlier = {} THEN SubSeq(msgs, 1, fork - 1)
               ELSE SubSeq(msgs, 1, end)
  BY DEF Chat!Before
<1>5. earlier # {} => end \in earlier
  <2>1. fork - 1 \in Nat /\ earlier \subseteq 1..fork - 1
    BY <1>2, <1>3
  <2>2. earlier # {} => \E k \in earlier : \A n \in earlier : n <= k
    <3> HIDE DEF earlier
    <3> QED BY <2>1, Largest
  <2> QED BY <2>2
<1> HIDE DEF fork, before, more, end
<1>6. PICK last \in 0..Len(msgs) :
        /\ before = SubSeq(msgs, 1, last)
        /\ ~msgs[last].hidden \/ msgs[last + 1].type # "tool"
  <2>1. CASE msgs[fork].type = "ai" \/ earlier = {}
    <3>1. fork - 1 \in 0..Len(msgs) /\ (fork - 1) + 1 = fork
      BY <1>2, <1>3
    <3>2. before = SubSeq(msgs, 1, fork - 1)
      BY <1>4, <2>1
    <3>3. msgs[(fork - 1) + 1].type # "tool"
      BY <1>3, <3>1
    <3> QED BY <3>1, <3>2, <3>3
  <2>2. CASE ~(msgs[fork].type = "ai" \/ earlier = {})
    <3>1. before = SubSeq(msgs, 1, end) /\ end \in 1..fork - 1 /\ ~msgs[end].hidden
      BY <1>4, <1>5, <2>2
    <3>2. end \in 0..Len(msgs)
      BY <1>2, <1>3, <3>1
    <3> QED BY <3>1, <3>2
  <2> QED BY <2>1, <2>2
<1> HIDE DEF earlier
<1>7. /\ before \in Seq(Message) /\ Len(before) = last /\ DOMAIN before = 1..last
      /\ last \in Nat /\ last <= Len(msgs)
      /\ \A i \in 1..last : before[i] = msgs[i] /\ i \in 1..Len(msgs)
  BY <1>2, <1>6, Cut
<1>8. WellFormed(before)
  <2>1. Len(before) <= Len(msgs) /\ \A i \in 1..Len(before) : before[i] = msgs[i]
    BY <1>7
  <2>2. ~msgs[Len(before)].hidden \/ msgs[Len(before) + 1].type # "tool"
    BY <1>6, <1>7
  <2> QED BY <1>2, <1>7, <2>1, <2>2, CutOff
<1>9. more \in {<<>>, <<Chat!Human>>} /\ Chat!Human \in Message /\ Chat!Human.type = "human"
      /\ Chat!Human.turn = 0 /\ Chat!Human.hidden = FALSE
  BY DEF more, Chat!Human, Message
<1>10. WellFormed(before \o more)
  <2>1. more \in Seq(Message) /\ \A k \in DOMAIN more : k = 1 /\ more[k] = Chat!Human
    <3>1. CASE more = <<>>
      BY <3>1
    <3>2. CASE more = <<Chat!Human>>
      BY <1>9, <3>2
    <3> QED BY <1>9, <3>1, <3>2
  <2>2. more # <<>> => more[1].type # "tool"
    BY <1>9
  <2>3. \A k \in DOMAIN more : /\ more[k].turn <= Len(before) /\ more[k].type # "ai"
                               /\ more[k].hidden => more[k].type = "tool"
    BY <1>7, <1>9, <2>1
  <2> QED BY <1>8, <2>1, <2>2, <2>3, Added
<1>11. ASSUME NEW i \in DOMAIN msgs, i <= Len(before \o more), msgs[i].type = "human"
       PROVE  (before \o more)[i].type = "human"
  <2>1. CASE i \in 1..last
    BY <1>7, <1>9, <1>11, <2>1
  <2>2. CASE i \notin 1..last
    <3>1. more = <<Chat!Human>> /\ i = last + 1
      <4>1. i \in Nat /\ i > last
        BY <1>2, <1>7, <2>2
      <4>2. CASE more = <<>>
        <5>1. Len(before \o more) = last
          BY <1>7, <4>2
        <5> QED BY <1>7, <1>11, <4>1, <5>1
      <4>3. CASE more = <<Chat!Human>>
        <5>1. Len(before \o more) = last + 1
          BY <1>7, <1>9, <4>3
        <5> QED BY <1>7, <1>11, <4>1, <4>3, <5>1
      <4> QED BY <1>9, <4>2, <4>3
    <3>2. (before \o more)[last + 1] = Chat!Human
      BY <1>7, <1>9, <3>1
    <3> QED BY <1>9, <3>1, <3>2
  <2> QED BY <2>1, <2>2
<1>12. run' \in Ways /\ run'.state = run.state /\ run'.by = run.by /\ run'.fork = 0
  <2>1. run \in Ways
    BY DEF ChatInv, ChatTypes
  <2>2. Len(msgs') \in Nat
    BY <1>1, <1>10 DEF Chat!Arrive, WellFormed
  <2> QED BY <1>1, <2>1, <2>2 DEF Ways
<1>13. PauseAtEnd'
  <2>1. stop' = {} /\ run'.due = {}
    BY <1>1 DEF ChatInv, ChatTypes, PauseAtEnd, Ways, fork
  <2> QED BY <2>1 DEF PauseAtEnd
<1> QED BY <1>1, <1>10, <1>11, <1>12, <1>13, ChatGrows DEF fork

\* The stream goes on: an answer, its calls, a result, a pause.
LEMMA ChatStreams ==
    ASSUME PagesAssumption, ChatInv,
           (\E text \in BOOLEAN : Chat!AiMessage(text))
           \/ (\E ts \in SUBSET Tools : Chat!AiCalls(ts))
           \/ (\E t \in Tools : Chat!ToolResult(t))
           \/ (\E ts \in SUBSET Tools : Chat!PauseTold(ts))
    PROVE  ChatInv'
<1> DEFINE n == Len(msgs)
<1>1. /\ msgs \in Seq(Message) /\ n \in Nat /\ DOMAIN msgs = 1..n /\ WellFormed(msgs)
      /\ run \in Ways /\ \A i \in DOMAIN msgs : msgs[i] \in Message
  BY DEF ChatInv, ChatTypes, WellFormed
<1>2. /\ run.state \in States /\ run.by \in Hows /\ run.fork \in Nat /\ PauseAtEnd
      /\ Chat!Coming => (Chat!Running \/ run.due # {}) /\ run.fork = 0
  BY <1>1 DEF Ways, ChatInv, PauseAtEnd, Chat!Coming, Chat!Streaming, Chat!CaughtUp
<1> HIDE DEF n
<1>3. ASSUME NEW text \in BOOLEAN, Chat!AiMessage(text) PROVE ChatInv'
  <2> DEFINE ai == Chat!Ai(text)
             ns == Append(msgs, ai)
  <2>1. /\ Chat!Coming /\ Chat!Open = {} /\ msgs # <<>> /\ msgs[n].type # "ai"
        /\ Chat!Arrive(ns) /\ UNCHANGED <<stop, run, error, told, turns>>
    BY <1>3 DEF Chat!AiMessage, Chat!LastIs, Chat!Last, n
  <2>2. ai \in Message /\ ai.type = "ai" /\ ai.tools = {} /\ ai.turn = 0 /\ ai.hidden = FALSE
    BY DEF Chat!Ai, Chat!Human, Message
  <2> HIDE DEF ai
  <2>3. /\ ns \in Seq(Message) /\ Len(ns) = n + 1 /\ \A i \in 1..n : ns[i] = msgs[i]
        /\ ns[n + 1] = ai
    BY <1>1, <2>2 DEF n
  <2> HIDE DEF ns
  <2>4. SettledAt(ns, n + 1)
    <3> SUFFICES ASSUME NEW c \in 1..n + 1, Caller(ns[c]), \A d \in c + 1..n + 1 : ~Caller(ns[d]),
                        NEW t \in ns[c].tools
                 PROVE  \E k \in 1..n + 1 : ns[k].turn = c /\ t \in ns[k].tools
      BY DEF SettledAt
    <3>1. c \in 1..n /\ ns[c] = msgs[c]
      BY <1>1, <2>2, <2>3 DEF Caller
    <3>2. \A d \in c + 1..n : d \in c + 1..n + 1 /\ ns[d] = msgs[d]
      BY <1>1, <2>3, <3>1
    <3>3. \A d \in c + 1..n : ~Caller(msgs[d])
      BY <3>2
    <3>4. Chat!Turn = c
      <4>1. Chat!Turn # 0 /\ Chat!Turn \in 1..n /\ c <= Chat!Turn /\ Caller(msgs[Chat!Turn])
        BY <1>1, <3>1, TurnIs
      <4> QED BY <1>1, <3>1, <3>3, <4>1
    <3>5. t \in UNION {msgs[k].tools : k \in {k \in DOMAIN msgs : msgs[k].turn = c}}
      <4>1. Chat!Open = msgs[c].tools
                          \ UNION {msgs[k].tools : k \in {k \in DOMAIN msgs : msgs[k].turn = c}}
        BY <1>1, <3>1, <3>4 DEF Chat!Open, Chat!CallsAt
      <4> QED BY <2>1, <3>1, <4>1
    <3>6. PICK k \in 1..n : msgs[k].turn = c /\ t \in msgs[k].tools
      BY <1>1, <3>5
    <3> QED BY <1>1, <2>3, <3>6
  <2>5. WellFormed(ns)
    <3>1. AnsweredAt(ns, n)
      BY <2>2, <2>3 DEF AnsweredAt
    <3>2. \A i \in n + 1..Len(ns) : i = n + 1 /\ ns[i] = ai
      BY <1>1, <2>3
    <3>3. \A i \in n + 1..Len(ns) :
             /\ ns[i].turn < i /\ (ns[i].hidden => ns[i].type = "tool")
             /\ ~Caller(ns[i]) /\ (ns[i].type = "ai" => SettledAt(ns, i))
      BY <1>1, <2>2, <2>4, <3>2 DEF Caller
    <3>4. n <= Len(ns)
      BY <1>1, <2>3
    <3> QED BY <1>1, <2>3, <3>1, <3>3, <3>4, Extended DEF n
  <2>6. \A i \in DOMAIN msgs : ns[i] = msgs[i]
    BY <1>1, <2>3
  <2>7. ns # <<>> /\ ns[Len(ns)].type # "human"
    BY <1>1, <2>2, <2>3
  <2>8. PauseAtEnd'
    <3>1. stop' = stop /\ run' = run /\ (stop # {} => run.due # {})
      BY <1>2, <2>1 DEF PauseAtEnd, n
    <3> QED BY <1>2, <3>1 DEF PauseAtEnd
  <2> QED BY <1>1, <1>2, <2>1, <2>5, <2>6, <2>7, <2>8, ChatGrows
<1>4. ASSUME NEW ts \in SUBSET Tools, Chat!AiCalls(ts) PROVE ChatInv'
  <2> DEFINE ns == [msgs EXCEPT ![n].tools = ts]
  <2>1. /\ Chat!Coming /\ msgs # <<>> /\ msgs[n].type = "ai" /\ ts # {} /\ msgs[n].tools = {}
        /\ Chat!Arrive(ns) /\ UNCHANGED <<stop, error, told, turns>>
        /\ run' = [run EXCEPT !.approved = FALSE, !.due = {}] /\ run.due \in {{}, ts}
    BY <1>4 DEF Chat!AiCalls, Chat!LastIs, Chat!Last, n
  <2>2. n \in 1..n
    BY <1>1, <2>1 DEF n
  <2>3. /\ ns \in Seq(Message) /\ Len(ns) = n /\ DOMAIN ns = 1..n
        /\ \A i \in 1..n : i # n => ns[i] = msgs[i]
        /\ ns[n].type = "ai" /\ ns[n].tools = ts /\ ns[n].turn = msgs[n].turn
        /\ ns[n].hidden = msgs[n].hidden
    <3>1. [msgs[n] EXCEPT !.tools = ts] \in Message
      BY <1>1, <2>2 DEF Message
    <3> QED BY <1>1, <2>1, <2>2, <3>1 DEF Message, n
  <2> HIDE DEF ns
  <2>4. WellFormed(ns)
    <3>1. \A i \in DOMAIN ns : ns[i].turn < i /\ (ns[i].hidden => ns[i].type = "tool")
      BY <1>1, <2>1, <2>2, <2>3 DEF WellFormed
    <3>2. ASSUME NEW k \in DOMAIN ns, ns[k].type = "ai", ns[k].tools = {} PROVE SettledAt(ns, k)
      <4>1. k \in 1..n /\ k # n
        BY <2>1, <2>3, <3>2
      <4>2. SettledAt(msgs, k) /\ \A c \in 1..k : ns[c] = msgs[c]
        BY <1>1, <2>3, <3>2, <4>1 DEF WellFormed
      <4>3. \A c \in 1..k : \A d \in c + 1..k : d \in 1..k
        BY <1>1, <4>1
      <4> QED BY <4>2, <4>3 DEF SettledAt, Caller
    <3>3. ASSUME NEW i \in DOMAIN ns, i + 1 \in DOMAIN ns, Caller(ns[i]), ns[i + 1].type = "tool"
          PROVE  \E k \in i + 1..Len(ns) : /\ ns[k].type = "tool" /\ ns[k].turn = i
                                           /\ \A j \in i + 1..k - 1 : ns[j].hidden
      <4>1. i \in 1..n /\ i + 1 \in 1..n /\ i # n /\ i + 1 # n
        BY <1>1, <2>3, <3>3
      <4>2. ns[i] = msgs[i] /\ ns[i + 1] = msgs[i + 1] /\ AnsweredAt(msgs, i)
        BY <1>1, <2>3, <4>1 DEF WellFormed
      <4>3. PICK k \in i + 1..n : /\ msgs[k].type = "tool" /\ msgs[k].turn = i
                                  /\ \A j \in i + 1..k - 1 : msgs[j].hidden
        BY <1>1, <3>3, <4>1, <4>2 DEF AnsweredAt, n
      <4>4. k # n /\ k \in 1..n /\ \A j \in i + 1..k - 1 : j \in 1..n /\ j # n
        BY <1>1, <2>1, <4>1, <4>3
      <4> QED BY <2>3, <4>3, <4>4
    <3>4. \A i \in DOMAIN ns : AnsweredAt(ns, i)
      BY <3>3 DEF AnsweredAt
    <3> QED BY <2>3, <3>1, <3>2, <3>4 DEF WellFormed
  <2>5. \A i \in DOMAIN msgs : msgs[i].type = "human" => ns[i].type = "human"
    BY <1>1, <2>1, <2>3
  <2>6. ns # <<>> /\ ns[Len(ns)].type # "human"
    BY <2>2, <2>3
  <2>7. /\ run' \in Ways /\ run'.state = run.state /\ run'.by = run.by /\ run'.fork = 0
        /\ run'.approved = FALSE /\ run'.due = {}
    BY <1>1, <1>2, <2>1 DEF Ways
  <2>8. PauseAtEnd'
    <3>1. stop # {} => run.due = ts /\ stop \subseteq ts
      BY <1>2, <2>1 DEF PauseAtEnd, n
    <3>2. stop' = stop /\ msgs' = ns /\ (stop # {} => ns[n].tools \cap stop # {})
      BY <2>1, <2>3, <3>1 DEF Chat!Arrive
    <3> QED BY <2>2, <2>3, <2>6, <2>7, <3>2 DEF PauseAtEnd
  <2> QED BY <1>2, <2>1, <2>4, <2>5, <2>6, <2>7, <2>8, ChatGrows
<1>5. ASSUME NEW t \in Tools, Chat!ToolResult(t) PROVE ChatInv'
  <2> DEFINE result == Chat!Result(t, Chat!Turn, FALSE)
             ns == Append(msgs, result)
             more == <<result>>
  <2>1. /\ Chat!Running /\ run.fork = 0 /\ t \in Chat!Open
        /\ Chat!Arrive(ns) /\ UNCHANGED <<stop, run, error, told, turns>>
        /\ Chat!Open \cap Gated = {} \/ run.approved
    BY <1>5 DEF Chat!ToolResult, Chat!Streaming
  <2>2. Chat!Turn \in 0..n
    BY <1>1, TurnIs DEF n
  <2>3. /\ result \in Message /\ result.type = "tool" /\ result.turn = Chat!Turn
        /\ result.hidden = FALSE
    BY <1>1, <2>2 DEF Chat!Result, Message
  <2> HIDE DEF result
  <2>4. ns = msgs \o more /\ more \in Seq(Message) /\ DOMAIN more = {1} /\ more[1] = result
    BY <1>1, <2>3
  <2>5. WellFormed(ns)
    <3>1. \A k \in DOMAIN more : /\ more[k].turn <= Len(msgs) /\ more[k].type # "ai"
                                 /\ more[k].hidden => more[k].type = "tool"
      BY <1>1, <2>2, <2>3, <2>4 DEF n
    <3>2. ASSUME msgs # <<>>, Caller(msgs[Len(msgs)])
          PROVE  \E k \in DOMAIN more : /\ more[k].type = "tool" /\ more[k].turn = Len(msgs)
                                        /\ \A j \in 1..k - 1 : more[j].hidden
      <4>1. Chat!Turn = Len(msgs)
        BY <1>1, <3>2, TurnAtEnd
      <4>2. 1 \in DOMAIN more /\ more[1].type = "tool" /\ more[1].turn = Len(msgs)
        BY <2>3, <2>4, <4>1
      <4>3. \A j \in 1..1 - 1 : FALSE
        OBVIOUS
      <4> QED BY <4>2, <4>3
    <3>3. WellFormed(msgs \o more)
      BY <1>1, <2>4, <3>1, <3>2, Added
    <3> QED BY <2>4, <3>3
  <2>6. /\ \A i \in DOMAIN msgs : ns[i] = msgs[i]
        /\ ns # <<>> /\ ns[Len(ns)] = result
    BY <1>1, <2>3
  <2>7. stop # {} => run.due # {}
    <3> SUFFICES ASSUME stop # {}, run.due = {} PROVE FALSE
      OBVIOUS
    <3>1. ~run.approved /\ msgs # <<>> /\ Caller(msgs[n]) /\ msgs[n].tools \cap stop # {}
      BY <1>2 DEF PauseAtEnd, Caller, n
    <3>2. Chat!Turn = n /\ n # 0
      BY <1>1, <3>1, TurnAtEnd DEF n
    <3>3. Chat!Open = msgs[n].tools
            \ UNION {msgs[k].tools : k \in {k \in DOMAIN msgs : msgs[k].turn = n}}
      BY <3>2 DEF Chat!Open, Chat!CallsAt
    <3>4. \A k \in DOMAIN msgs : msgs[k].turn # n
      <4>1. \A k \in DOMAIN msgs : k \in 1..n /\ msgs[k].turn < k /\ msgs[k].turn \in Nat
        BY <1>1 DEF WellFormed, Message
      <4> QED BY <1>1, <4>1
    <3>5. stop \subseteq Gated
      BY DEF ChatInv, ChatTypes
    <3> QED BY <2>1, <3>1, <3>3, <3>4, <3>5
  <2>8. PauseAtEnd'
    BY <1>2, <2>1, <2>7 DEF PauseAtEnd
  <2> QED BY <1>1, <2>1, <2>3, <2>5, <2>6, <2>8, ChatGrows
<1>6. ASSUME NEW ts \in SUBSET Tools, Chat!PauseTold(ts) PROVE ChatInv'
  <2>1. /\ Chat!Running /\ run.fork = 0 /\ stop = {} /\ ~run.approved
        /\ stop' = ts \cap Gated /\ stop' # {} /\ run.due = {}
        /\ UNCHANGED <<msgs, error, told, shown, editing, turns>>
    BY <1>2, <1>6 DEF Chat!PauseTold, Chat!Streaming, PauseAtEnd
  <2>2. CASE run' = [run EXCEPT !.due = ts]
    <3>1. /\ run' \in Ways /\ run'.state = run.state /\ run'.by = run.by /\ run'.fork = 0
          /\ run'.due = ts /\ ~run'.approved
      BY <1>1, <2>1, <2>2 DEF Ways
    <3>2. PauseAtEnd'
      BY <2>1, <3>1 DEF PauseAtEnd
    <3>3. WellFormed(msgs') /\ ChatTypes' /\ Chat!TurnsAnswered'
      BY <2>1, <3>1 DEF ChatInv, ChatTypes, Chat!TurnsAnswered
    <3> QED BY <2>1, <3>1, <3>2, <3>3
            DEF ChatInv, FirstAwaited, ForkInside, FailureTold, Chat!Running
  <2>3. CASE msgs # <<>> /\ msgs[n].type = "ai" /\ ts = Chat!Open /\ UNCHANGED run
    <3>1. n \in DOMAIN msgs
      BY <1>1, <2>3 DEF n
    <3>2. Chat!Open # {} /\ Chat!Turn # 0 /\ Chat!Open = Chat!CallsAt(Chat!Turn)
      BY <2>1, <2>3 DEF Chat!Open
    <3>3. Caller(msgs[n])
      <4> SUFFICES ASSUME msgs[n].tools = {} PROVE FALSE
        BY <2>3 DEF Caller
      <4>1. SettledAt(msgs, n)
        BY <1>1, <2>3, <3>1 DEF WellFormed
      <4>2. /\ Chat!Turn \in 1..n /\ Caller(msgs[Chat!Turn])
            /\ \A d \in Chat!Turn + 1..n : d \in DOMAIN msgs /\ ~(d <= Chat!Turn)
        BY <1>1, <3>2, TurnIs
      <4>3. \A d \in Chat!Turn + 1..n : ~Caller(msgs[d])
        BY <1>1, <3>2, <4>2, TurnIs
      <4>4. \A t \in msgs[Chat!Turn].tools :
               \E k \in 1..n : msgs[k].turn = Chat!Turn /\ t \in msgs[k].tools
        BY <4>1, <4>2, <4>3 DEF SettledAt
      <4>5. Chat!Open = {}
        BY <1>1, <3>2, <4>4 DEF Chat!CallsAt
      <4> QED BY <3>2, <4>5
    <3>4. Chat!Turn = n
      BY <1>1, <2>3, <3>3, TurnAtEnd DEF n
    <3>5. msgs[n].tools \cap stop' # {}
      BY <2>1, <2>3, <3>2, <3>4 DEF Chat!CallsAt
    <3>6. PauseAtEnd'
      BY <2>1, <2>3, <3>5 DEF PauseAtEnd, n
    <3>7. WellFormed(msgs') /\ ChatTypes' /\ Chat!TurnsAnswered'
      BY <2>1, <2>3 DEF ChatInv, ChatTypes, Chat!TurnsAnswered
    <3> QED BY <2>1, <2>3, <3>6, <3>7
            DEF ChatInv, FirstAwaited, ForkInside, FailureTold, Chat!Running
  <2> QED BY <1>6, <2>2, <2>3 DEF Chat!PauseTold, Chat!LastIs, Chat!Last, n
<1> QED BY <1>3, <1>4, <1>5, <1>6

LEMMA ChatKept == PagesAssumption /\ ChatInv /\ (Chat!Next \/ UNCHANGED transcript) => ChatInv'
<1> SUFFICES ASSUME PagesAssumption, ChatInv, Chat!Next \/ UNCHANGED transcript PROVE ChatInv'
  OBVIOUS
<1> QED BY ChatBeside, ChatSubmits, ChatResponds, ChatForks, ChatStreams DEF Chat!Next

\* What the user is shown follows from what the messages are.
LEMMA PauseHasOnePlace == ChatInv => Chat!PauseIsShownOnce
<1> SUFFICES ASSUME ChatInv, run.due = {}, ~shown.loading, stop # {}
             PROVE  Chat!Cardinality(Chat!PausePlaces) = 1
  BY DEF Chat!PauseIsShownOnce, Chat!CaughtUp
<1> DEFINE n == Len(msgs)
<1>1. /\ msgs \in Seq(Message) /\ n \in Nat /\ DOMAIN msgs = 1..n /\ n \in DOMAIN msgs
      /\ msgs[n].type = "ai" /\ msgs[n].tools \cap stop # {}
  BY DEF ChatInv, WellFormed, PauseAtEnd
<1>2. ~msgs[n].hidden
  BY <1>1 DEF ChatInv, WellFormed
<1>3. Chat!PausePlaces = {n}
  BY <1>1, <1>2 DEF Chat!PausePlaces, Chat!Renderable, Chat!ShouldRenderInterrupt, Chat!NoAiOrTool
<1> QED BY <1>3, Size, FS_Singleton

LEMMA AwaitedAndSeen == ChatInv => Chat!AwaitedIsShown /\ Chat!OutcomeIsSeen
<1> SUFFICES ASSUME ChatInv PROVE Chat!AwaitedIsShown /\ Chat!OutcomeIsSeen
  OBVIOUS
<1>1. Chat!AwaitedIsShown
  BY DEF ChatInv, FirstAwaited, Chat!AwaitedIsShown, Chat!Streaming, Chat!LastIs, Chat!Last,
         Chat!ShowsAwaited
<1>2. ASSUME ~shown.loading, run.state = "done", NEW i \in DOMAIN msgs, i > run.base,
             ~msgs[i].hidden, msgs[i].text
      PROVE  \E k \in Chat!Shown : k > run.base
  <2>1. /\ msgs \in Seq(Message) /\ Len(msgs) \in Nat /\ DOMAIN msgs = 1..Len(msgs)
        /\ run.base \in Nat
    BY DEF ChatInv, ChatTypes, WellFormed, Ways
  <2>2. \A k \in DOMAIN msgs : ~msgs[k].hidden => k \in Chat!Renderable
    BY <1>2 DEF Chat!Renderable
  <2>3. \A k \in DOMAIN msgs : msgs[k].type = "ai" => ~msgs[k].hidden
    BY DEF ChatInv, WellFormed
  <2>4. msgs[i].type \in {"human", "ai", "tool"}
    <3>1. msgs[i] \in Message
      BY <1>2, <2>1
    <3> QED BY <3>1 DEF Message
  <2>5. CASE msgs[i].type # "tool"
    BY <1>2, <2>2, <2>4, <2>5 DEF Chat!Shown, Chat!ShowsText
  <2>6. CASE msgs[i].type = "tool" /\ ~shown.hide
    BY <1>2, <2>2, <2>6 DEF Chat!Shown, Chat!ShowsResult
  <2>7. CASE msgs[i].type = "tool" /\ shown.hide
    <3>1. CASE \E k \in DOMAIN msgs : k > i /\ msgs[k].type = "ai" /\ msgs[k].text
      <4>1. PICK k \in DOMAIN msgs : k > i /\ msgs[k].type = "ai" /\ msgs[k].text
        BY <3>1
      <4>2. k \in Chat!Shown /\ k > run.base
        BY <1>2, <2>1, <2>2, <2>3, <4>1 DEF Chat!Shown, Chat!ShowsText
      <4> QED BY <4>2
    <3>2. CASE ~\E k \in DOMAIN msgs : k > i /\ msgs[k].type = "ai" /\ msgs[k].text
      BY <1>2, <2>2, <2>7, <3>2 DEF Chat!Shown, Chat!Fallback, Chat!Running
    <3> QED BY <3>1, <3>2
  <2> QED BY <2>5, <2>6, <2>7
<1>3. Chat!OutcomeIsSeen
  BY <1>2 DEF ChatInv, FailureTold, Chat!OutcomeIsSeen
<1> QED BY <1>1, <1>3

-----------------------------------------------------------------------------
(* The decisions about a pause. *)

\* What the configs of a pause q allow for its action i.
AllowedIn(q, i) ==
    LET named == {k \in DOMAIN q.configs : q.configs[k].name = q.tools[i]}
    IN IF named = {} THEN q.configs[i].allowed
       ELSE q.configs[CHOOSE k \in named : \A j \in named : k <= j].allowed

\* A decision of the user is about the arguments that were on display.
Seen(d) == d.by = "user" /\ d.type # "reject" => d.args = d.seen
SeenAll(ds) == \A i \in DOMAIN ds : Seen(ds[i])

\* A decision for action i of the n-th pause q: made there, of a type its configs allow.
Good(d, i, n, q) ==
    /\ d.at = n
    /\ \A k \in DOMAIN q.configs : q.configs[k].name = q.tools[i] => d.type \in q.configs[k].allowed
    /\ Seen(d)

GoodAll(ds, n, q) ==
    ds = <<>> \/ (DOMAIN ds = DOMAIN q.tools /\ \A i \in DOMAIN ds : Good(ds[i], i, n, q))

\* Changed arguments are remembered as an edit.
FormFine(f, i, q) ==
    /\ DOMAIN f = {"sel", "args", "made", "edited", "reason", "base", "at"}
    /\ f.args \in {"orig", "changed"}
    /\ f.args = "changed" => f.edited /\ ("approve" \in AllowedIn(q, i) => f.made)

\* A view is of the last pause p or of one before, and what the user has filled in is about
\* the pause on display, unless the effects have not run since that has changed.
ViewFine(v, p) ==
    /\ DOMAIN v = {"shown", "shape", "index", "form", "saved", "busy", "allBusy", "lock",
                   "finished", "autoBusy", "autoKey", "autoFailed", "autoSeen", "due", "moved",
                   "cut"}
    /\ v.shown \in Nat \ {0} /\ v.shown <= p.n /\ (v.shown = p.n => v.shape = p.shape)
    /\ v.shape \in Requests /\ v.moved \in BOOLEAN /\ (v.moved => v.due)
    /\ ~v.moved => /\ v.index \in DOMAIN v.shape.tools
                   /\ FormFine(v.form, v.index, v.shape) /\ v.form.at = v.shown
                   /\ \A i \in DOMAIN v.saved : Good(v.saved[i], i, v.shown, v.shape)

\* A request answers the pause it was made for, but for a retry that has met another; and what
\* may be tried again is about the pause on display, once the effects have run for that.
RequestFine(f, p) ==
    /\ DOMAIN f = {"state", "pause", "decisions", "tries", "own", "alive", "gap"}
    /\ f.pause \in Nat /\ f.pause <= p.n /\ SeenAll(f.decisions)
    /\ f.state # "idle" /\ f.pause = p.n /\ ~f.gap => GoodAll(f.decisions, p.n, p.shape)

SlotFine(f, s, v, p) ==
    /\ RequestFine(f, p)
    /\ f.own => ViewFine(v, p)
    /\ s \in Inbox!AutoSlots /\ f.alive /\ f.state # "idle"
         => ViewFine(v, p) /\ (~v.moved => f.pause = v.shown /\ ~f.gap)

AskInv ==
    /\ DOMAIN pause = {"n", "shape", "open", "trusted", "gap"}
    /\ pause.n \in Nat \ {0} /\ pause.shape \in Requests
    /\ view = Inbox!Unmounted \/ ViewFine(view, pause)
    /\ DOMAIN flight = Inbox!Slots
    /\ \A s \in Inbox!Slots : SlotFine(flight[s], s, view, pause)
    /\ SeenAll(taken) /\ (~pause.gap => GoodAll(taken, pause.n, pause.shape))

LEMMA AllGoodSeen == \A ds, n, q : GoodAll(ds, n, q) => SeenAll(ds)
BY DEF GoodAll, Good, SeenAll

LEMMA AllowedHere == \A i : Inbox!Allowed(i) = AllowedIn(view.shape, i)
BY DEF Inbox!Allowed, Inbox!Shape, AllowedIn

\* The type that the view allows is one that every config of the tool allows.
LEMMA AllowedIs ==
    ASSUME PagesAssumption, NEW q \in Requests, NEW i \in DOMAIN q.tools, NEW t,
           t \in AllowedIn(q, i), NEW k \in DOMAIN q.configs, q.configs[k].name = q.tools[i]
    PROVE  t \in q.configs[k].allowed
<1> DEFINE named == {j \in DOMAIN q.configs : q.configs[j].name = q.tools[i]}
           first == CHOOSE j \in named : \A m \in named : j <= m
<1>1. /\ DOMAIN q.configs = DOMAIN q.tools /\ DOMAIN q.tools \subseteq Nat
      /\ \A j, m \in DOMAIN q.configs : q.configs[j].name = q.configs[m].name
                                        => q.configs[j].allowed = q.configs[m].allowed
  BY DEF PagesAssumption, ConstantsOK
<1>2. k \in named /\ named \subseteq Nat
  BY <1>1
<1>3. first \in named
  <2>1. \E j \in named : \A m \in named : j <= m
    <3> HIDE DEF named
    <3> QED BY <1>2, Least
  <2> QED BY <2>1
<1>4. AllowedIn(q, i) = q.configs[first].allowed
  BY <1>2 DEF AllowedIn
<1> HIDE DEF first
<1> QED BY <1>1, <1>2, <1>3, <1>4

\* What the form offers is a decision about what it shows.
LEMMA OfferedIsGood ==
    ASSUME PagesAssumption, ViewFine(view, pause), ~view.moved, NEW type \in Inbox!Offered,
           NEW d, d = Inbox!Built(view.form, type), d # Inbox!NoDecision
    PROVE  Good(d, view.index, view.shown, view.shape)
<1> DEFINE filled == view.form
<1>1. /\ filled.args \in {"orig", "changed"} /\ view.index \in DOMAIN view.shape.tools
      /\ filled.args = "changed" => filled.edited /\ (Inbox!May("approve") => filled.made)
      /\ filled.at = view.shown /\ view.shape \in Requests
  BY AllowedHere DEF ViewFine, FormFine, Inbox!May
<1>2. type \in {"edit", "approve", "none", "reject"} /\ (type = "approve" => ~filled.edited)
  BY DEF Inbox!Offered, Inbox!Primary
<1>3. /\ d.at = filled.at /\ Inbox!May(d.type)
      /\ d.type # "reject" => d.args = d.seen
  BY <1>1, <1>2 DEF Inbox!Built, Inbox!Made, Inbox!Decision
<1>4. d.type \in AllowedIn(view.shape, view.index)
  BY <1>3, AllowedHere DEF Inbox!May
<1> QED BY <1>1, <1>3, <1>4, AllowedIs DEF Good, Seen

LEMMA AskInitially == PagesAssumption /\ Inbox!Init => AskInv
BY DEF Inbox!Init, Inbox!Waiting, Inbox!Idle, AskInv, SlotFine, RequestFine, GoodAll, SeenAll, Inbox!Slots,
       Inbox!SubmitSlots, Inbox!AutoSlots

\* The same display: what has changed is neither what is asked nor what is filled in.
Display(v, w, p) ==
    ViewFine(v, p) => ViewFine(w, p) /\ w.shown = v.shown /\ w.moved = v.moved

LEMMA RenderedIsFine ==
    ASSUME NEW v, NEW p
    PROVE  Display(v, Inbox!Rendered(v), p) /\ Display(v, Inbox!Due(v), p)
<1>1. \A w : Display(w, Inbox!Rendered(w), p)
  BY DEF Display, ViewFine, Inbox!Rendered
<1>2. \A w : Display(w, [w EXCEPT !.due = TRUE], p)
  BY DEF Display, ViewFine
<1>3. ViewFine(v, p) => Display(Inbox!Rendered(v), Inbox!Due(v), p)
  BY <1>2 DEF Inbox!Due
<1> QED BY <1>1, <1>3 DEF Display

\* A request goes on while the display does.
LEMMA SlotGoesOn ==
    ASSUME NEW f, NEW s, NEW v, NEW w, NEW p, SlotFine(f, s, v, p), Display(v, w, p)
    PROVE  SlotFine(f, s, w, p)
BY DEF SlotFine, Display

\* What is fine about a pause is so however it is marked.
LEMMA SamePause ==
    ASSUME NEW p, NEW r, r.n = p.n, r.shape = p.shape
    PROVE  /\ \A v : ViewFine(v, p) => ViewFine(v, r)
           /\ \A f, s, v : SlotFine(f, s, v, p) => SlotFine(f, s, v, r)
<1>1. \A v : ViewFine(v, p) => ViewFine(v, r)
  BY DEF ViewFine
<1>2. \A f : RequestFine(f, p) => RequestFine(f, r)
  BY DEF RequestFine
<1> QED BY <1>1, <1>2 DEF SlotFine

\* The requests, the view and the marks of the pause go on.
LEMMA AskGoesOn ==
    ASSUME AskInv, DOMAIN pause' = DOMAIN pause, pause'.n = pause.n, pause'.shape = pause.shape,
           view' = view \/ ViewFine(view', pause),
           SeenAll(taken'), ~pause'.gap => GoodAll(taken', pause.n, pause.shape),
           DOMAIN flight' = Inbox!Slots,
           \A s \in Inbox!Slots : SlotFine(flight'[s], s, view', pause)
    PROVE  AskInv'
<1>1. (view = Inbox!Unmounted \/ ViewFine(view, pause))'
  BY SamePause DEF AskInv, Inbox!Unmounted
<1>2. (\A s \in Inbox!Slots : SlotFine(flight[s], s, view, pause))'
  BY SamePause DEF Inbox!Slots, Inbox!SubmitSlots, Inbox!AutoSlots
<1>3. (DOMAIN flight = Inbox!Slots)'
  BY DEF Inbox!Slots, Inbox!SubmitSlots, Inbox!AutoSlots
<1> QED BY <1>1, <1>2, <1>3 DEF AskInv

\* The view goes on with the pause and the requests as they are.
LEMMA ViewOnly ==
    ASSUME AskInv, UNCHANGED <<pause, taken, flight>>, Display(view, view', pause),
           view' = view \/ ViewFine(view, pause)
    PROVE  AskInv'
<1>1. view' = view \/ ViewFine(view', pause)
  BY DEF Display
<1>2. \A s \in Inbox!Slots : SlotFine(flight'[s], s, view', pause)
  BY SlotGoesOn DEF AskInv
<1> QED BY <1>1, <1>2, AskGoesOn DEF AskInv

\* A user event finds a view whose effects have run.
LEMMA ReadyIs ==
    ASSUME AskInv, Inbox!Ready
    PROVE  ViewFine(view, pause) /\ ~view.moved
BY DEF AskInv, Inbox!Ready, Inbox!IsShown, Inbox!Unmounted, ViewFine

LEMMA ShownIs ==
    ASSUME AskInv, Inbox!IsShown
    PROVE  ViewFine(view, pause)
BY DEF AskInv, Inbox!IsShown, Inbox!Unmounted

\* The user fills in the form and goes from action to action.
LEMMA FormsAreFine ==
    ASSUME PagesAssumption, AskInv,
           Inbox!StreamUpdate \/ Inbox!EditArgs \/ Inbox!WriteReason \/ Inbox!ChooseReject
           \/ Inbox!Reset \/ Inbox!GoTo \/ Inbox!SaveDecision \/ Inbox!TogglePreference
    PROVE  AskInv'
<1> DEFINE index == view.index
           q == view.shape
<1>1. ASSUME NEW v, Inbox!Ready, Display(view, v, pause), view' = Inbox!Due(v) \/ view' = Inbox!Rendered(v),
             UNCHANGED <<pause, taken, flight>>
      PROVE  AskInv'
  <2>1. ViewFine(view, pause)
    BY <1>1, ReadyIs
  <2>2. Display(v, view', pause)
    BY <1>1, RenderedIsFine
  <2>3. Display(view, view', pause)
    BY <1>1, <2>2 DEF Display
  <2> QED BY <1>1, <2>1, <2>3, ViewOnly
<1>2. CASE Inbox!StreamUpdate
  BY <1>2, ShownIs, RenderedIsFine, ViewOnly DEF Inbox!StreamUpdate
<1>3. ASSUME NEW f, Inbox!ChangeForm(f),
             ViewFine(view, pause) /\ ~view.moved => FormFine(f, index, q) /\ f.at = view.form.at
      PROVE  AskInv'
  <2>1. ViewFine(view, pause) /\ ~view.moved
    BY <1>3, ReadyIs DEF Inbox!ChangeForm
  <2>2. Display(view, [view EXCEPT !.form = f], pause)
    BY <1>3, <2>1 DEF ViewFine, Display
  <2> QED BY <1>1, <1>3, <2>2 DEF Inbox!ChangeForm
<1> HIDE DEF index, q
<1>4. CASE Inbox!EditArgs
  <2>1. PICK args \in {"orig", "changed"} : Inbox!ChangeForm(Inbox!Edited(view.form, args))
    BY <1>4 DEF Inbox!EditArgs
  <2>2. ViewFine(view, pause) /\ ~view.moved
          => FormFine(Inbox!Edited(view.form, args), index, q)
             /\ Inbox!Edited(view.form, args).at = view.form.at
    BY AllowedHere DEF ViewFine, FormFine, Inbox!Edited, Inbox!May, index, q
  <2> QED BY <1>3, <2>1, <2>2
<1>5. CASE Inbox!WriteReason
  <2>1. Inbox!ChangeForm(Inbox!Reasoned(view.form, ~view.form.reason))
    BY <1>5 DEF Inbox!WriteReason
  <2>2. \A reason : ViewFine(view, pause) /\ ~view.moved
          => FormFine(Inbox!Reasoned(view.form, reason), index, q)
             /\ Inbox!Reasoned(view.form, reason).at = view.form.at
    BY AllowedHere DEF ViewFine, FormFine, Inbox!Reasoned, Inbox!May, index, q
  <2>3. ViewFine(view, pause) /\ ~view.moved
          => FormFine(Inbox!Reasoned(view.form, ~view.form.reason), index, q)
             /\ Inbox!Reasoned(view.form, ~view.form.reason).at = view.form.at
    BY <2>2, Zenon
  <2> QED BY <1>3, <2>1, <2>3, Zenon
<1>6. CASE Inbox!ChooseReject
  <2>1. Inbox!ChangeForm([view.form EXCEPT !.sel = "reject"])
    BY <1>6 DEF Inbox!ChooseReject
  <2>2. ViewFine(view, pause) /\ ~view.moved
          => FormFine([view.form EXCEPT !.sel = "reject"], index, q)
             /\ [view.form EXCEPT !.sel = "reject"].at = view.form.at
    BY DEF ViewFine, FormFine, index, q
  <2> QED BY <1>3, <2>1, <2>2
<1>7. CASE Inbox!Reset
  <2>1. Inbox!ChangeForm(Inbox!ResetForm(view.form))
    BY <1>7 DEF Inbox!Reset
  <2>2. ViewFine(view, pause) /\ ~view.moved
          => FormFine(Inbox!ResetForm(view.form), index, q)
             /\ Inbox!ResetForm(view.form).at = view.form.at
    BY DEF ViewFine, FormFine, Inbox!ResetForm, index, q
  <2> QED BY <1>3, <2>1, <2>2
<1>8. CASE Inbox!GoTo
  <2>1. PICK i \in DOMAIN view.shape.tools :
          view' = Inbox!Due([view EXCEPT !.index = i, !.form = Inbox!FreshForm(i)])
    BY <1>8 DEF Inbox!GoTo, Inbox!Shape
  <2> DEFINE v == [view EXCEPT !.index = i, !.form = Inbox!FreshForm(i)]
  <2>2. Inbox!Ready /\ UNCHANGED <<pause, taken, flight>> /\ ViewFine(view, pause) /\ ~view.moved
    BY <1>8, ReadyIs DEF Inbox!GoTo
  <2>3. FormFine(Inbox!FreshForm(i), i, view.shape) /\ Inbox!FreshForm(i).at = view.shown
    BY DEF FormFine, Inbox!FreshForm
  <2>4. Display(view, v, pause)
    BY <2>1, <2>2, <2>3 DEF ViewFine, Display
  <2> QED BY <1>1, <2>1, <2>2, <2>4
<1>9. CASE Inbox!SaveDecision
  <2> DEFINE last == index = Len(Inbox!Shape.tools)
             next == IF last THEN index ELSE index + 1
  <2>1. PICK type \in Inbox!Offered :
          LET decision == Inbox!Built(view.form, type)
              filled == IF last THEN [view.form EXCEPT !.sel = type] ELSE Inbox!FreshForm(next)
          IN /\ decision # Inbox!NoDecision
             /\ view' = Inbox!Due([view EXCEPT !.saved = Inbox!Saved(index, decision),
                                               !.index = next, !.form = filled])
    BY <1>9 DEF Inbox!SaveDecision, index
  <2>2. Inbox!Ready /\ ViewFine(view, pause) /\ ~view.moved /\ UNCHANGED <<pause, taken, flight>>
    BY <1>9, ReadyIs DEF Inbox!SaveDecision
  <2> DEFINE decision == Inbox!Built(view.form, type)
             filled == IF last THEN [view.form EXCEPT !.sel = type] ELSE Inbox!FreshForm(next)
             saved == Inbox!Saved(index, decision)
             v == [view EXCEPT !.saved = saved, !.index = next, !.form = filled]
  <2>3. Good(decision, index, view.shown, q)
    BY <2>1, <2>2, OfferedIsGood DEF index, q
  <2>4. \A i \in DOMAIN saved : Good(saved[i], i, view.shown, q)
    <3> HIDE DEF decision
    <3> QED BY <2>2, <2>3 DEF ViewFine, Inbox!Saved, q
  <2>5. index \in DOMAIN q.tools /\ FormFine(view.form, index, q) /\ view.form.at = view.shown
    BY <2>2 DEF ViewFine, index, q
  <2>6. next \in DOMAIN q.tools
    <3>1. q \in Requests /\ Inbox!Shape = q
      BY <2>2 DEF ViewFine, Inbox!Shape, q
    <3>2. DOMAIN q.tools = 1..Len(q.tools) /\ Len(q.tools) \in Nat \ {0}
      BY <3>1 DEF PagesAssumption, ConstantsOK
    <3> QED BY <2>5, <3>1, <3>2
  <2>7. FormFine(filled, next, q) /\ filled.at = view.shown
    <3>1. CASE last
      BY <2>5, <3>1 DEF FormFine
    <3>2. CASE ~last
      BY <3>2 DEF FormFine, Inbox!FreshForm
    <3> QED BY <3>1, <3>2
  <2> HIDE DEF saved, next, filled
  <2>8. Display(view, v, pause)
    BY <2>2, <2>4, <2>6, <2>7 DEF ViewFine, Display, q
  <2>9. view' = Inbox!Due(v)
    BY <2>1 DEF saved, filled
  <2> QED BY <1>1, <2>2, <2>8, <2>9
<1>10. CASE Inbox!TogglePreference
  <2>1. Inbox!Ready /\ UNCHANGED <<pause, taken, flight>>
        /\ \E cut : view' = [view EXCEPT !.cut = cut]
    BY <1>10 DEF Inbox!TogglePreference
  <2>2. Display(view, view', pause)
    BY <2>1 DEF Display, ViewFine
  <2> QED BY <2>1, <2>2, ReadyIs, ViewOnly
<1> QED BY <1>2, <1>4, <1>5, <1>6, <1>7, <1>8, <1>9, <1>10

\* Good decisions are sent.
LEMMA RequestIsFine ==
    ASSUME AskInv, ViewFine(view, pause), NEW slot \in Inbox!Slots \ Inbox!AutoSlots, NEW ds,
           GoodAll(ds, view.shown, view.shape), Inbox!Request(slot, ds),
           Display(view, view', pause), UNCHANGED <<pause, taken>>
    PROVE  AskInv'
<1> DEFINE f == [state |-> "sent", pause |-> view.shown, decisions |-> ds,
                 tries |-> 0, own |-> TRUE, alive |-> TRUE, gap |-> FALSE]
<1>1. RequestFine(f, pause)
  BY AllGoodSeen DEF RequestFine, ViewFine
<1>2. ViewFine(view', pause)
  BY DEF Display
<1>3. SlotFine(f, slot, view', pause)
  BY <1>1, <1>2 DEF SlotFine
<1>4. flight' = [flight EXCEPT ![slot] = f]
  BY DEF Inbox!Request
<1> HIDE DEF f
<1>5. DOMAIN flight' = Inbox!Slots
      /\ \A s \in Inbox!Slots : SlotFine(flight'[s], s, view', pause)
  BY <1>3, <1>4, SlotGoesOn DEF AskInv
<1> QED BY <1>2, <1>5, AskGoesOn DEF AskInv

\* One decision answers one action.
LEMMA OneIsAll ==
    ASSUME PagesAssumption, view.shape \in Requests, ~Inbox!Many,
           NEW d, NEW n, Good(d, 1, n, view.shape)
    PROVE  GoodAll(<<d>>, n, view.shape)
<1>1. DOMAIN view.shape.tools = {1}
  BY DEF PagesAssumption, ConstantsOK, Inbox!Shape, Inbox!Many
<1> QED BY <1>1 DEF GoodAll

\* The user's decisions are sent.
LEMMA UserDecides ==
    ASSUME PagesAssumption, AskInv,
           Inbox!Submit \/ Inbox!Resolve \/ Inbox!SubmitAll \/ Inbox!ApproveAll
    PROVE  AskInv'
<1> DEFINE q == view.shape
<1>1. /\ ViewFine(view, pause) /\ ~view.moved /\ UNCHANGED <<pause, taken>> /\ q \in Requests
      /\ Inbox!Shape = q
  <2>1. Inbox!Ready /\ UNCHANGED <<pause, taken>>
    BY DEF Inbox!Submit, Inbox!Resolve, Inbox!SubmitAll, Inbox!ApproveAll
  <2> QED BY <2>1, ReadyIs DEF ViewFine, Inbox!Shape
<1>2. {"submit", "again", "resolve", "all", "approve"} \subseteq Inbox!Slots \ Inbox!AutoSlots
      /\ Inbox!FreeSubmitSlot \subseteq {"submit", "again"}
  BY DEF Inbox!Slots, Inbox!SubmitSlots, Inbox!AutoSlots, Inbox!FreeSubmitSlot
<1>3. ASSUME NEW slot \in Inbox!Slots \ Inbox!AutoSlots, NEW ds, GoodAll(ds, view.shown, q),
             Inbox!Request(slot, ds), NEW v, Display(view, v, pause), view' = Inbox!Due(v)
      PROVE  AskInv'
  <2>1. Display(view, view', pause)
    BY <1>3, RenderedIsFine DEF Display
  <2> QED BY <1>1, <1>3, <2>1, RequestIsFine
<1>4. CASE Inbox!Submit
  <2>1. PICK slot \in Inbox!FreeSubmitSlot, type \in Inbox!Offered :
          LET decision == Inbox!Built(view.form, type)
          IN /\ decision # Inbox!NoDecision /\ Inbox!Request(slot, <<decision>>)
             /\ view' = Inbox!Due([view EXCEPT !.busy = TRUE, !.lock = TRUE, !.form.sel = type,
                                               !.form.base = FALSE])
    BY <1>4 DEF Inbox!Submit
  <2> DEFINE decision == Inbox!Built(view.form, type)
             v == [view EXCEPT !.busy = TRUE, !.lock = TRUE, !.form.sel = type, !.form.base = FALSE]
  <2>2. Good(decision, view.index, view.shown, q)
    BY <1>1, <2>1, OfferedIsGood
  <2>3. view.index = 1
    <3>1. ~Inbox!Many
      BY <1>4 DEF Inbox!Submit
    <3>2. DOMAIN q.tools = {1}
      BY <1>1, <3>1 DEF PagesAssumption, ConstantsOK, Inbox!Many
    <3> QED BY <1>1, <3>2 DEF ViewFine
  <2>4. GoodAll(<<decision>>, view.shown, q)
    <3> HIDE DEF decision
    <3> QED BY <1>1, <1>4, <2>2, <2>3, OneIsAll DEF Inbox!Submit
  <2>5. Display(view, v, pause)
    BY <1>1 DEF ViewFine, FormFine, Display
  <2>6. Inbox!Request(slot, <<decision>>) /\ view' = Inbox!Due(v) /\ slot \in Inbox!Slots \ Inbox!AutoSlots
    BY <1>2, <2>1
  <2> HIDE DEF v, decision
  <2> QED BY <1>3, <2>4, <2>5, <2>6
<1>5. CASE Inbox!Resolve
  <2> DEFINE v == [view EXCEPT !.busy = TRUE, !.form.base = FALSE]
  <2>1. Inbox!Request("resolve", <<>>) /\ view' = Inbox!Due(v)
    BY <1>5 DEF Inbox!Resolve
  <2>2. Display(view, v, pause) /\ GoodAll(<<>>, view.shown, q)
    BY <1>1 DEF ViewFine, FormFine, GoodAll, Display
  <2> HIDE DEF v
  <2> QED BY <1>2, <1>3, <2>1, <2>2
<1>6. CASE Inbox!SubmitAll
  <2> DEFINE ds == [i \in DOMAIN q.tools |-> view.saved[i]]
             v == [view EXCEPT !.allBusy = TRUE]
  <2>1. /\ DOMAIN view.saved = DOMAIN q.tools
        /\ Inbox!Request("all", ds) /\ view' = Inbox!Due(v)
    BY <1>1, <1>6 DEF Inbox!SubmitAll
  <2>2. GoodAll(ds, view.shown, q)
    BY <1>1, <2>1 DEF GoodAll, ViewFine
  <2>3. Display(view, v, pause)
    BY DEF ViewFine, Display
  <2> HIDE DEF v, ds
  <2> QED BY <1>2, <1>3, <2>1, <2>2, <2>3
<1>7. CASE Inbox!ApproveAll
  <2> DEFINE d == Inbox!Decision("approve", "orig", "orig", "all", view.shown)
             ds == [i \in DOMAIN q.tools |-> d]
  <2>1. Inbox!AllAllowApprove /\ Inbox!Request("approve", ds) /\ view' = view
    BY <1>1, <1>7 DEF Inbox!ApproveAll
  <2>2. ASSUME NEW i \in DOMAIN q.tools PROVE Good(d, i, view.shown, q)
    <3>1. PICK k \in DOMAIN q.configs :
            q.configs[k].name = q.tools[i] /\ "approve" \in q.configs[k].allowed
      BY <1>1, <2>1 DEF Inbox!AllAllowApprove
    <3>2. \A m \in DOMAIN q.configs :
             q.configs[m].name = q.tools[i] => "approve" \in q.configs[m].allowed
      BY <1>1, <3>1 DEF PagesAssumption, ConstantsOK
    <3>3. d.at = view.shown /\ d.type = "approve" /\ d.by = "all"
      BY DEF Inbox!Decision
    <3> QED BY <3>2, <3>3 DEF Good, Seen
  <2>3. GoodAll(ds, view.shown, q)
    <3> HIDE DEF d
    <3> QED BY <2>2 DEF GoodAll
  <2>4. Display(view, view', pause)
    BY <2>1 DEF Display
  <2> HIDE DEF ds
  <2> QED BY <1>1, <1>2, <2>1, <2>3, <2>4, RequestIsFine
<1> QED BY <1>4, <1>5, <1>6, <1>7

\* What the effects find is filled in for the pause on display.
LEMMA FoundIsFine ==
    ASSUME PagesAssumption, ViewFine(view, pause)
    PROVE  /\ ViewFine(Inbox!Found, pause) /\ Inbox!Found.shown = view.shown
           /\ Inbox!Found.shape = view.shape /\ Inbox!Found.moved = FALSE
<1>1. 1 \in DOMAIN view.shape.tools
  BY DEF PagesAssumption, ConstantsOK, ViewFine
<1>2. FormFine(Inbox!FreshForm(1), 1, view.shape) /\ Inbox!FreshForm(1).at = view.shown
  BY DEF FormFine, Inbox!FreshForm
<1>3. CASE view.moved
  <2>1. Inbox!Found = [Inbox!Renewed EXCEPT !.moved = FALSE, !.due = FALSE]
    BY <1>3 DEF Inbox!Found
  <2> QED BY <1>1, <1>2, <2>1 DEF ViewFine, Inbox!Renewed
<1>4. CASE ~view.moved
  <2>1. Inbox!Found = [view EXCEPT !.moved = FALSE, !.due = FALSE]
    BY <1>4 DEF Inbox!Found
  <2> QED BY <1>4, <2>1 DEF ViewFine
<1> QED BY <1>3, <1>4 DEF ViewFine

\* The effect approves on its own, and tries again while its pause is on display.
LEMMA EffectDecides ==
    ASSUME PagesAssumption, AskInv,
           Inbox!AutoEffect \/ (\E slot \in Inbox!AutoSlots : Inbox!AutoRetry(slot))
    PROVE  AskInv'
<1>1. UNCHANGED <<pause, taken>>
  BY DEF Inbox!AutoEffect, Inbox!AutoRetry
<1>2. Inbox!AutoSlots \subseteq Inbox!Slots /\ Inbox!FreeAutoSlot \subseteq Inbox!AutoSlots
  BY DEF Inbox!Slots, Inbox!FreeAutoSlot, Inbox!AutoSlots
<1>3. DOMAIN Inbox!Killed = Inbox!Slots
      /\ \A s \in Inbox!Slots : \A w : ViewFine(w, pause) => SlotFine(Inbox!Killed[s], s, w, pause)
  <2>1. DOMAIN Inbox!Killed = Inbox!Slots
        /\ \A s \in Inbox!Slots : Inbox!Killed[s] = IF s \in Inbox!AutoSlots
                                                    THEN [flight[s] EXCEPT !.alive = FALSE] ELSE flight[s]
    BY DEF Inbox!Killed
  <2>2. \A f : RequestFine(f, pause)
          => RequestFine([f EXCEPT !.alive = FALSE], pause) /\ ~[f EXCEPT !.alive = FALSE].alive
    BY DEF RequestFine
  <2>3. ASSUME NEW s \in Inbox!Slots, NEW w, ViewFine(w, pause)
        PROVE  SlotFine(Inbox!Killed[s], s, w, pause)
    <3>1. RequestFine(flight[s], pause)
      BY <2>3 DEF AskInv, SlotFine
    <3>2. CASE s \in Inbox!AutoSlots
      BY <2>1, <2>2, <2>3, <3>1, <3>2 DEF SlotFine
    <3>3. CASE s \notin Inbox!AutoSlots
      BY <2>1, <2>3, <3>1, <3>3 DEF SlotFine
    <3> QED BY <3>2, <3>3
  <2> QED BY <2>1, <2>3
<1>4. ASSUME Inbox!AutoEffect
      PROVE  /\ ViewFine(view, pause) /\ ViewFine(Inbox!Found, pause)
             /\ Inbox!Found.shown = view.shown /\ Inbox!Found.shape = view.shape
             /\ Inbox!Found.moved = FALSE
  BY <1>4, ShownIs, FoundIsFine DEF Inbox!AutoEffect
<1>5. CASE Inbox!AutoEffect /\ Inbox!AutoWanted(Inbox!Found) /\ ~Inbox!Found.autoKey
  <2> DEFINE d == Inbox!AutoDecision(Inbox!Found)
             v == [Inbox!Found EXCEPT !.autoKey = TRUE, !.autoBusy = TRUE, !.cut = FALSE]
             f == [state |-> "sent", pause |-> view.shown, decisions |-> <<d>>,
                   tries |-> 0, own |-> TRUE, alive |-> TRUE, gap |-> FALSE]
  <2>1. PICK slot \in Inbox!AutoSlots :
          flight' = [Inbox!Killed EXCEPT ![slot] = f] /\ view' = Inbox!Rendered(v)
    BY <1>2, <1>5 DEF Inbox!AutoEffect
  <2>2. GoodAll(<<d>>, view.shown, view.shape)
    <3>1. /\ ~Inbox!Many /\ "approve" \in AllowedIn(view.shape, 1) /\ view.shape \in Requests
          /\ 1 \in DOMAIN view.shape.tools
      BY <1>4, <1>5, AllowedHere
         DEF Inbox!AutoWanted, ViewFine, PagesAssumption, ConstantsOK
    <3>2. d.at = view.shown /\ d.type = "approve" /\ d.by = "auto"
      BY <1>4, <1>5 DEF Inbox!AutoDecision, Inbox!Decision
    <3>3. Good(d, 1, view.shown, view.shape)
      <4> HIDE DEF d
      <4> QED BY <3>1, <3>2, AllowedIs DEF Good, Seen
    <3> HIDE DEF d
    <3> QED BY <3>1, <3>3, OneIsAll
  <2>3. ViewFine(v, pause) /\ v.moved = FALSE /\ v.shown = view.shown
    BY <1>4, <1>5 DEF ViewFine
  <2>4. ViewFine(view', pause) /\ ~view'.moved /\ view'.shown = view.shown
    <3> HIDE DEF v
    <3> QED BY <2>1, <2>3, RenderedIsFine DEF Display
  <2>5. RequestFine(f, pause)
    <3> HIDE DEF d
    <3> QED BY <1>4, <1>5, <2>2, AllGoodSeen DEF RequestFine, ViewFine
  <2>6. SlotFine(f, slot, view', pause)
    BY <2>4, <2>5 DEF SlotFine
  <2> HIDE DEF f, v, d
  <2>7. DOMAIN flight' = Inbox!Slots
        /\ \A s \in Inbox!Slots : flight'[s] = IF s = slot THEN f ELSE Inbox!Killed[s]
    BY <1>2, <1>3, <2>1
  <2>8. \A s \in Inbox!Slots : SlotFine(flight'[s], s, view', pause)
    <3>1. ASSUME NEW s \in Inbox!Slots PROVE SlotFine(flight'[s], s, view', pause)
      BY <1>3, <2>4, <2>6, <2>7
    <3> QED BY <3>1
  <2> QED BY <1>1, <2>4, <2>7, <2>8, AskGoesOn DEF AskInv
<1>6. CASE Inbox!AutoEffect /\ ~(Inbox!AutoWanted(Inbox!Found) /\ ~Inbox!Found.autoKey)
  <2>1. flight' = Inbox!Killed
        /\ \E cut : view' = Inbox!Rendered([Inbox!Found EXCEPT !.cut = cut])
    BY <1>6 DEF Inbox!AutoEffect
  <2>2. ViewFine(view', pause)
    <3>1. PICK cut : view' = Inbox!Rendered([Inbox!Found EXCEPT !.cut = cut])
      BY <2>1
    <3>2. ViewFine([Inbox!Found EXCEPT !.cut = cut], pause)
      BY <1>4, <1>6 DEF ViewFine
    <3> QED BY <3>1, <3>2, RenderedIsFine DEF Display
  <2>3. \A s \in Inbox!Slots : SlotFine(flight'[s], s, view', pause)
    <3>1. ASSUME NEW s \in Inbox!Slots PROVE SlotFine(flight'[s], s, view', pause)
      BY <1>3, <2>1, <2>2
    <3> QED BY <3>1
  <2> QED BY <1>1, <1>3, <2>1, <2>2, <2>3, AskGoesOn DEF AskInv
<1>7. ASSUME NEW slot \in Inbox!AutoSlots, Inbox!AutoRetry(slot) PROVE AskInv'
  <2> DEFINE f == flight[slot]
             next == IF f.alive
                     THEN [f EXCEPT !.state = "sent", !.pause = view.shown, !.tries = @ + 1,
                                    !.gap = view.moved]
                     ELSE Inbox!Idle
  <2>1. /\ f.state = "waiting" /\ view' = view /\ slot \in Inbox!Slots
        /\ SlotFine(f, slot, view, pause)
        /\ DOMAIN flight = Inbox!Slots /\ flight' = [flight EXCEPT ![slot] = next]
    <3>1. slot \in Inbox!Slots /\ f.state = "waiting" /\ view' = view
      BY <1>2, <1>7 DEF Inbox!AutoRetry
    <3>2. flight' = [flight EXCEPT ![slot] = next]
      BY <1>7 DEF Inbox!AutoRetry
    <3> QED BY <3>1, <3>2 DEF AskInv
  <2>2. SlotFine(next, slot, view, pause)
    <3>1. CASE ~f.alive
      BY <3>1 DEF SlotFine, RequestFine, SeenAll, Inbox!Idle, AskInv
    <3>2. CASE f.alive
      <4>1. ViewFine(view, pause) /\ (~view.moved => f.pause = view.shown /\ ~f.gap)
        BY <2>1, <3>2 DEF SlotFine
      <4>2. /\ DOMAIN next = DOMAIN f /\ next.state = "sent" /\ next.pause = view.shown
            /\ next.gap = view.moved /\ next.decisions = f.decisions
        BY <2>1, <3>2 DEF SlotFine, RequestFine
      <4> HIDE DEF next
      <4>3. RequestFine(next, pause)
        BY <2>1, <4>1, <4>2 DEF SlotFine, RequestFine, ViewFine
      <4> QED BY <4>1, <4>2, <4>3 DEF SlotFine
    <3> QED BY <3>1, <3>2
  <2> HIDE DEF next
  <2>3. DOMAIN flight' = Inbox!Slots
        /\ \A s \in Inbox!Slots : SlotFine(flight'[s], s, view', pause)
    BY <2>1, <2>2 DEF AskInv
  <2> QED BY <1>1, <2>1, <2>3, AskGoesOn DEF AskInv
<1> QED BY <1>5, <1>6, <1>7

\* What a handler leaves of the view when its request is over.
LEMMA AfterIsFine ==
    ASSUME NEW v, NEW slot \in Inbox!Slots, NEW ok \in BOOLEAN, NEW alive, NEW p
    PROVE  Display(v, Inbox!AfterUser(v, slot, ok), p) /\ Display(v, Inbox!AfterAuto(v, alive, ok), p)
<1>1. /\ Display(v, [v EXCEPT !.autoBusy = FALSE], p)
      /\ Display(v, [v EXCEPT !.autoKey = FALSE, !.autoFailed = TRUE, !.autoBusy = FALSE], p)
      /\ Display(v, [v EXCEPT !.autoKey = FALSE], p)
      /\ Display(v, [v EXCEPT !.busy = FALSE, !.lock = FALSE, !.finished = ok], p)
      /\ Display(v, [v EXCEPT !.busy = FALSE], p)
      /\ Display(v, [v EXCEPT !.allBusy = FALSE, !.saved = <<>>], p)
      /\ Display(v, [v EXCEPT !.allBusy = FALSE, !.saved = @], p)
  BY DEF Display, ViewFine
<1>2. \A w, x : Display(v, w, p) /\ Display(w, x, p) => Display(v, x, p)
  BY DEF Display
<1>3. \A w : Display(v, w, p) => Display(v, Inbox!Due(w), p) /\ Display(v, Inbox!Rendered(w), p)
  BY <1>2, RenderedIsFine
<1>4. Display(v, v, p)
  BY DEF Display
<1>5. Display(v, Inbox!AfterUser(v, slot, ok), p)
  <2>1. CASE slot \in Inbox!SubmitSlots
    BY <1>1, <1>3, <2>1 DEF Inbox!AfterUser
  <2>2. CASE slot = "resolve"
    BY <1>1, <1>3, <2>2 DEF Inbox!AfterUser, Inbox!SubmitSlots
  <2>3. CASE slot = "all"
    <3>1. CASE ok
      BY <1>1, <1>3, <2>3, <3>1 DEF Inbox!AfterUser, Inbox!SubmitSlots
    <3>2. CASE ~ok
      BY <1>1, <1>3, <2>3, <3>2 DEF Inbox!AfterUser, Inbox!SubmitSlots
    <3> QED BY <3>1, <3>2
  <2>4. CASE slot \notin Inbox!SubmitSlots \cup {"resolve", "all"}
    BY <1>4, <2>4 DEF Inbox!AfterUser
  <2> QED BY <2>1, <2>2, <2>3, <2>4
<1>6. Display(v, Inbox!AfterAuto(v, alive, ok), p)
  BY <1>1, <1>3, <1>4 DEF Inbox!AfterAuto
<1> QED BY <1>5, <1>6

\* A request is settled.
LEMMA SettledIsFine ==
    ASSUME AskInv, NEW slot \in Inbox!Slots, NEW ok \in BOOLEAN, NEW dropped,
           Inbox!Settle(slot, ok, dropped)
    PROVE  /\ DOMAIN flight' = Inbox!Slots /\ (ViewFine(view', pause) \/ view' = view)
           /\ \A s \in Inbox!Slots : SlotFine(flight'[s], s, view', pause)
<1> DEFINE v == [view EXCEPT !.cut = @ \/ dropped]
<1>1. /\ flight' = [flight EXCEPT ![slot] = Inbox!Idle] /\ RequestFine(Inbox!Idle, pause)
      /\ SlotFine(Inbox!Idle, slot, view', pause)
  BY DEF Inbox!Settle, SlotFine, RequestFine, SeenAll, Inbox!Idle, AskInv
<1>2. Display(view, v, pause)
  <2>1. \A cut : Display(view, [view EXCEPT !.cut = cut], pause)
    BY DEF Display, ViewFine
  <2> QED BY <2>1
<1>3. Display(view, view', pause) /\ (ViewFine(view, pause) \/ view' = view)
  <2>1. CASE ~flight[slot].own
    BY <2>1 DEF Inbox!Settle, Display
  <2>2. CASE flight[slot].own
    <3>1. ViewFine(view, pause)
      BY <2>2 DEF AskInv, SlotFine
    <3>2. view' \in {Inbox!AfterUser(v, slot, ok), Inbox!AfterAuto(v, flight[slot].alive, ~ok)}
      BY <2>2 DEF Inbox!Settle
    <3> HIDE DEF v
    <3>3. Display(v, view', pause)
      BY <3>2, AfterIsFine
    <3> QED BY <1>2, <3>1, <3>3 DEF Display
  <2> QED BY <2>1, <2>2
<1>4. \A s \in Inbox!Slots : SlotFine(flight[s], s, view', pause)
  BY <1>3, SlotGoesOn DEF AskInv
<1> HIDE DEF v
<1>5. \A s \in Inbox!Slots : flight'[s] = IF s = slot THEN Inbox!Idle ELSE flight[s]
  BY <1>1 DEF AskInv
<1>6. ASSUME NEW s \in Inbox!Slots PROVE SlotFine(flight'[s], s, view', pause)
  BY <1>1, <1>4, <1>5
<1>7. DOMAIN flight' = Inbox!Slots
  BY <1>1 DEF AskInv
<1> QED BY <1>3, <1>6, <1>7 DEF Display

\* What the server takes has been decided for the pause that waits.
LEMMA AcceptedIsGood ==
    ASSUME AskInv, NEW slot \in Inbox!Slots, Inbox!Accepted(slot) \/ UNCHANGED <<pause, taken>>
    PROVE  /\ DOMAIN pause' = DOMAIN pause /\ pause'.n = pause.n /\ pause'.shape = pause.shape
           /\ SeenAll(taken') /\ (~pause'.gap => GoodAll(taken', pause.n, pause.shape))
<1>1. CASE Inbox!Accepted(slot)
  <2>1. /\ flight[slot].state = "sent" /\ pause.n = flight[slot].pause
        /\ taken' = flight[slot].decisions
        /\ pause' = [pause EXCEPT !.open = FALSE, !.gap = flight[slot].gap]
    BY <1>1 DEF Inbox!Accepted, Inbox!Answers
  <2>2. /\ DOMAIN pause' = DOMAIN pause /\ pause'.n = pause.n /\ pause'.shape = pause.shape
        /\ pause'.gap = flight[slot].gap
    BY <2>1 DEF AskInv
  <2> QED BY <2>1, <2>2 DEF AskInv, SlotFine, RequestFine
<1>2. CASE UNCHANGED <<pause, taken>>
  BY <1>2 DEF AskInv
<1> QED BY <1>1, <1>2

LEMMA AnswersArrive ==
    ASSUME AskInv,
           (\E slot \in Inbox!Slots : \/ Inbox!Take(slot) \/ Inbox!Consumed(slot)
                                      \/ Inbox!Dropped(slot) \/ Inbox!Fails(slot))
           \/ (\E slot \in Inbox!AutoSlots : Inbox!AutoFails(slot))
    PROVE  AskInv'
<1>1. ASSUME NEW slot \in Inbox!Slots,
             Inbox!Take(slot) \/ Inbox!Consumed(slot) \/ Inbox!Dropped(slot) \/ Inbox!Fails(slot)
      PROVE  AskInv'
  <2>1. Inbox!Accepted(slot) \/ UNCHANGED <<pause, taken>>
    BY <1>1 DEF Inbox!Take, Inbox!Consumed, Inbox!Dropped, Inbox!Fails, Inbox!Unheard
  <2>2. \A ok \in BOOLEAN : \A dropped : Inbox!Settle(slot, ok, dropped)
           => /\ DOMAIN flight' = Inbox!Slots /\ (ViewFine(view', pause) \/ view' = view)
              /\ \A s \in Inbox!Slots : SlotFine(flight'[s], s, view', pause)
    BY SettledIsFine
  <2>3. (slot \in Inbox!SubmitSlots \cup Inbox!AutoSlots) \in BOOLEAN
    OBVIOUS
  <2>4. \E ok \in BOOLEAN : \E dropped : Inbox!Settle(slot, ok, dropped)
    <3>1. \/ Inbox!Settle(slot, slot \in Inbox!SubmitSlots \cup Inbox!AutoSlots, FALSE)
          \/ Inbox!Settle(slot, TRUE, FALSE) \/ Inbox!Settle(slot, TRUE, TRUE)
          \/ Inbox!Settle(slot, FALSE, FALSE)
      BY <1>1, Zenon DEF Inbox!Take, Inbox!Consumed, Inbox!Dropped, Inbox!Fails
    <3> QED BY <2>3, <3>1, Zenon
  <2>5. /\ DOMAIN flight' = Inbox!Slots /\ (ViewFine(view', pause) \/ view' = view)
        /\ \A s \in Inbox!Slots : SlotFine(flight'[s], s, view', pause)
    BY <2>2, <2>4
  <2>6. /\ DOMAIN pause' = DOMAIN pause /\ pause'.n = pause.n /\ pause'.shape = pause.shape
        /\ SeenAll(taken') /\ (~pause'.gap => GoodAll(taken', pause.n, pause.shape))
    BY <2>1, AcceptedIsGood
  <2> QED BY <2>5, <2>6, AskGoesOn
<1>2. ASSUME NEW slot \in Inbox!AutoSlots, Inbox!AutoFails(slot) PROVE AskInv'
  <2>1. slot \in Inbox!Slots /\ (Inbox!Accepted(slot) \/ UNCHANGED <<pause, taken>>)
        /\ UNCHANGED view
    BY <1>2 DEF Inbox!Slots, Inbox!AutoFails, Inbox!Unheard
  <2>2. /\ SlotFine(flight[slot], slot, view, pause) /\ DOMAIN flight = Inbox!Slots
        /\ flight[slot].state = "sent"
    BY <1>2, <2>1 DEF AskInv, Inbox!AutoFails
  <2>3. flight' = [flight EXCEPT ![slot] = [flight[slot] EXCEPT !.state = "waiting"]]
    BY <1>2, <2>2 DEF Inbox!AutoFails
  <2>4. SlotFine([flight[slot] EXCEPT !.state = "waiting"], slot, view', pause)
    BY <2>1, <2>2 DEF SlotFine, RequestFine
  <2>5. DOMAIN flight' = Inbox!Slots
        /\ \A s \in Inbox!Slots : SlotFine(flight'[s], s, view', pause)
    BY <2>1, <2>2, <2>3, <2>4 DEF AskInv
  <2>6. /\ DOMAIN pause' = DOMAIN pause /\ pause'.n = pause.n /\ pause'.shape = pause.shape
        /\ SeenAll(taken') /\ (~pause'.gap => GoodAll(taken', pause.n, pause.shape))
    BY <2>1, AcceptedIsGood
  <2> QED BY <2>1, <2>5, <2>6, AskGoesOn
<1> QED BY <1>1, <1>2

\* The browser shows the pause, the next one instead, or none.
LEMMA ShownAndHidden ==
    ASSUME PagesAssumption, AskInv, Inbox!Show \/ Inbox!Switch \/ Inbox!Hide
    PROVE  AskInv'
<1>1. /\ UNCHANGED <<pause, taken>> /\ pause.n \in Nat \ {0} /\ pause.shape \in Requests
      /\ SeenAll(taken') /\ (~pause'.gap => GoodAll(taken', pause.n, pause.shape))
  BY DEF AskInv, Inbox!Show, Inbox!Switch, Inbox!Hide
<1>2. ASSUME ViewFine(view', pause), view'.moved = TRUE, UNCHANGED flight
      PROVE  AskInv'
  <2>1. \A s \in Inbox!Slots : SlotFine(flight'[s], s, view', pause)
    BY <1>2 DEF AskInv, SlotFine
  <2> QED BY <1>1, <1>2, <2>1, AskGoesOn DEF AskInv
<1>3. CASE Inbox!Show
  <2>1. view' = Inbox!NewView /\ UNCHANGED flight
    BY <1>3 DEF Inbox!Show
  <2>2. ViewFine(Inbox!NewView, pause) /\ Inbox!NewView.moved = TRUE
    BY <1>1 DEF ViewFine, Inbox!NewView, Inbox!Due, Inbox!Rendered
  <2> QED BY <1>2, <2>1, <2>2
<1>4. CASE Inbox!Switch
  <2> DEFINE v == [view EXCEPT !.shown = pause.n, !.shape = pause.shape, !.moved = TRUE]
  <2>1. view' = Inbox!Due(v) /\ UNCHANGED flight /\ ViewFine(view, pause) /\ Inbox!IsShown
    BY <1>4, ShownIs DEF Inbox!Switch
  <2>2. ViewFine([v EXCEPT !.due = TRUE], pause) /\ [v EXCEPT !.due = TRUE].moved = TRUE
    BY <1>1, <2>1 DEF ViewFine
  <2>3. Inbox!Due(v) = Inbox!Rendered([v EXCEPT !.due = TRUE])
    BY <2>1 DEF Inbox!Due, Inbox!Rendered, ViewFine
  <2> HIDE DEF v
  <2>4. ViewFine(view', pause) /\ view'.moved = TRUE
    BY <2>1, <2>2, <2>3, RenderedIsFine DEF Display
  <2> QED BY <1>2, <2>1, <2>4
<1>5. CASE Inbox!Hide
  <2>1. view' = Inbox!Unmounted
        /\ flight' = [s \in Inbox!Slots |-> [flight[s] EXCEPT !.own = FALSE, !.alive = FALSE]]
    BY <1>5 DEF Inbox!Hide, Inbox!Unmount
  <2>2. \A f : RequestFine(f, pause) =>
           LET g == [f EXCEPT !.own = FALSE, !.alive = FALSE]
           IN RequestFine(g, pause) /\ ~g.own /\ ~g.alive
    BY DEF RequestFine
  <2>3. \A s \in Inbox!Slots : SlotFine(flight'[s], s, view', pause)
    BY <2>1, <2>2 DEF AskInv, SlotFine
  <2>4. DOMAIN flight' = Inbox!Slots
    BY <2>1
  <2>5. (view = Inbox!Unmounted \/ ViewFine(view, pause))'
    BY <2>1 DEF Inbox!Unmounted
  <2> QED BY <1>1, <2>1, <2>3, <2>4, <2>5
          DEF AskInv, Inbox!Slots, Inbox!SubmitSlots, Inbox!AutoSlots
<1> QED BY <1>3, <1>4, <1>5

\* The server pauses again: what is on display or under way is about an earlier pause.
LEMMA PausesAgain == AskInv /\ Inbox!PauseAgain => AskInv'
<1> SUFFICES ASSUME AskInv, Inbox!PauseAgain PROVE AskInv'
  OBVIOUS
<1>1. PICK q \in Requests :
        /\ pause' = [n |-> pause.n + 1, shape |-> q, open |-> TRUE, trusted |-> prefs, gap |-> FALSE]
        /\ taken' = <<>> /\ UNCHANGED <<view, flight>>
  BY DEF Inbox!PauseAgain, Inbox!Waiting
<1>2. pause.n \in Nat \ {0} /\ pause'.n = pause.n + 1 /\ pause'.shape = q
  BY <1>1 DEF AskInv
<1>3. \A v : ViewFine(v, pause) => ViewFine(v, pause')
  BY <1>2 DEF ViewFine
<1>4. \A f : RequestFine(f, pause) => RequestFine(f, pause')
  BY <1>2 DEF RequestFine
<1>5. \A s \in Inbox!Slots : SlotFine(flight[s], s, view, pause')
  BY <1>3, <1>4 DEF AskInv, SlotFine
<1>6. SeenAll(taken') /\ GoodAll(taken', pause'.n, pause'.shape)
  BY <1>1 DEF GoodAll, SeenAll
<1>7. (view = Inbox!Unmounted \/ ViewFine(view, pause))'
  BY <1>1, <1>3 DEF AskInv, Inbox!Unmounted
<1> QED BY <1>1, <1>2, <1>5, <1>6, <1>7
        DEF AskInv, Inbox!Slots, Inbox!SubmitSlots, Inbox!AutoSlots

LEMMA AskKept == PagesAssumption /\ AskInv /\ (Inbox!Next \/ UNCHANGED inbox) => AskInv'
<1> SUFFICES ASSUME PagesAssumption, AskInv, Inbox!Next \/ UNCHANGED inbox PROVE AskInv'
  OBVIOUS
<1>1. CASE Inbox!AnsweredElsewhere
  <2>1. pause' = [pause EXCEPT !.open = FALSE] /\ UNCHANGED <<taken, view, flight>>
    BY <1>1 DEF Inbox!AnsweredElsewhere
  <2>2. /\ DOMAIN pause' = DOMAIN pause /\ pause'.n = pause.n /\ pause'.shape = pause.shape
        /\ pause'.gap = pause.gap
    BY <2>1 DEF AskInv
  <2> QED BY <2>1, <2>2, AskGoesOn DEF AskInv
<1>2. CASE UNCHANGED inbox
  BY <1>2, AskGoesOn DEF inbox, AskInv
<1> QED BY <1>1, <1>2, ShownAndHidden, PausesAgain, FormsAreFine, UserDecides, EffectDecides,
           AnswersArrive DEF Inbox!Next

LEMMA DecisionsAreGood == AskInv => Inbox!AllowedOnly /\ Inbox!SeenIsRun /\ Inbox!DecidedHere
BY DEF AskInv, GoodAll, Good, SeenAll, Seen, Inbox!AllowedOnly, Inbox!SeenIsRun, Inbox!DecidedHere

-----------------------------------------------------------------------------
(* The types of the approval of tool calls. *)

\* What is filled in at a view, next to what ViewFine says of it.
ViewShape(v) ==
    /\ DOMAIN v = {"shown", "shape", "index", "form", "saved", "busy", "allBusy", "lock",
                   "finished", "autoBusy", "autoKey", "autoFailed", "autoSeen", "due", "moved",
                   "cut"}
    /\ v.form \in Inbox!FormRecord
    /\ ~v.moved => DOMAIN v.saved \subseteq DOMAIN v.shape.tools
    /\ \A i \in DOMAIN v.saved : v.saved[i] \in Inbox!DecisionRecord

ViewTyped(v) == v = Inbox!Unmounted \/ ViewShape(v)

\* A request that waits for another attempt has one left.
FlightShape(f) ==
    f \in Inbox!FlightRecord /\ (f.state = "waiting" => f.tries < Bound.inbox.retries)

PauseShape ==
    /\ DOMAIN pause = {"n", "shape", "open", "trusted", "gap"}
    /\ pause.n \in Inbox!Pauses /\ pause.shape \in Requests /\ pause.open \in BOOLEAN /\ pause.gap \in BOOLEAN

InboxShape ==
    /\ PauseShape /\ ViewTyped(view)
    /\ taken \in Seq(Inbox!DecisionRecord)
    /\ DOMAIN flight = Inbox!Slots /\ flight = [s \in Inbox!Slots |-> flight[s]]
    /\ \A s \in Inbox!Slots : FlightShape(flight[s])
    /\ prefs \subseteq AutoTools
    /\ events \in 0..Bound.inbox.events

LEMMA InboxShapeIsType == AskInv /\ InboxShape => Inbox!TypeOK
<1> SUFFICES ASSUME AskInv, InboxShape PROVE Inbox!TypeOK
  OBVIOUS
<1>1. flight \in [Inbox!Slots -> Inbox!FlightRecord]
  BY DEF InboxShape, FlightShape
<1>2. Inbox!IsShown => ViewShape(view) /\ ViewFine(view, pause)
  BY DEF AskInv, InboxShape, ViewTyped, Inbox!IsShown, Inbox!Unmounted
<1>3. Inbox!IsShown => /\ view.shown \in 1..pause.n /\ view.shape \in Requests
                       /\ view.form \in Inbox!FormRecord
                       /\ ~view.moved => /\ view.index \in DOMAIN Inbox!Shape.tools
                                         /\ DOMAIN view.saved \subseteq DOMAIN Inbox!Shape.tools
                       /\ \A i \in DOMAIN view.saved : view.saved[i] \in Inbox!DecisionRecord
  <2>1. pause.n \in Nat
    BY DEF AskInv
  <2> QED BY <1>2, <2>1 DEF ViewFine, ViewShape, Inbox!Shape
<1> QED BY <1>1, <1>3 DEF InboxShape, PauseShape, Inbox!TypeOK

LEMMA IdleShape == BoundsAssumption => FlightShape(Inbox!Idle)
BY DEF BoundsAssumption, BoundsOK, FlightShape, Inbox!Idle, Inbox!FlightRecord

LEMMA InboxShapeInitially == BoundsAssumption /\ Inbox!Init => InboxShape
<1> SUFFICES ASSUME BoundsAssumption, Inbox!Init PROVE InboxShape
  OBVIOUS
<1>1. PauseShape
  BY DEF Inbox!Init, Inbox!Waiting, PauseShape, Inbox!Pauses, BoundsAssumption, BoundsOK
<1>2. \A s \in Inbox!Slots : FlightShape(flight[s])
  BY IdleShape DEF Inbox!Init
<1>3. events \in 0..Bound.inbox.events
  BY DEF Inbox!Init, BoundsAssumption, BoundsOK
<1>4. prefs \subseteq AutoTools /\ ViewTyped(view) /\ flight = [s \in Inbox!Slots |-> Inbox!Idle]
  BY DEF Inbox!Init, ViewTyped
<1>5. taken \in Seq(Inbox!DecisionRecord)
  BY DEF Inbox!Init
<1> QED BY <1>1, <1>2, <1>3, <1>4, <1>5 DEF InboxShape

\* A step to views and requests that are typed.
LEMMA InboxShapeGoesOn ==
    ASSUME InboxShape, PauseShape', ViewTyped(view'),
           taken' \in Seq(Inbox!DecisionRecord),
           DOMAIN flight' = Inbox!Slots, flight' = [s \in Inbox!Slots |-> flight'[s]],
           \A s \in Inbox!Slots : FlightShape(flight'[s]),
           prefs' \subseteq AutoTools, events' \in 0..Bound.inbox.events
    PROVE  InboxShape'
<1>1. ViewTyped(view)'
  BY DEF ViewTyped, ViewShape, Inbox!Unmounted, Inbox!FormRecord, Inbox!DecisionRecord,
         Inbox!Selections, Inbox!Pauses, Inbox!Types, Inbox!Args
<1>2. (Inbox!Slots)' = Inbox!Slots /\ (Inbox!DecisionRecord)' = Inbox!DecisionRecord
  BY DEF Inbox!Slots, Inbox!SubmitSlots, Inbox!AutoSlots, Inbox!DecisionRecord, Inbox!Pauses, Inbox!Types, Inbox!Args
<1>3. (\A s \in Inbox!Slots : FlightShape(flight[s]))'
  BY <1>2 DEF FlightShape, Inbox!FlightRecord
<1> QED BY <1>1, <1>2, <1>3 DEF InboxShape

LEMMA RenderedTyped ==
    ASSUME NEW v, ViewTyped(v)
    PROVE  ViewTyped(Inbox!Rendered(v)) /\ ViewTyped(Inbox!Due(v))
<1>1. \A w, x : ViewShape(w) => ViewShape([w EXCEPT !.autoSeen = x]) /\ ViewShape([w EXCEPT !.due = x])
  BY DEF ViewShape
<1>2. \A x : [Inbox!Unmounted EXCEPT !.autoSeen = x] = Inbox!Unmounted
             /\ [Inbox!Unmounted EXCEPT !.due = x] = Inbox!Unmounted
  BY DEF Inbox!Unmounted
<1>3. ViewTyped(Inbox!Rendered(v))
  BY <1>1, <1>2 DEF ViewTyped, Inbox!Rendered
<1>4. \A w : ViewTyped(w) => ViewTyped([w EXCEPT !.due = TRUE])
  BY <1>1, <1>2 DEF ViewTyped
<1> QED BY <1>3, <1>4 DEF Inbox!Due

\* A part of the view that is set.
LEMMA FlagTyped ==
    ASSUME NEW v, ViewTyped(v), NEW x, NEW y, NEW z
    PROVE  /\ ViewTyped([v EXCEPT !.busy = x]) /\ ViewTyped([v EXCEPT !.allBusy = x])
           /\ ViewTyped([v EXCEPT !.cut = x]) /\ ViewTyped([v EXCEPT !.autoBusy = x])
           /\ ViewTyped([v EXCEPT !.autoKey = x])
           /\ ViewTyped([v EXCEPT !.autoKey = x, !.autoBusy = y, !.cut = z])
           /\ ViewTyped([v EXCEPT !.autoKey = x, !.autoFailed = y, !.autoBusy = z])
           /\ ViewTyped([v EXCEPT !.busy = x, !.lock = y, !.finished = z])
           /\ ViewTyped([v EXCEPT !.allBusy = x, !.saved = <<>>])
<1>1. CASE v = Inbox!Unmounted
  BY <1>1 DEF ViewTyped, Inbox!Unmounted
<1>2. CASE ViewShape(v)
  <2> DEFINE none == <<>>
  <2>1. DOMAIN none = {}
    OBVIOUS
  <2> HIDE DEF none
  <2>2. ViewShape([v EXCEPT !.allBusy = x, !.saved = none])
    BY <1>2, <2>1 DEF ViewShape
  <2> QED BY <1>2, <2>2 DEF ViewTyped, ViewShape, none
<1> QED BY <1>1, <1>2 DEF ViewTyped

\* The pause on display is one of those there may be.
LEMMA ShownTyped ==
    ASSUME BoundsAssumption, PauseShape, ViewFine(view, pause)
    PROVE  view.shown \in Inbox!Pauses /\ view.shown \in 0..Bound.inbox.pauses
BY DEF PauseShape, ViewFine, Inbox!Pauses, BoundsAssumption, BoundsOK

LEMMA DecisionTyped ==
    ASSUME NEW type \in Inbox!Types, NEW args \in Inbox!Args, NEW seen \in Inbox!Args,
           NEW who \in {"user", "all", "auto"}, NEW n \in Inbox!Pauses
    PROVE  Inbox!Decision(type, args, seen, who, n) \in Inbox!DecisionRecord
BY DEF Inbox!Decision, Inbox!DecisionRecord

\* What a form is built into.
LEMMA BuiltTyped ==
    ASSUME BoundsAssumption, PauseShape, ViewFine(view, pause), ~view.moved, ViewShape(view),
           NEW type, Inbox!Built(view.form, type) # Inbox!NoDecision
    PROVE  Inbox!Built(view.form, type) \in Inbox!DecisionRecord
<1>1. view.form.args \in Inbox!Args /\ "orig" \in Inbox!Args
  BY DEF ViewShape, Inbox!FormRecord, Inbox!Args
<1>2. {"approve", "edit", "reject"} = Inbox!Types
  BY DEF Inbox!Types
<1>3. view.form.at \in Inbox!Pauses
  BY ShownTyped DEF ViewFine
<1>4. Inbox!Built(view.form, type) \in
        {Inbox!Decision("approve", "orig", view.form.args, "user", view.form.at),
         Inbox!Decision("reject", "orig", view.form.args, "user", view.form.at),
         Inbox!Decision("edit", view.form.args, view.form.args, "user", view.form.at)}
  BY Zenon DEF Inbox!Built, Inbox!Made
<1> QED BY <1>1, <1>2, <1>3, <1>4, DecisionTyped

\* A form whose fields change is a form.
LEMMA EditedTyped ==
    ASSUME NEW f \in Inbox!FormRecord, NEW args \in Inbox!Args
    PROVE  Inbox!Edited(f, args) \in Inbox!FormRecord
<1> DEFINE changed == ~f.base \/ args = "changed"
           made == IF Inbox!May("approve") THEN changed ELSE f.made
           sel == IF changed THEN "edit" ELSE IF Inbox!May("approve") THEN "approve"
                  ELSE IF f.reason THEN "reject" ELSE "edit"
<1>1. changed \in BOOLEAN /\ f.made \in BOOLEAN
  BY DEF Inbox!FormRecord
<1>2. sel \in Inbox!Selections
  BY DEF Inbox!Selections, Inbox!Types
<1>3. Inbox!Edited(f, args)
        = [f EXCEPT !.args = args, !.edited = changed, !.made = made, !.sel = sel]
  BY Zenon DEF Inbox!Edited
<1> HIDE DEF changed, sel
<1>4. made \in BOOLEAN
  BY <1>1
<1> HIDE DEF made
<1> QED BY <1>1, <1>2, <1>3, <1>4 DEF Inbox!FormRecord

LEMMA ReasonedTyped ==
    ASSUME NEW f \in Inbox!FormRecord, NEW reason \in BOOLEAN
    PROVE  Inbox!Reasoned(f, reason) \in Inbox!FormRecord
<1> DEFINE sel == IF reason THEN "reject" ELSE IF f.edited THEN "edit"
                  ELSE IF Inbox!May("approve") THEN "approve"
                  ELSE IF Inbox!May("edit") THEN "edit" ELSE f.sel
<1>1. sel \in Inbox!Selections
  BY DEF Inbox!Selections, Inbox!Types, Inbox!FormRecord
<1>2. Inbox!Reasoned(f, reason) = [f EXCEPT !.reason = reason, !.sel = sel]
  BY Zenon DEF Inbox!Reasoned
<1> HIDE DEF sel
<1> QED BY <1>1, <1>2 DEF Inbox!FormRecord

LEMMA ResetTyped ==
    ASSUME NEW f \in Inbox!FormRecord
    PROVE  Inbox!ResetForm(f) \in Inbox!FormRecord
<1> DEFINE sel == IF Inbox!May("approve") THEN "approve" ELSE IF Inbox!May("edit") THEN "edit"
                  ELSE IF Inbox!May("reject") THEN "reject" ELSE f.sel
<1>1. sel \in Inbox!Selections /\ "orig" \in Inbox!Args
  BY DEF Inbox!Selections, Inbox!Types, Inbox!FormRecord, Inbox!Args
<1>2. Inbox!ResetForm(f) = [f EXCEPT !.args = "orig", !.made = FALSE, !.edited = FALSE,
                                     !.reason = FALSE, !.sel = sel]
  BY Zenon DEF Inbox!ResetForm
<1> HIDE DEF sel
<1> QED BY <1>1, <1>2 DEF Inbox!FormRecord

LEMMA FreshTyped ==
    ASSUME view.shown \in 0..Bound.inbox.pauses
    PROVE  \A i : Inbox!FreshForm(i) \in Inbox!FormRecord
BY DEF Inbox!FreshForm, Inbox!DefaultType, Inbox!FormRecord, Inbox!Selections, Inbox!Types,
       Inbox!Args

\* The number of the actions of the pause on display.
LEMMA ActionsOf ==
    ASSUME PagesAssumption, ViewFine(view, pause)
    PROVE  /\ Len(Inbox!Shape.tools) \in Nat \ {0}
           /\ DOMAIN Inbox!Shape.tools = 1..Len(Inbox!Shape.tools)
BY DEF PagesAssumption, ConstantsOK, ViewFine, Inbox!Shape

\* A user event finds a view that is typed.
LEMMA ReadyTyped ==
    ASSUME BoundsAssumption, AskInv, InboxShape, Inbox!Ready
    PROVE  /\ ViewShape(view) /\ ViewFine(view, pause) /\ ~view.moved
           /\ view.index \in DOMAIN Inbox!Shape.tools
           /\ view.shown \in Inbox!Pauses /\ view.shown \in 0..Bound.inbox.pauses
<1>1. ViewFine(view, pause) /\ ~view.moved
  BY ReadyIs
<1>2. ViewShape(view)
  BY DEF Inbox!Ready, InboxShape, ViewTyped, Inbox!IsShown, Inbox!Unmounted
<1>3. view.index \in DOMAIN Inbox!Shape.tools
  BY <1>1 DEF ViewFine, Inbox!Shape
<1> QED BY <1>1, <1>2, <1>3, ShownTyped DEF InboxShape

\* The user fills in the form and goes from action to action.
LEMMA ViewStep ==
    ASSUME InboxShape, UNCHANGED <<pause, taken, flight>>, ViewTyped(view'),
           prefs' \subseteq AutoTools, events' \in 0..Bound.inbox.events
    PROVE  InboxShape'
<1>1. PauseShape'
  BY DEF InboxShape, PauseShape, Inbox!Pauses
<1> QED BY <1>1, InboxShapeGoesOn DEF InboxShape

LEMMA CountedEvent ==
    ASSUME BoundsAssumption, InboxShape, Inbox!Bounded \/ UNCHANGED events
    PROVE  events' \in 0..Bound.inbox.events
BY DEF BoundsAssumption, BoundsOK, InboxShape, Inbox!Bounded

LEMMA FormsTyped ==
    ASSUME PagesAssumption, BoundsAssumption, AskInv, InboxShape,
           Inbox!StreamUpdate \/ Inbox!EditArgs \/ Inbox!WriteReason \/ Inbox!ChooseReject
           \/ Inbox!Reset \/ Inbox!GoTo \/ Inbox!SaveDecision \/ Inbox!TogglePreference
    PROVE  InboxShape'
<1> DEFINE Fine == view.form \in Inbox!FormRecord
<1>0. ViewTyped(view) /\ prefs \subseteq AutoTools /\ (Inbox!IsShown => ViewShape(view))
  BY DEF InboxShape, ViewTyped, Inbox!IsShown, Inbox!Unmounted
<1>1. ASSUME NEW f, Inbox!ChangeForm(f), Fine => f \in Inbox!FormRecord,
             Inbox!Bounded \/ UNCHANGED events
      PROVE  InboxShape'
  <2>1. ViewShape(view)
    BY <1>0, <1>1 DEF Inbox!ChangeForm, Inbox!Ready
  <2>2. ViewTyped([view EXCEPT !.form = f])
    BY <1>1, <2>1 DEF ViewTyped, ViewShape
  <2>3. ViewTyped(view') /\ UNCHANGED <<pause, taken, flight, prefs>>
    BY <1>1, <2>2, RenderedTyped DEF Inbox!ChangeForm
  <2> QED BY <1>0, <1>1, <2>3, ViewStep, CountedEvent
<1>2. CASE Inbox!StreamUpdate
  <2>1. ViewTyped(view') /\ UNCHANGED <<pause, taken, flight, prefs>> /\ Inbox!Bounded
    BY <1>0, <1>2, RenderedTyped DEF Inbox!StreamUpdate
  <2> QED BY <1>0, <2>1, ViewStep, CountedEvent
<1>3. CASE Inbox!EditArgs
  <2>1. PICK args \in {"orig", "changed"} : Inbox!ChangeForm(Inbox!Edited(view.form, args))
    BY <1>3 DEF Inbox!EditArgs
  <2>2. args \in Inbox!Args /\ Inbox!Bounded
    BY <1>3 DEF Inbox!EditArgs, Inbox!Args
  <2>3. Fine => Inbox!Edited(view.form, args) \in Inbox!FormRecord
    BY <2>2, EditedTyped
  <2> QED BY <1>1, <2>1, <2>2, <2>3
<1>4. CASE Inbox!WriteReason
  <2>1. Inbox!ChangeForm(Inbox!Reasoned(view.form, ~view.form.reason)) /\ Inbox!Bounded
    BY <1>4 DEF Inbox!WriteReason
  <2>2. Fine => \A reason \in BOOLEAN : Inbox!Reasoned(view.form, reason) \in Inbox!FormRecord
    BY ReasonedTyped
  <2>3. (~view.form.reason) \in BOOLEAN
    OBVIOUS
  <2>4. Fine => Inbox!Reasoned(view.form, ~view.form.reason) \in Inbox!FormRecord
    BY <2>2, <2>3, Zenon
  <2> QED BY <1>1, <2>1, <2>4, Zenon
<1>5. CASE Inbox!ChooseReject
  <2>1. Inbox!ChangeForm([view.form EXCEPT !.sel = "reject"]) /\ UNCHANGED events
    BY <1>5 DEF Inbox!ChooseReject
  <2>2. Fine => [view.form EXCEPT !.sel = "reject"] \in Inbox!FormRecord
    BY DEF Inbox!FormRecord, Inbox!Selections, Inbox!Types
  <2> QED BY <1>1, <2>1, <2>2
<1>6. CASE Inbox!Reset
  <2>1. Inbox!ChangeForm(Inbox!ResetForm(view.form)) /\ UNCHANGED events
    BY <1>6 DEF Inbox!Reset
  <2>2. Fine => Inbox!ResetForm(view.form) \in Inbox!FormRecord
    BY ResetTyped
  <2> QED BY <1>1, <2>1, <2>2
<1>7. CASE Inbox!GoTo
  <2>0. PICK i \in DOMAIN Inbox!Shape.tools :
          view' = Inbox!Due([view EXCEPT !.index = i, !.form = Inbox!FreshForm(i)])
    BY <1>7 DEF Inbox!GoTo
  <2> DEFINE v == [view EXCEPT !.index = i, !.form = Inbox!FreshForm(i)]
  <2>1. /\ ViewShape(view) /\ view' = Inbox!Due(v) /\ Inbox!Bounded
        /\ UNCHANGED <<pause, taken, flight, prefs>>
    BY <1>7, <2>0, ReadyTyped DEF Inbox!GoTo
  <2>2. ViewTyped(v)
    <3>1. view.shown \in 0..Bound.inbox.pauses
      BY <1>7, ReadyTyped DEF Inbox!GoTo
    <3>2. Inbox!FreshForm(i) \in Inbox!FormRecord
      BY <3>1, FreshTyped
    <3> HIDE DEF v
    <3> QED BY <2>1, <3>2 DEF ViewTyped, ViewShape, v
  <2>3. ViewTyped(view')
    BY <2>1, <2>2, RenderedTyped
  <2> QED BY <1>0, <2>1, <2>3, ViewStep, CountedEvent
<1>8. CASE Inbox!SaveDecision
  <2> DEFINE index == view.index
             last == index = Len(Inbox!Shape.tools)
             next == IF last THEN index ELSE index + 1
  <2>1. PICK type \in Inbox!Offered :
          LET decision == Inbox!Built(view.form, type)
              filled == IF last THEN [view.form EXCEPT !.sel = type] ELSE Inbox!FreshForm(next)
          IN /\ decision # Inbox!NoDecision
             /\ view' = Inbox!Due([view EXCEPT !.saved = Inbox!Saved(index, decision),
                                               !.index = next, !.form = filled])
    BY <1>8 DEF Inbox!SaveDecision
  <2>2. Inbox!Ready /\ UNCHANGED <<pause, taken, flight, prefs, events>>
    BY <1>8 DEF Inbox!SaveDecision
  <2>0. /\ ViewShape(view) /\ ViewFine(view, pause) /\ ~view.moved
        /\ index \in DOMAIN Inbox!Shape.tools /\ view.shown \in 0..Bound.inbox.pauses
    BY <2>2, ReadyTyped
  <2> DEFINE decision == Inbox!Built(view.form, type)
             filled == IF last THEN [view.form EXCEPT !.sel = type] ELSE Inbox!FreshForm(next)
             saved == Inbox!Saved(index, decision)
             v == [view EXCEPT !.saved = saved, !.index = next, !.form = filled]
  <2>3. decision \in Inbox!DecisionRecord
    BY <2>0, <2>1, BuiltTyped DEF InboxShape
  <2>4. index \in DOMAIN Inbox!Shape.tools /\ view.form \in Inbox!FormRecord
    BY <2>0 DEF ViewShape
  <2>5. /\ DOMAIN saved \subseteq DOMAIN Inbox!Shape.tools
        /\ \A i \in DOMAIN saved : saved[i] \in Inbox!DecisionRecord
    <3> HIDE DEF decision
    <3> QED BY <2>0, <2>3, <2>4 DEF ViewShape, Inbox!Saved, Inbox!Shape
  <2>6. next \in DOMAIN Inbox!Shape.tools
    <3>1. /\ DOMAIN Inbox!Shape.tools = 1..Len(Inbox!Shape.tools)
          /\ Len(Inbox!Shape.tools) \in Nat \ {0}
      BY <2>0, ActionsOf
    <3> QED BY <2>4, <3>1
  <2>7. filled \in Inbox!FormRecord
    <3>1. type \in Inbox!Selections
      BY DEF Inbox!Offered, Inbox!Primary, Inbox!Selections, Inbox!Types
    <3>2. [view.form EXCEPT !.sel = type] \in Inbox!FormRecord
      BY <2>4, <3>1 DEF Inbox!FormRecord
    <3> QED BY <2>0, <3>2, FreshTyped
  <2>8. view' = Inbox!Due(v)
    BY <2>1
  <2> HIDE DEF saved, next, filled
  <2>9. ViewTyped(v)
    BY <2>0, <2>5, <2>6, <2>7 DEF ViewTyped, ViewShape, Inbox!Shape
  <2>10. ViewTyped(view')
    BY <2>8, <2>9, RenderedTyped
  <2> QED BY <1>0, <2>2, <2>10, ViewStep, CountedEvent
<1>9. CASE Inbox!TogglePreference
  <2>1. /\ UNCHANGED <<pause, taken, flight>> /\ Inbox!Bounded
        /\ prefs' \subseteq AutoTools
    BY <1>0, <1>9 DEF Inbox!TogglePreference
  <2>2. ViewTyped(view')
    BY <1>0, <1>9, FlagTyped DEF Inbox!TogglePreference
  <2> QED BY <1>0, <2>1, <2>2, ViewStep, CountedEvent
<1> QED BY <1>2, <1>3, <1>4, <1>5, <1>6, <1>7, <1>8, <1>9

\* Requests are sent, with the view as it is or as it is rendered again.
LEMMA RequestTyped ==
    ASSUME BoundsAssumption, InboxShape, view.shown \in 0..Bound.inbox.pauses,
           NEW slot \in Inbox!Slots, NEW ds \in Seq(Inbox!DecisionRecord), Inbox!Request(slot, ds), ViewTyped(view'),
           UNCHANGED <<pause, taken, prefs, events>>
    PROVE  InboxShape'
<1> DEFINE f == [state |-> "sent", pause |-> view.shown, decisions |-> ds,
                 tries |-> 0, own |-> TRUE, alive |-> TRUE, gap |-> FALSE]
<1>1. FlightShape(f)
  BY DEF FlightShape, Inbox!FlightRecord, BoundsAssumption, BoundsOK
<1>2. flight' = [flight EXCEPT ![slot] = f]
  BY DEF Inbox!Request
<1> HIDE DEF f
<1>3. /\ DOMAIN flight' = Inbox!Slots /\ flight' = [s \in Inbox!Slots |-> flight'[s]]
      /\ \A s \in Inbox!Slots : FlightShape(flight'[s])
  BY <1>1, <1>2 DEF InboxShape
<1>4. PauseShape'
  BY DEF InboxShape, PauseShape, Inbox!Pauses
<1> QED BY <1>3, <1>4, InboxShapeGoesOn DEF InboxShape

\* The user's decisions are sent.
LEMMA DecisionsTyped ==
    ASSUME PagesAssumption, BoundsAssumption, AskInv, InboxShape,
           Inbox!Submit \/ Inbox!Resolve \/ Inbox!SubmitAll \/ Inbox!ApproveAll
    PROVE  InboxShape'
<1>1. /\ ViewShape(view) /\ ViewTyped(view) /\ ViewFine(view, pause) /\ ~view.moved
      /\ view.shown \in Inbox!Pauses /\ view.shown \in 0..Bound.inbox.pauses
      /\ UNCHANGED <<pause, taken, prefs, events>>
  <2>1. Inbox!Ready /\ UNCHANGED <<pause, taken, prefs, events>>
    BY DEF Inbox!Submit, Inbox!Resolve, Inbox!SubmitAll, Inbox!ApproveAll
  <2> QED BY <2>1, ReadyTyped DEF ViewTyped
<1>2. {"submit", "again", "resolve", "all", "approve"} \subseteq Inbox!Slots
  BY DEF Inbox!Slots, Inbox!SubmitSlots
<1>3. ASSUME NEW slot \in Inbox!Slots, NEW ds \in Seq(Inbox!DecisionRecord),
             Inbox!Request(slot, ds), ViewTyped(view')
      PROVE  InboxShape'
  BY <1>1, <1>3, RequestTyped
<1>4. CASE Inbox!Submit
  <2>0. Inbox!FreeSubmitSlot \subseteq {"submit", "again"}
    BY DEF Inbox!FreeSubmitSlot, Inbox!SubmitSlots
  <2>1. PICK slot \in {"submit", "again"}, type \in Inbox!Offered :
          LET decision == Inbox!Built(view.form, type)
          IN /\ decision # Inbox!NoDecision /\ Inbox!Request(slot, <<decision>>)
             /\ view' = Inbox!Due([view EXCEPT !.busy = TRUE, !.lock = TRUE, !.form.sel = type,
                                               !.form.base = FALSE])
    BY <1>4, <2>0 DEF Inbox!Submit
  <2> DEFINE decision == Inbox!Built(view.form, type)
             filled == [view.form EXCEPT !.sel = type, !.base = FALSE]
             v == [view EXCEPT !.busy = TRUE, !.lock = TRUE, !.form = filled]
  <2>2. decision \in Inbox!DecisionRecord
    BY <1>1, <2>1, BuiltTyped DEF InboxShape
  <2>3. filled \in Inbox!FormRecord
    <3>1. type \in Inbox!Selections
      BY DEF Inbox!Offered, Inbox!Primary, Inbox!Selections, Inbox!Types
    <3> QED BY <1>1, <3>1 DEF ViewShape, Inbox!FormRecord
  <2>4. [view EXCEPT !.busy = TRUE, !.lock = TRUE, !.form.sel = type, !.form.base = FALSE] = v
    BY <1>1 DEF ViewShape, Inbox!FormRecord
  <2>5. view' = Inbox!Due(v) /\ Inbox!Request(slot, <<decision>>)
    BY <2>1, <2>4
  <2> HIDE DEF decision, filled
  <2>6. ViewTyped(v)
    BY <1>1, <2>3 DEF ViewTyped, ViewShape
  <2>7. ViewTyped(view') /\ <<decision>> \in Seq(Inbox!DecisionRecord)
    BY <2>2, <2>5, <2>6, RenderedTyped
  <2> QED BY <1>2, <1>3, <2>5, <2>7
<1>5. CASE Inbox!Resolve
  <2> DEFINE filled == [view.form EXCEPT !.base = FALSE]
             v == [view EXCEPT !.busy = TRUE, !.form = filled]
  <2>1. Inbox!Request("resolve", <<>>)
        /\ view' = Inbox!Due([view EXCEPT !.busy = TRUE, !.form.base = FALSE])
    BY <1>5 DEF Inbox!Resolve
  <2>2. filled \in Inbox!FormRecord
    BY <1>1 DEF ViewShape, Inbox!FormRecord
  <2>3. [view EXCEPT !.busy = TRUE, !.form.base = FALSE] = v
    BY <1>1 DEF ViewShape, Inbox!FormRecord
  <2>4. view' = Inbox!Due(v)
    BY <2>1, <2>3
  <2> HIDE DEF filled
  <2>5. ViewTyped(v)
    BY <1>1, <2>2 DEF ViewTyped, ViewShape
  <2>6. ViewTyped(view') /\ <<>> \in Seq(Inbox!DecisionRecord)
    BY <2>4, <2>5, RenderedTyped
  <2> QED BY <1>2, <1>3, <2>1, <2>6
<1>6. CASE Inbox!SubmitAll
  <2> DEFINE ds == [i \in DOMAIN Inbox!Shape.tools |-> view.saved[i]]
             v == [view EXCEPT !.allBusy = TRUE]
  <2>1. /\ DOMAIN view.saved = DOMAIN Inbox!Shape.tools
        /\ Inbox!Request("all", ds) /\ view' = Inbox!Due(v)
    BY <1>6 DEF Inbox!SubmitAll
  <2>2. \A i \in DOMAIN Inbox!Shape.tools : view.saved[i] \in Inbox!DecisionRecord
    BY <1>1, <2>1 DEF ViewShape
  <2>3. ds \in Seq(Inbox!DecisionRecord)
    <3>1. /\ DOMAIN Inbox!Shape.tools = 1..Len(Inbox!Shape.tools)
          /\ Len(Inbox!Shape.tools) \in Nat \ {0}
      BY <1>1, ActionsOf
    <3> QED BY <2>2, <3>1
  <2>4. ViewTyped(view')
    BY <1>1, <2>1, FlagTyped, RenderedTyped
  <2> QED BY <1>2, <1>3, <2>1, <2>3, <2>4
<1>7. CASE Inbox!ApproveAll
  <2> DEFINE d == Inbox!Decision("approve", "orig", "orig", "all", view.shown)
             ds == [i \in DOMAIN Inbox!Shape.tools |-> d]
  <2>1. Inbox!Request("approve", ds) /\ view' = view
    BY <1>7 DEF Inbox!ApproveAll
  <2>2. d \in Inbox!DecisionRecord
    BY <1>1, DecisionTyped DEF Inbox!Types, Inbox!Args
  <2>3. ds \in Seq(Inbox!DecisionRecord)
    <3>1. /\ DOMAIN Inbox!Shape.tools = 1..Len(Inbox!Shape.tools)
          /\ Len(Inbox!Shape.tools) \in Nat \ {0}
      BY <1>1, ActionsOf
    <3> HIDE DEF d
    <3> QED BY <2>2, <3>1
  <2> QED BY <1>1, <1>2, <1>3, <2>1, <2>3
<1> QED BY <1>4, <1>5, <1>6, <1>7

\* What the effect finds has a form and decisions that are typed.
LEMMA FoundTyped ==
    ASSUME PagesAssumption, ViewShape(view), ViewFine(view, pause),
           view.shown \in 0..Bound.inbox.pauses
    PROVE  ViewShape(Inbox!Found)
<1>1. Inbox!FreshForm(1) \in Inbox!FormRecord
  BY FreshTyped
<1>2. CASE view.moved
  <2> DEFINE none == <<>>
             fresh == Inbox!FreshForm(1)
  <2>1. Inbox!Found = [view EXCEPT !.index = 1, !.form = fresh, !.saved = none,
                                   !.autoFailed = FALSE, !.autoKey = FALSE, !.lock = FALSE,
                                   !.moved = FALSE, !.due = FALSE]
    BY <1>2 DEF Inbox!Found, Inbox!Renewed, ViewShape
  <2>2. DOMAIN none = {}
    OBVIOUS
  <2> HIDE DEF none, fresh
  <2> QED BY <1>1, <2>1, <2>2 DEF ViewShape, fresh
<1>3. CASE ~view.moved
  <2>1. Inbox!Found = [view EXCEPT !.moved = FALSE, !.due = FALSE]
    BY <1>3 DEF Inbox!Found
  <2> QED BY <1>3, <2>1 DEF ViewShape
<1> QED BY <1>2, <1>3 DEF ViewFine

\* The requests of closures that are killed are typed.
LEMMA KilledTyped ==
    ASSUME InboxShape
    PROVE  /\ DOMAIN Inbox!Killed = Inbox!Slots /\ Inbox!Killed = [s \in Inbox!Slots |-> Inbox!Killed[s]]
           /\ \A s \in Inbox!Slots : FlightShape(Inbox!Killed[s])
<1>1. \A f : FlightShape(f) => FlightShape([f EXCEPT !.alive = FALSE])
  BY DEF FlightShape, Inbox!FlightRecord
<1> QED BY <1>1 DEF Inbox!Killed, InboxShape

\* The effect approves on its own, and tries again.
LEMMA EffectTyped ==
    ASSUME PagesAssumption, BoundsAssumption, AskInv, InboxShape,
           Inbox!AutoEffect \/ (\E slot \in Inbox!AutoSlots : Inbox!AutoRetry(slot))
    PROVE  InboxShape'
<1>1. /\ UNCHANGED <<pause, taken, prefs, events>> /\ ViewTyped(view) /\ PauseShape'
      /\ Inbox!AutoSlots \subseteq Inbox!Slots
  BY DEF Inbox!AutoEffect, Inbox!AutoRetry, InboxShape, PauseShape, Inbox!Pauses, Inbox!Slots
<1>2. CASE Inbox!AutoEffect
  <2>1. /\ ViewShape(view) /\ ViewFine(view, pause) /\ view.shown \in Inbox!Pauses
        /\ view.shown \in 0..Bound.inbox.pauses
    <3>1. ViewFine(view, pause) /\ ViewShape(view)
      BY <1>2, ShownIs DEF Inbox!AutoEffect, InboxShape, ViewTyped, Inbox!IsShown, Inbox!Unmounted
    <3> QED BY <3>1, ShownTyped DEF InboxShape
  <2>2. ViewShape(Inbox!Found) /\ Inbox!Found.shown = view.shown
    BY <2>1, FoundTyped, FoundIsFine
  <2> DEFINE found == Inbox!Found
             d == Inbox!AutoDecision(found)
             f == [state |-> "sent", pause |-> view.shown, decisions |-> <<d>>,
                   tries |-> 0, own |-> TRUE, alive |-> TRUE, gap |-> FALSE]
  <2>3. \/ \E slot \in Inbox!AutoSlots :
             /\ flight' = [Inbox!Killed EXCEPT ![slot] = f]
             /\ view' = Inbox!Rendered([found EXCEPT !.autoKey = TRUE, !.autoBusy = TRUE, !.cut = FALSE])
        \/ /\ flight' = Inbox!Killed
           /\ view' = Inbox!Rendered([found EXCEPT !.cut = found.cut \/ Inbox!Approving])
    <3>1. Inbox!FreeAutoSlot \subseteq Inbox!AutoSlots
      BY DEF Inbox!FreeAutoSlot, Inbox!AutoSlots
    <3>2. [found EXCEPT !.cut = @ \/ Inbox!Approving]
            = [found EXCEPT !.cut = found.cut \/ Inbox!Approving]
      <4> HIDE DEF found
      <4> QED BY <2>2 DEF ViewShape, found
    <3> QED BY <1>2, <3>1, <3>2 DEF Inbox!AutoEffect
  <2>4. FlightShape(f)
    <3>1. found.form.args \in Inbox!Args
      BY <2>2 DEF ViewShape, Inbox!FormRecord
    <3>2. d \in Inbox!DecisionRecord
      BY <2>1, <2>2, <3>1, DecisionTyped DEF Inbox!AutoDecision, Inbox!Types, Inbox!Args
    <3> HIDE DEF d
    <3>3. <<d>> \in Seq(Inbox!DecisionRecord)
      BY <3>2
    <3> QED BY <2>1, <3>3 DEF FlightShape, Inbox!FlightRecord, BoundsAssumption, BoundsOK
  <2> HIDE DEF found, f
  <2>5. ViewTyped(found)
    BY <2>2 DEF ViewTyped, found
  <2>6. ViewTyped(view')
    BY <2>3, <2>5, FlagTyped, RenderedTyped
  <2>7. /\ DOMAIN flight' = Inbox!Slots /\ flight' = [s \in Inbox!Slots |-> flight'[s]]
        /\ \A s \in Inbox!Slots : FlightShape(flight'[s])
    <3>1. /\ DOMAIN Inbox!Killed = Inbox!Slots /\ Inbox!Killed = [s \in Inbox!Slots |-> Inbox!Killed[s]]
          /\ \A s \in Inbox!Slots : FlightShape(Inbox!Killed[s])
      BY KilledTyped
    <3> QED BY <1>1, <2>3, <2>4, <3>1
  <2> QED BY <1>1, <2>6, <2>7, InboxShapeGoesOn DEF InboxShape
<1>3. ASSUME NEW slot \in Inbox!AutoSlots, Inbox!AutoRetry(slot) PROVE InboxShape'
  <2> DEFINE f == flight[slot]
             tries == f.tries + 1
             again == [f EXCEPT !.state = "sent", !.pause = view.shown, !.tries = tries,
                                !.gap = view.moved]
             next == IF f.alive THEN again ELSE Inbox!Idle
  <2>1. /\ f.state = "waiting" /\ view' = view /\ FlightShape(f)
        /\ flight' = [flight EXCEPT ![slot] = next]
    BY <1>1, <1>3 DEF Inbox!AutoRetry, InboxShape
  <2>2. FlightShape(next)
    <3>1. f \in Inbox!FlightRecord /\ tries \in 0..Bound.inbox.retries
      <4>1. Bound.inbox.retries \in Nat
        BY DEF BoundsAssumption, BoundsOK
      <4> QED BY <2>1, <4>1 DEF FlightShape, Inbox!FlightRecord
    <3>2. f.alive => view.shown \in 0..Bound.inbox.pauses /\ view.moved \in BOOLEAN
      <4>1. SlotFine(f, slot, view, pause)
        BY <1>1, <1>3 DEF AskInv
      <4>2. f.alive => ViewFine(view, pause)
        BY <1>3, <2>1, <4>1 DEF SlotFine
      <4> QED BY <4>2, ShownTyped DEF InboxShape, ViewFine
    <3> HIDE DEF tries
    <3>3. f.alive => again \in Inbox!FlightRecord /\ again.state = "sent"
      <4> HIDE DEF f
      <4> QED BY <3>1, <3>2 DEF Inbox!FlightRecord
    <3>4. f.alive => FlightShape(again)
      BY <3>3 DEF FlightShape
    <3> QED BY <3>4, IdleShape
  <2> HIDE DEF next
  <2>3. /\ DOMAIN flight' = Inbox!Slots /\ flight' = [s \in Inbox!Slots |-> flight'[s]]
        /\ \A s \in Inbox!Slots : FlightShape(flight'[s])
    BY <1>1, <2>1, <2>2 DEF InboxShape
  <2> QED BY <1>1, <2>1, <2>3, InboxShapeGoesOn DEF InboxShape
<1> QED BY <1>2, <1>3

\* A request is settled.
LEMMA SettledTyped ==
    ASSUME BoundsAssumption, InboxShape, NEW slot \in Inbox!Slots,
           NEW ok, NEW dropped, Inbox!Settle(slot, ok, dropped)
    PROVE  /\ DOMAIN flight' = Inbox!Slots /\ flight' = [s \in Inbox!Slots |-> flight'[s]]
           /\ \A s \in Inbox!Slots : FlightShape(flight'[s])
           /\ ViewTyped(view')
<1>1. flight' = [flight EXCEPT ![slot] = Inbox!Idle] /\ FlightShape(Inbox!Idle)
  BY IdleShape DEF Inbox!Settle
<1>2. /\ DOMAIN flight' = Inbox!Slots /\ flight' = [s \in Inbox!Slots |-> flight'[s]]
      /\ \A s \in Inbox!Slots : FlightShape(flight'[s])
  <2> HIDE DEF Inbox!Idle
  <2> QED BY <1>1 DEF InboxShape
<1> DEFINE cut == view.cut \/ dropped
           v == [view EXCEPT !.cut = cut]
<1>3. \/ view' = view
      \/ view' = Inbox!AfterAuto(v, flight[slot].alive, ~ok)
      \/ view' = Inbox!AfterUser(v, slot, ok)
  BY Zenon DEF Inbox!Settle
<1>4. ViewTyped(view) /\ ViewTyped(v)
  BY FlagTyped DEF InboxShape
<1> HIDE DEF v
<1>5. ViewTyped(Inbox!AfterUser(v, slot, ok))
  <2>1. /\ ViewTyped([v EXCEPT !.busy = FALSE, !.lock = FALSE, !.finished = ok])
        /\ ViewTyped([v EXCEPT !.busy = FALSE])
        /\ ViewTyped([v EXCEPT !.allBusy = FALSE, !.saved = <<>>])
    BY <1>4, FlagTyped
  <2>2. ViewTyped([v EXCEPT !.allBusy = FALSE, !.saved = v.saved])
    <3>1. CASE v = Inbox!Unmounted
      BY <3>1 DEF ViewTyped, Inbox!Unmounted
    <3>2. CASE ViewShape(v)
      BY <3>2 DEF ViewTyped, ViewShape
    <3> QED BY <1>4, <3>1, <3>2 DEF ViewTyped
  <2>3. \/ Inbox!AfterUser(v, slot, ok) = v
        \/ Inbox!AfterUser(v, slot, ok)
             = Inbox!Due([v EXCEPT !.busy = FALSE, !.lock = FALSE, !.finished = ok])
        \/ Inbox!AfterUser(v, slot, ok) = Inbox!Due([v EXCEPT !.busy = FALSE])
        \/ Inbox!AfterUser(v, slot, ok) = Inbox!Due([v EXCEPT !.allBusy = FALSE, !.saved = <<>>])
        \/ Inbox!AfterUser(v, slot, ok) = Inbox!Due([v EXCEPT !.allBusy = FALSE, !.saved = v.saved])
    <3>1. CASE slot \in Inbox!SubmitSlots
      BY <3>1 DEF Inbox!AfterUser, Inbox!SubmitSlots
    <3>2. CASE slot \notin Inbox!SubmitSlots /\ slot = "resolve"
      BY <3>2 DEF Inbox!AfterUser
    <3>3. CASE slot \notin Inbox!SubmitSlots /\ slot = "all"
      BY <3>3 DEF Inbox!AfterUser
    <3>4. CASE slot \notin Inbox!SubmitSlots /\ slot \notin {"resolve", "all"}
      BY <3>4 DEF Inbox!AfterUser
    <3> QED BY <3>1, <3>2, <3>3, <3>4
  <2> QED BY <1>4, <2>1, <2>2, <2>3, RenderedTyped
<1>6. ViewTyped(Inbox!AfterAuto(v, flight[slot].alive, ~ok))
  BY <1>4, FlagTyped, RenderedTyped DEF Inbox!AfterAuto
<1> QED BY <1>2, <1>3, <1>4, <1>5, <1>6

\* What the server has taken, or not, is typed.
LEMMA AcceptedTyped ==
    ASSUME InboxShape, NEW slot \in Inbox!Slots, Inbox!Accepted(slot) \/ UNCHANGED <<pause, taken>>
    PROVE  PauseShape' /\ taken' \in Seq(Inbox!DecisionRecord)
<1>1. FlightShape(flight[slot]) /\ PauseShape /\ taken \in Seq(Inbox!DecisionRecord)
  BY DEF InboxShape
<1>2. flight[slot].decisions \in Seq(Inbox!DecisionRecord) /\ flight[slot].gap \in BOOLEAN
  BY <1>1 DEF FlightShape, Inbox!FlightRecord
<1>3. CASE Inbox!Accepted(slot)
  BY <1>1, <1>2, <1>3 DEF Inbox!Accepted, PauseShape, Inbox!Pauses
<1>4. CASE UNCHANGED <<pause, taken>>
  BY <1>1, <1>4 DEF PauseShape, Inbox!Pauses
<1> QED BY <1>3, <1>4

LEMMA AnswersTyped ==
    ASSUME BoundsAssumption, InboxShape,
           (\E slot \in Inbox!Slots : \/ Inbox!Take(slot) \/ Inbox!Consumed(slot)
                                      \/ Inbox!Dropped(slot) \/ Inbox!Fails(slot))
           \/ (\E slot \in Inbox!AutoSlots : Inbox!AutoFails(slot))
    PROVE  InboxShape'
<1>0. prefs \subseteq AutoTools /\ ViewTyped(view)
  BY DEF InboxShape
<1>1. ASSUME NEW slot \in Inbox!Slots,
             Inbox!Take(slot) \/ Inbox!Consumed(slot) \/ Inbox!Dropped(slot) \/ Inbox!Fails(slot)
      PROVE  InboxShape'
  <2>1. \E ok, dropped : Inbox!Settle(slot, ok, dropped)
    BY <1>1, Zenon DEF Inbox!Take, Inbox!Consumed, Inbox!Dropped, Inbox!Fails
  <2>2. /\ DOMAIN flight' = Inbox!Slots /\ flight' = [s \in Inbox!Slots |-> flight'[s]]
        /\ \A s \in Inbox!Slots : FlightShape(flight'[s])
        /\ ViewTyped(view')
    <3>1. PICK ok, dropped : Inbox!Settle(slot, ok, dropped)
      BY <2>1
    <3> QED BY <3>1, SettledTyped
  <2>3. /\ UNCHANGED prefs /\ (Inbox!Bounded \/ UNCHANGED events)
        /\ Inbox!Accepted(slot) \/ UNCHANGED <<pause, taken>>
    BY <1>1 DEF Inbox!Take, Inbox!Consumed, Inbox!Dropped, Inbox!Fails, Inbox!Unheard
  <2>4. PauseShape' /\ taken' \in Seq(Inbox!DecisionRecord)
    BY <2>3, AcceptedTyped
  <2>5. events' \in 0..Bound.inbox.events
    BY <2>3, CountedEvent
  <2> QED BY <1>0, <2>2, <2>3, <2>4, <2>5, InboxShapeGoesOn
<1>2. ASSUME NEW slot \in Inbox!AutoSlots, Inbox!AutoFails(slot) PROVE InboxShape'
  <2>1. /\ slot \in Inbox!Slots /\ UNCHANGED <<view, prefs>> /\ Inbox!Bounded
        /\ Inbox!Accepted(slot) \/ UNCHANGED <<pause, taken>>
        /\ flight[slot].tries < Bound.inbox.retries
    BY <1>2 DEF Inbox!Slots, Inbox!AutoFails, Inbox!Unheard
  <2>2. /\ FlightShape(flight[slot]) /\ DOMAIN flight = Inbox!Slots
        /\ flight = [s \in Inbox!Slots |-> flight[s]]
        /\ \A s \in Inbox!Slots : FlightShape(flight[s])
    BY <2>1 DEF InboxShape
  <2> DEFINE g == [flight[slot] EXCEPT !.state = "waiting"]
  <2>3. FlightShape(g)
    BY <2>1, <2>2 DEF FlightShape, Inbox!FlightRecord
  <2>4. flight' = [flight EXCEPT ![slot] = g]
    BY <1>2 DEF Inbox!AutoFails
  <2> HIDE DEF g
  <2>5. /\ DOMAIN flight' = Inbox!Slots /\ flight' = [s \in Inbox!Slots |-> flight'[s]]
        /\ \A s \in Inbox!Slots : FlightShape(flight'[s])
    BY <2>1, <2>2, <2>3, <2>4
  <2>6. PauseShape' /\ taken' \in Seq(Inbox!DecisionRecord) /\ events' \in 0..Bound.inbox.events
    BY <2>1, AcceptedTyped, CountedEvent
  <2> QED BY <1>0, <2>1, <2>5, <2>6, InboxShapeGoesOn
<1> QED BY <1>1, <1>2

\* The run pauses, and its pause is shown, hidden and answered elsewhere.
LEMMA PausesTyped ==
    ASSUME PagesAssumption, BoundsAssumption, InboxShape,
           \/ Inbox!PauseAgain \/ Inbox!Show \/ Inbox!Switch \/ Inbox!Hide
           \/ Inbox!AnsweredElsewhere
    PROVE  InboxShape'
<1>0. /\ prefs \subseteq AutoTools /\ ViewTyped(view) /\ taken \in Seq(Inbox!DecisionRecord)
      /\ DOMAIN flight = Inbox!Slots /\ flight = [s \in Inbox!Slots |-> flight[s]]
      /\ \A s \in Inbox!Slots : FlightShape(flight[s])
      /\ PauseShape /\ events \in 0..Bound.inbox.events
  BY DEF InboxShape
<1>1. ASSUME Inbox!Unmount
      PROVE  /\ DOMAIN flight' = Inbox!Slots /\ flight' = [s \in Inbox!Slots |-> flight'[s]]
             /\ \A s \in Inbox!Slots : FlightShape(flight'[s])
             /\ view' = Inbox!Unmounted
  <2>1. \A f : FlightShape(f) => FlightShape([f EXCEPT !.own = FALSE, !.alive = FALSE])
    BY DEF FlightShape, Inbox!FlightRecord
  <2> QED BY <1>0, <1>1, <2>1 DEF Inbox!Unmount
<1>2. CASE Inbox!PauseAgain
  <2>1. PauseShape'
    BY <1>0, <1>2 DEF Inbox!PauseAgain, Inbox!Waiting, PauseShape, Inbox!Pauses, BoundsAssumption,
                      BoundsOK
  <2>2. taken' = <<>> /\ UNCHANGED <<view, flight, prefs>> /\ Inbox!Bounded
    BY <1>2 DEF Inbox!PauseAgain
  <2>3. taken' \in Seq(Inbox!DecisionRecord)
    BY <2>2
  <2> QED BY <1>0, <2>1, <2>2, <2>3, InboxShapeGoesOn, CountedEvent
<1>3. CASE Inbox!Show
  <2>1. /\ UNCHANGED <<pause, taken, flight, prefs, events>> /\ view' = Inbox!NewView
    BY <1>3 DEF Inbox!Show
  <2> DEFINE none == <<>>
             bare == [sel |-> "none", args |-> "orig", made |-> FALSE, edited |-> FALSE,
                      reason |-> FALSE, base |-> TRUE, at |-> 0]
             v == [shown |-> pause.n, shape |-> pause.shape, index |-> 1, form |-> bare,
                   saved |-> none, busy |-> FALSE, allBusy |-> FALSE, lock |-> FALSE,
                   finished |-> FALSE, autoBusy |-> FALSE, autoKey |-> FALSE,
                   autoFailed |-> FALSE, autoSeen |-> FALSE, due |-> TRUE, moved |-> TRUE,
                   cut |-> FALSE]
  <2>2. Inbox!NewView = Inbox!Due(v) /\ DOMAIN none = {}
    BY DEF Inbox!NewView
  <2>3. bare \in Inbox!FormRecord
    BY DEF Inbox!FormRecord, Inbox!Selections, Inbox!Args, BoundsAssumption, BoundsOK
  <2> HIDE DEF bare, none
  <2>4. ViewTyped(v)
    BY <2>2, <2>3 DEF ViewTyped, ViewShape
  <2> HIDE DEF v
  <2>5. ViewTyped(view')
    BY <2>1, <2>2, <2>4, RenderedTyped
  <2> QED BY <1>0, <2>1, <2>5, ViewStep
<1>4. CASE Inbox!Switch
  <2> DEFINE v == [view EXCEPT !.shown = pause.n, !.shape = pause.shape, !.moved = TRUE]
  <2>1. /\ UNCHANGED <<pause, taken, flight, prefs, events>> /\ view' = Inbox!Due(v)
        /\ Inbox!IsShown
    BY <1>4 DEF Inbox!Switch
  <2>2. ViewTyped(v)
    <3>1. ViewShape(view)
      BY <1>0, <2>1 DEF ViewTyped, Inbox!IsShown, Inbox!Unmounted
    <3> QED BY <3>1 DEF ViewTyped, ViewShape
  <2>3. ViewTyped(view')
    BY <2>1, <2>2, RenderedTyped
  <2> QED BY <1>0, <2>1, <2>3, ViewStep
<1>5. CASE Inbox!Hide
  <2>1. Inbox!Unmount /\ UNCHANGED <<pause, taken, prefs>> /\ (Inbox!Bounded \/ UNCHANGED events)
    BY <1>5 DEF Inbox!Hide
  <2>2. ViewTyped(view') /\ PauseShape'
    BY <1>0, <1>1, <2>1 DEF ViewTyped, PauseShape, Inbox!Pauses
  <2> QED BY <1>0, <1>1, <2>1, <2>2, InboxShapeGoesOn, CountedEvent
<1>6. CASE Inbox!AnsweredElsewhere
  <2>1. /\ pause' = [pause EXCEPT !.open = FALSE] /\ Inbox!Bounded
        /\ UNCHANGED <<taken, view, flight, prefs>>
    BY <1>6 DEF Inbox!AnsweredElsewhere
  <2>2. PauseShape'
    BY <1>0, <2>1 DEF PauseShape, Inbox!Pauses
  <2> QED BY <1>0, <2>1, <2>2, InboxShapeGoesOn, CountedEvent
<1> QED BY <1>2, <1>3, <1>4, <1>5, <1>6

LEMMA InboxShapeKept ==
    PagesAssumption /\ BoundsAssumption /\ AskInv /\ InboxShape
    /\ (Inbox!Next \/ UNCHANGED <<inbox, events>>) => InboxShape'
<1> SUFFICES ASSUME PagesAssumption, BoundsAssumption, AskInv, InboxShape,
                    Inbox!Next \/ UNCHANGED <<inbox, events>>
             PROVE  InboxShape'
  OBVIOUS
<1>1. CASE UNCHANGED <<inbox, events>>
  <2>1. UNCHANGED <<pause, taken, view, flight, prefs, events>>
    BY <1>1 DEF inbox
  <2> QED BY <2>1, ViewStep DEF InboxShape
<1> QED BY <1>1, FormsTyped, DecisionsTyped, EffectTyped, AnswersTyped, PausesTyped DEF Inbox!Next

-----------------------------------------------------------------------------
(* The accounts of a browser. *)

\* A list names no user twice.
NoTwice(l) == \A i, j \in DOMAIN l : l[i].user = l[j].user => i = j

Holder == [user : Users, ver : Nat, era : Nat]
Register == {l \in Seq(Holder) : NoTwice(l)}
SignsIn(c) == c.kind \in {"login", "forgot", "reset"}
CallTypes == [tab : Tabs, kind : Accounts!Kinds, stage : {"sent", "refreshing", "again"},
              acc : Holder, accounts : Register, me : {"none", "denied", "lost"},
              status : {"none", "ok", "denied", "refused", "lost", "odd"},
              token : Holder \cup {Accounts!Nobody}]
TabTypes == [phase : Accounts!Phases, accounts : Register, active : Users \cup {"none"},
             mode : Accounts!Modes, busy : BOOLEAN, fired : BOOLEAN]
StoreTypes == [accounts : Register, active : Users \cup {"none"}]
AccountTypes ==
    /\ server \in [Users -> [ver : Nat, era : Nat]] /\ storage \in StoreTypes
    /\ tab \in [Tabs -> TabTypes] /\ ended \in [Tabs -> SUBSET Users]
    /\ calls \subseteq CallTypes
    /\ events \in Nat

\* The list a call captured has the users its tab has, up to those who left while the page
\* is being left; a call of the start or of the login screen is the only one of its tab.
CallFine(c) ==
    LET t == tab[c.tab]
        known == Accounts!UsersOf(c.accounts)
        listed == Accounts!UsersOf(t.accounts)
    IN /\ c.status = "ok" => c.token \in Holder /\ c.token.user = c.acc.user
       /\ t.phase \in {"boot", "ready", "leaving"}
       /\ c.kind = "boot" <=> t.phase = "boot"
       /\ c.kind = "boot" \/ SignsIn(c) => \A d \in calls : d.tab = c.tab => d = c
       /\ SignsIn(c) => c.accounts = t.accounts /\ t.busy /\ Accounts!Shown(c.tab) = Accounts!Nobody
       /\ ~SignsIn(c) => c.acc.user \in known
       /\ t.phase = "ready" => known = listed /\ (~SignsIn(c) => Accounts!Shown(c.tab) # Accounts!Nobody)
       /\ c.kind # "boot" => known \ ended[c.tab] = listed \ ended[c.tab]

\* Who signed out in a tab, or was refused to it, is not in its list before it is left.
TabFine(t) ==
    LET listed == Accounts!UsersOf(tab[t].accounts)
    IN /\ tab[t].phase \in {"closed", "loading", "boot"} =>
             tab[t].accounts = <<>> /\ listed = {} /\ ended[t] = {}
       /\ tab[t].phase = "ready" => listed \cap ended[t] = {}

AccountInv ==
    /\ AccountTypes
    /\ \A t \in Tabs : TabFine(t)
    /\ \A c \in calls : CallFine(c)

-----------------------------------------------------------------------------
LEMMA Dropped ==
    ASSUME NEW S, NEW s \in Seq(S), NEW p \in 1..Len(s)
    PROVE  LET m == SubSeq(s, 1, p - 1) \o SubSeq(s, p + 1, Len(s))
           IN /\ m \in Seq(S) /\ Len(m) = Len(s) - 1 /\ DOMAIN m = 1..(Len(s) - 1)
              /\ \A i \in 1..(p - 1) : m[i] = s[i]
              /\ \A i \in p..(Len(s) - 1) : m[i] = s[i + 1]
<1> DEFINE a == SubSeq(s, 1, p - 1)
           b == SubSeq(s, p + 1, Len(s))
<1>1. DOMAIN s = 1..Len(s) /\ Len(s) \in Nat /\ \A i \in 1..Len(s) : s[i] \in S
  OBVIOUS
<1>0. Len(s) \in Nat /\ p \in Nat /\ 1 <= p /\ p <= Len(s)
  BY <1>1
<1>2. a \in Seq(S) /\ Len(a) = p - 1 /\ \A i \in 1..(p - 1) : a[i] = s[i]
  <2>1. \A i \in 1..(p - 1) : s[i] \in S /\ 1 + i - 1 = i
    BY <1>1
  <2> QED BY <1>1, <2>1, SubSeqProperties
<1>3. b \in Seq(S) /\ Len(b) = Len(s) - p /\ \A i \in 1..(Len(s) - p) : b[i] = s[p + i]
  <2>1. \A i \in (p + 1)..Len(s) : s[i] \in S
    BY <1>1
  <2>2. /\ b \in Seq(S)
        /\ Len(b) = IF p + 1 <= Len(s) THEN Len(s) - (p + 1) + 1 ELSE 0
        /\ \A i \in 1..Len(s) - (p + 1) + 1 : b[i] = s[p + 1 + i - 1]
    <3>1. p + 1 \in Int /\ Len(s) \in Int
      BY <1>1
    <3> QED BY <2>1, <3>1, SubSeqProperties
  <2> HIDE DEF b
  <2>3. /\ Len(s) - (p + 1) + 1 = Len(s) - p
        /\ \A i \in 1..Len(s) - p : p + 1 + i - 1 = p + i
        /\ ~(p + 1 <= Len(s)) => Len(s) - p = 0
    BY <1>0
  <2> QED BY <2>2, <2>3
<1> HIDE DEF a, b
<1>4. /\ a \o b \in Seq(S) /\ Len(a \o b) = Len(a) + Len(b)
      /\ \A i \in 1..Len(a) + Len(b) : (a \o b)[i] = IF i <= Len(a) THEN a[i] ELSE b[i - Len(a)]
  BY <1>2, <1>3, ConcatProperties
<1>5. Len(a \o b) = Len(s) - 1
  BY <1>1, <1>2, <1>3, <1>4
<1>6. DOMAIN (a \o b) = 1..(Len(s) - 1)
  BY <1>4, <1>5
<1>7. ASSUME NEW i \in 1..(p - 1) PROVE (a \o b)[i] = s[i]
  BY <1>1, <1>2, <1>3, <1>4
<1>8. ASSUME NEW i \in p..(Len(s) - 1) PROVE (a \o b)[i] = s[i + 1]
  <2>1. /\ i - (p - 1) \in 1..(Len(s) - p) /\ p + (i - (p - 1)) = i + 1
        /\ i \in 1..Len(a) + Len(b) /\ ~(i <= Len(a)) /\ i - Len(a) = i - (p - 1)
    BY <1>1, <1>2, <1>3
  <2>2. (a \o b)[i] = b[i - Len(a)]
    BY <1>4, <2>1
  <2> QED BY <1>3, <2>1, <2>2
<1> QED BY <1>4, <1>5, <1>6, <1>7, <1>8 DEF a, b

LEMMA WithoutOne ==
    ASSUME NEW S, NEW l \in Seq(S), NoTwice(l), NEW u
    PROVE  LET m == Accounts!Without(l, u)
           IN /\ m \in Seq(S) /\ NoTwice(m) /\ u \notin Accounts!UsersOf(m)
              /\ Accounts!UsersOf(m) \subseteq Accounts!UsersOf(l)
              /\ Accounts!UsersOf(l) \subseteq Accounts!UsersOf(m) \cup {u}
<1>1. DOMAIN l = 1..Len(l) /\ Len(l) \in Nat
  OBVIOUS
<1>2. CASE u \notin Accounts!UsersOf(l)
  BY <1>1, <1>2 DEF Accounts!Without
<1>3. CASE u \in Accounts!UsersOf(l)
  <2> DEFINE p == Accounts!PlaceOf(l, u)
             m == Accounts!Without(l, u)
  <2>1. p \in 1..Len(l) /\ l[p].user = u
    BY <1>1, <1>3 DEF Accounts!UsersOf, Accounts!PlaceOf
  <2>2. m = SubSeq(l, 1, p - 1) \o SubSeq(l, p + 1, Len(l))
    BY <1>3 DEF Accounts!Without, Accounts!RemoveAt
  <2>3. /\ m \in Seq(S) /\ DOMAIN m = 1..(Len(l) - 1)
        /\ \A i \in 1..(p - 1) : m[i] = l[i]
        /\ \A i \in p..(Len(l) - 1) : m[i] = l[i + 1]
    <3> HIDE DEF p, m
    <3> QED BY <1>1, <2>1, <2>2, Dropped
  <2> DEFINE at(i) == IF i < p THEN i ELSE i + 1
  <2> HIDE DEF p, m
  <2>4. \A i \in DOMAIN m : at(i) \in DOMAIN l \ {p} /\ m[i] = l[at(i)]
    <3> SUFFICES ASSUME NEW i \in DOMAIN m PROVE at(i) \in DOMAIN l \ {p} /\ m[i] = l[at(i)]
      OBVIOUS
    <3>1. CASE i < p
      <4>1. i \in 1..(p - 1)
        BY <1>1, <2>1, <2>3, <3>1
      <4> QED BY <1>1, <2>1, <2>3, <3>1, <4>1
    <3>2. CASE ~(i < p)
      <4>1. i \in p..(Len(l) - 1)
        BY <1>1, <2>1, <2>3, <3>2
      <4> QED BY <1>1, <2>1, <2>3, <3>2, <4>1
    <3> QED BY <3>1, <3>2
  <2>5. \A i, j \in DOMAIN m : at(i) = at(j) => i = j
    BY <1>1, <2>1, <2>3
  <2>6. \A k \in DOMAIN l \ {p} : \E i \in DOMAIN m : at(i) = k
    <3> SUFFICES ASSUME NEW k \in DOMAIN l \ {p} PROVE \E i \in DOMAIN m : at(i) = k
      OBVIOUS
    <3>1. CASE k < p
      <4>1. k \in DOMAIN m /\ at(k) = k
        BY <1>1, <2>1, <2>3, <3>1
      <4> QED BY <4>1
    <3>2. CASE k > p
      <4>1. k - 1 \in DOMAIN m /\ at(k - 1) = k
        BY <1>1, <2>1, <2>3, <3>2
      <4> QED BY <4>1
    <3> QED BY <1>1, <2>1, <3>1, <3>2
  <2> HIDE DEF at
  <2>7. NoTwice(m)
    BY <2>4, <2>5 DEF NoTwice
  <2>8. u \notin Accounts!UsersOf(m)
    BY <2>1, <2>4, <1>1 DEF NoTwice, Accounts!UsersOf
  <2>9. /\ Accounts!UsersOf(m) \subseteq Accounts!UsersOf(l)
        /\ Accounts!UsersOf(l) \subseteq Accounts!UsersOf(m) \cup {u}
    BY <2>1, <2>4, <2>6 DEF Accounts!UsersOf
  <2> QED BY <2>3, <2>7, <2>8, <2>9 DEF m
<1> QED BY <1>2, <1>3

LEMMA PrependedOne ==
    ASSUME NEW S, NEW a \in S, NEW l \in Seq(S), NoTwice(l), a.user \notin Accounts!UsersOf(l)
    PROVE  LET m == <<a>> \o l
           IN /\ m \in Seq(S) /\ NoTwice(m)
              /\ Accounts!UsersOf(m) = {a.user} \cup Accounts!UsersOf(l)
<1> DEFINE m == <<a>> \o l
<1>1. DOMAIN l = 1..Len(l) /\ Len(l) \in Nat
  OBVIOUS
<1>2. /\ m \in Seq(S) /\ DOMAIN m = 1..(Len(l) + 1) /\ m[1] = a
      /\ \A i \in 1..Len(l) : m[i + 1] = l[i]
  BY <1>1
<1> HIDE DEF m
<1>3. \A i \in DOMAIN m : i # 1 => /\ i - 1 \in DOMAIN l /\ m[i] = l[i - 1]
  <2> SUFFICES ASSUME NEW i \in DOMAIN m, i # 1 PROVE i - 1 \in DOMAIN l /\ m[i] = l[i - 1]
    OBVIOUS
  <2>1. i - 1 \in 1..Len(l) /\ (i - 1) + 1 = i
    BY <1>1, <1>2
  <2> QED BY <1>1, <1>2, <2>1
<1>4. NoTwice(m)
  <2> SUFFICES ASSUME NEW i \in DOMAIN m, NEW j \in DOMAIN m, m[i].user = m[j].user PROVE i = j
    BY DEF NoTwice
  <2>1. \A k \in DOMAIN l : l[k].user # a.user
    BY DEF Accounts!UsersOf
  <2>2. CASE i = 1 \/ j = 1
    BY <1>2, <1>3, <2>1, <2>2
  <2>3. CASE i # 1 /\ j # 1
    <3>1. i - 1 = j - 1
      BY <1>3, <2>3 DEF NoTwice
    <3> QED BY <1>1, <1>2, <3>1
  <2> QED BY <2>2, <2>3
<1>5. 1 \in DOMAIN m /\ \A k \in DOMAIN l : k + 1 \in DOMAIN m /\ m[k + 1] = l[k]
  BY <1>1, <1>2
<1>6. Accounts!UsersOf(m) = {a.user} \cup Accounts!UsersOf(l)
  <2>1. {a.user} \cup Accounts!UsersOf(l) \subseteq Accounts!UsersOf(m)
    BY <1>2, <1>5 DEF Accounts!UsersOf
  <2>2. ASSUME NEW i \in DOMAIN m PROVE m[i].user \in {a.user} \cup Accounts!UsersOf(l)
    <3>1. CASE i = 1
      BY <1>2, <3>1
    <3>2. CASE i # 1
      BY <1>3, <3>2 DEF Accounts!UsersOf
    <3> QED BY <3>1, <3>2
  <2>3. Accounts!UsersOf(m) \subseteq {a.user} \cup Accounts!UsersOf(l)
    BY <2>2 DEF Accounts!UsersOf
  <2> QED BY <2>1, <2>3
<1> QED BY <1>2, <1>4, <1>6 DEF m

\* The same of a register, with Users as they are listed.
LEMMA Listed ==
    ASSUME NEW l \in Register, NEW u
    PROVE  LET m == Accounts!Without(l, u)
           IN /\ m \in Register /\ u \notin Accounts!UsersOf(m)
              /\ Accounts!UsersOf(m) \subseteq Accounts!UsersOf(l)
              /\ Accounts!UsersOf(l) \subseteq Accounts!UsersOf(m) \cup {u}
BY WithoutOne DEF Register

LEMMA Prepended ==
    ASSUME NEW a \in Holder, NEW l \in Register, a.user \notin Accounts!UsersOf(l)
    PROVE  /\ <<a>> \o l \in Register
           /\ Accounts!UsersOf(<<a>> \o l) = {a.user} \cup Accounts!UsersOf(l)
BY PrependedOne DEF Register

LEMMA NoneListed == <<>> \in Register /\ Accounts!UsersOf(<<>>) = {}
BY DEF Register, NoTwice, Accounts!UsersOf

LEMMA Found ==
    ASSUME PagesAssumption, NEW l \in Register, NEW u
    PROVE  /\ Accounts!Find(l, u) # Accounts!Nobody =>
                 Accounts!Find(l, u) \in Holder /\ u \in Accounts!UsersOf(l)
                 /\ Accounts!Find(l, u).user = u
           /\ u \in Accounts!UsersOf(l) => Accounts!Find(l, u) # Accounts!Nobody
           /\ Accounts!First(l) = Accounts!Nobody => l = <<>>
           /\ Accounts!First(l) # Accounts!Nobody =>
                 Accounts!First(l) \in Holder /\ Accounts!First(l).user \in Accounts!UsersOf(l)
<1>1. DOMAIN l = 1..Len(l) /\ Len(l) \in Nat /\ \A i \in 1..Len(l) : l[i] \in Holder
  BY DEF Register
<1>2. \A a \in Holder : a # Accounts!Nobody
  BY DEF PagesAssumption, ConstantsOK, Holder, Accounts!Nobody
<1>3. u \in Accounts!UsersOf(l) => /\ Accounts!PlaceOf(l, u) \in DOMAIN l
                                   /\ l[Accounts!PlaceOf(l, u)].user = u
  BY DEF Accounts!UsersOf, Accounts!PlaceOf
<1>4. l # <<>> => 1 \in DOMAIN l
  BY <1>1
<1>5. /\ Accounts!First(l) = Accounts!Nobody => l = <<>>
      /\ Accounts!First(l) # Accounts!Nobody =>
            Accounts!First(l) \in Holder /\ Accounts!First(l).user \in Accounts!UsersOf(l)
  BY <1>1, <1>2, <1>4 DEF Accounts!First, Accounts!UsersOf
<1> QED BY <1>1, <1>2, <1>3, <1>5 DEF Accounts!Find

-----------------------------------------------------------------------------
LEMMA AccountsInitially == PagesAssumption /\ Accounts!Init => AccountInv
<1> SUFFICES ASSUME PagesAssumption, Accounts!Init PROVE AccountInv
  OBVIOUS
<1>1. PICK s \in Stores :
        storage = [accounts |-> [i \in DOMAIN s |-> [user |-> s[i], ver |-> 0, era |-> 0]],
                   active |-> IF s = <<>> THEN "none" ELSE s[1]]
  BY DEF Accounts!Init
<1>2. storage \in StoreTypes
  <2> DEFINE l == [i \in DOMAIN s |-> [user |-> s[i], ver |-> 0, era |-> 0]]
  <2>1. /\ Len(s) \in Nat /\ DOMAIN s = 1..Len(s)
        /\ \A i, j \in DOMAIN s : s[i] \in Users /\ (s[i] = s[j] => i = j)
    BY DEF PagesAssumption, ConstantsOK
  <2>2. l \in Seq(Holder)
    <3>1. \A i \in 1..Len(s) : [user |-> s[i], ver |-> 0, era |-> 0] \in Holder
      BY <2>1 DEF Holder
    <3> QED BY <2>1, <3>1
  <2>3. NoTwice(l)
    BY <2>1 DEF NoTwice
  <2>4. s # <<>> => s[1] \in Users
    <3>1. s # <<>> => 1 \in DOMAIN s
      BY <2>1
    <3> QED BY <2>1, <3>1
  <2> HIDE DEF l
  <2> QED BY <1>1, <2>2, <2>3, <2>4 DEF StoreTypes, Register, l
<1>3. PICK tabs \in Opened :
        tab = [t \in Tabs |-> [phase |-> IF t \in tabs THEN "loading" ELSE "closed",
                               accounts |-> <<>>, active |-> "none",
                               mode |-> "login", busy |-> FALSE, fired |-> FALSE]]
  BY DEF Accounts!Init
<1>4. tab \in [Tabs -> TabTypes]
  BY <1>3, NoneListed DEF TabTypes, Accounts!Phases, Accounts!Modes
<1>5. calls = {} /\ ended = [t \in Tabs |-> {}] /\ events = 0 /\ server \in [Users -> [ver : Nat, era : Nat]]
  BY DEF Accounts!Init
<1>6. \A t \in Tabs : TabFine(t)
  <2>1. \A t \in Tabs : tab[t].accounts = <<>> /\ ended[t] = {}
    BY <1>3, <1>5
  <2> QED BY <2>1, NoneListed DEF TabFine
<1> QED BY <1>2, <1>4, <1>5, <1>6 DEF AccountInv, AccountTypes

\* A step of one tab, of which the accounts it knows and the browser has are kept.
LEMMA KeptByOne ==
    ASSUME NEW t \in Tabs, \A s \in Tabs \ {t} : tab'[s] = tab[s],
           \A d : d.tab # t => (d \in calls' <=> d \in calls),
           Accounts!Knows(t) \cap Accounts!UsersOf(storage.accounts)
              \subseteq Accounts!UsersOf(storage'.accounts) \cup ended'[t],
           tab[t].phase # "leaving"
             => ended[t] \cap ended'[t] \cap Accounts!UsersOf(storage'.accounts) = {}
    PROVE  Accounts!KeepsKnownAccounts
<1>1. \A s \in Tabs \ {t} : Accounts!CallsOf(s)' = Accounts!CallsOf(s)
  BY DEF Accounts!CallsOf
<1>2. \A s \in Tabs : Accounts!Acts(s) => s = t
  BY <1>1 DEF Accounts!Acts
<1>3. Accounts!Remembers(t)
  BY DEF Accounts!Remembers, Accounts!UsersOf
<1>4. ~Accounts!BringsBack(t)
  BY DEF Accounts!BringsBack, Accounts!UsersOf
<1> QED BY <1>2, <1>3, <1>4 DEF Accounts!KeepsKnownAccounts

LEMMA KeptInStore ==
    ASSUME storage'.accounts = storage.accounts PROVE Accounts!KeepsKnownAccounts
BY DEF Accounts!KeepsKnownAccounts, Accounts!Remembers, Accounts!BringsBack, Accounts!UsersOf

LEMMA KnowsItsList ==
    ASSUME AccountInv, NEW t \in Tabs, tab[t].phase # "boot"
    PROVE  Accounts!Knows(t) = Accounts!UsersOf(tab[t].accounts)
<1>1. \A c \in Accounts!CallsOf(t) : c.kind # "boot"
  BY DEF AccountInv, CallFine, Accounts!CallsOf
<1> QED BY <1>1 DEF Accounts!Knows

\* A call goes on: to the backend, back with an answer, or lost.
LEMMA CallGoesOn ==
    ASSUME AccountInv, NEW c \in calls, NEW e \in CallTypes, calls' = (calls \ {c}) \cup {e},
           e.tab = c.tab, e.kind = c.kind, e.accounts = c.accounts, e.acc.user = c.acc.user,
           e.status = "ok" => e.token \in Holder /\ e.token.user = c.acc.user,
           UNCHANGED <<storage, tab, ended>>,
           server' \in [Users -> [ver : Nat, era : Nat]], events' \in Nat
    PROVE  AccountInv' /\ Accounts!KeepsKnownAccounts
<1>1. CallFine(e)'
  BY DEF AccountInv, CallFine, SignsIn, Accounts!Shown
<1>2. ASSUME NEW d \in calls, d # c PROVE CallFine(d)'
  BY <1>2 DEF AccountInv, CallFine, SignsIn, Accounts!Shown
<1>3. AccountTypes' /\ \A s \in Tabs : TabFine(s)'
  BY DEF AccountInv, AccountTypes, TabFine
<1> QED BY <1>1, <1>2, <1>3, KeptInStore DEF AccountInv

\* A page makes a call with the list it shows.
LEMMA CallIsMade ==
    ASSUME PagesAssumption, AccountInv, NEW t \in Tabs, tab[t].phase \in {"ready", "leaving"},
           NEW c \in CallTypes, c.tab = t, c.accounts = tab[t].accounts, c.status = "none",
           calls' = calls \cup {c}, UNCHANGED <<server, storage, ended>>, events' \in Nat,
           tab' \in [Tabs -> TabTypes], \A s \in Tabs \ {t} : tab'[s] = tab[s],
           tab'[t].phase = tab[t].phase, tab'[t].accounts = tab[t].accounts,
           tab'[t].active = tab[t].active, tab[t].busy => tab'[t].busy,
           \/ /\ c.kind \in {"timer", "request", "change", "logout"}
              /\ Accounts!Shown(t) # Accounts!Nobody
              /\ c.acc.user \in Accounts!UsersOf(c.accounts)
           \/ /\ SignsIn(c) /\ ~tab[t].busy /\ tab'[t].busy /\ tab[t].phase = "ready"
              /\ Accounts!Shown(t) = Accounts!Nobody
    PROVE  AccountInv' /\ Accounts!KeepsKnownAccounts
<1>1. \A s \in Tabs : /\ tab'[s].phase = tab[s].phase /\ tab'[s].accounts = tab[s].accounts
                       /\ Accounts!Shown(s)' = Accounts!Shown(s)
                       /\ tab[s].busy => tab'[s].busy
  BY DEF Accounts!Shown
<1>2. CallFine(c)'
  <2>1. ASSUME SignsIn(c), NEW d \in calls, d.tab = t PROVE FALSE
    BY <2>1 DEF AccountInv, CallFine, SignsIn
  <2>2. c.kind # "boot" /\ tab'[c.tab].phase # "boot"
        /\ tab'[c.tab].phase \in {"boot", "ready", "leaving"}
    BY DEF SignsIn
  <2>3. SignsIn(c) => /\ \A d \in calls' : d.tab = c.tab => d = c
                      /\ c.accounts = tab'[c.tab].accounts /\ tab'[c.tab].busy
                      /\ Accounts!Shown(c.tab)' = Accounts!Nobody
    BY <2>1 DEF SignsIn, Accounts!Shown
  <2>4. ~SignsIn(c) => /\ c.acc.user \in Accounts!UsersOf(c.accounts)
                       /\ tab'[c.tab].accounts = c.accounts
                       /\ Accounts!Shown(c.tab)' # Accounts!Nobody
    BY DEF SignsIn, Accounts!Shown
  <2> QED BY <2>2, <2>3, <2>4 DEF CallFine, SignsIn
<1>3. ASSUME NEW d \in calls PROVE CallFine(d)'
  <2>1. CallFine(d) /\ d.tab \in Tabs
    BY DEF AccountInv, AccountTypes, CallTypes
  <2>2. d.kind = "boot" \/ SignsIn(d) => d.tab # t
    BY <2>1 DEF CallFine, SignsIn
  <2>3. CASE d.tab = t
    BY <1>1, <2>1, <2>2, <2>3 DEF CallFine, SignsIn, Accounts!Shown
  <2>4. CASE d.tab # t
    <3>1. tab'[d.tab] = tab[d.tab]
      BY <2>1, <2>4
    <3> QED BY <2>1, <2>4, <3>1 DEF CallFine, SignsIn, Accounts!Shown
  <2> QED BY <2>3, <2>4
<1>4. AccountTypes' /\ \A s \in Tabs : TabFine(s)'
  <2>1. AccountTypes'
    BY DEF AccountInv, AccountTypes
  <2> QED BY <1>1, <2>1 DEF AccountInv, TabFine
<1> QED BY <1>1, <1>2, <1>3, <1>4, KeptInStore DEF AccountInv

\* A page changes nothing but its busy mark and its form, and a call may be settled.
LEMMA PageGoesOn ==
    ASSUME AccountInv, calls' \subseteq calls, UNCHANGED <<storage, ended>>,
           server' \in [Users -> [ver : Nat, era : Nat]], events' \in Nat,
           tab' \in [Tabs -> TabTypes],
           \A s \in Tabs : /\ tab'[s].phase = tab[s].phase /\ tab'[s].active = tab[s].active
                            /\ tab'[s].accounts = tab[s].accounts,
           \A d \in calls' : SignsIn(d) /\ tab[d.tab].busy => tab'[d.tab].busy
    PROVE  AccountInv' /\ Accounts!KeepsKnownAccounts
<1>1. \A s \in Tabs : Accounts!Shown(s)' = Accounts!Shown(s)
  BY DEF Accounts!Shown
<1>2. ASSUME NEW d \in calls' PROVE CallFine(d)'
  <2>1. CallFine(d) /\ d.tab \in Tabs
    BY DEF AccountInv, AccountTypes, CallTypes
  <2> QED BY <1>1, <2>1 DEF CallFine, SignsIn
<1>3. AccountTypes' /\ \A s \in Tabs : TabFine(s)'
  BY DEF AccountInv, AccountTypes, TabFine
<1> QED BY <1>2, <1>3, KeptInStore DEF AccountInv

LEMMA VersionTypes ==
    ASSUME server \in [Users -> [ver : Nat, era : Nat]], NEW u \in Users
    PROVE  /\ Accounts!NewVersion(u) => server' \in [Users -> [ver : Nat, era : Nat]]
           /\ [server EXCEPT ![u].era = @ + 1] \in [Users -> [ver : Nat, era : Nat]]
<1>1. server[u] \in [ver : Nat, era : Nat]
  OBVIOUS
<1>2. /\ [server[u] EXCEPT !.ver = server[u].ver + 1] \in [ver : Nat, era : Nat]
      /\ [server[u] EXCEPT !.era = server[u].era + 1] \in [ver : Nat, era : Nat]
  BY <1>1
<1> QED BY <1>2 DEF Accounts!NewVersion

LEMMA BackendAnswers ==
    ASSUME PagesAssumption, AccountInv, NEW c \in calls,
           Accounts!Serve(c) \/ Accounts!Lose(c) \/ Accounts!Odd(c)
    PROVE  AccountInv' /\ Accounts!KeepsKnownAccounts
<1> DEFINE u == c.acc.user
<1>1. c \in CallTypes /\ u \in Users /\ CallFine(c)
  BY DEF AccountInv, AccountTypes, CallTypes, Holder
<1>2. /\ server \in [Users -> [ver : Nat, era : Nat]] /\ events \in Nat
      /\ c.tab \in Tabs /\ tab[c.tab] \in TabTypes
  BY <1>1 DEF AccountInv, AccountTypes, CallTypes
<1>3. /\ Accounts!Issue(u) \in Holder /\ Accounts!Issue(u).user = u
      /\ Accounts!Reissued(u) \in Holder /\ Accounts!Reissued(u).user = u
  BY <1>1, <1>2 DEF Holder, Accounts!Issue, Accounts!Reissued
<1>4. ASSUME NEW w \in {"ok", "denied", "refused", "lost", "odd"},
             NEW a \in Holder \cup {Accounts!Nobody},
             w = "ok" => a \in Holder /\ a.user = u, Accounts!Answered(c, w, a),
             UNCHANGED <<storage, tab, ended>>,
             server' \in [Users -> [ver : Nat, era : Nat]], events' \in Nat
      PROVE  AccountInv' /\ Accounts!KeepsKnownAccounts
  <2> DEFINE e == [c EXCEPT !.status = w, !.token = a]
  <2>1. /\ e \in CallTypes /\ e.tab = c.tab /\ e.kind = c.kind /\ e.accounts = c.accounts
        /\ e.acc.user = u /\ e.status = w /\ e.token = a
    BY <1>1 DEF CallTypes
  <2>2. calls' = (calls \ {c}) \cup {e}
    BY <1>4 DEF Accounts!Answered, Accounts!Replace
  <2> HIDE DEF e
  <2> QED BY <1>4, <2>1, <2>2, CallGoesOn
<1>5. CASE Accounts!Serve(c)
  <2>1. UNCHANGED <<storage, tab, ended, events>>
    BY <1>5 DEF Accounts!Serve
  <2>2. server' \in [Users -> [ver : Nat, era : Nat]]
    <3>1. server' = server \/ Accounts!NewVersion(u)
      BY <1>5 DEF Accounts!Serve
    <3> QED BY <1>1, <1>2, <3>1, VersionTypes
  <2>3. \/ \E w \in {"denied", "refused"} : Accounts!Answered(c, w, Accounts!Nobody)
        \/ \E a \in {c.acc, Accounts!Issue(u), Accounts!Reissued(u)} : Accounts!Answered(c, "ok", a)
    BY <1>5 DEF Accounts!Serve
  <2>4. c.acc \in Holder
    BY <1>1 DEF CallTypes
  <2> QED BY <1>2, <1>3, <1>4, <2>1, <2>2, <2>3, <2>4
<1>6. CASE Accounts!Lose(c) \/ Accounts!Odd(c)
  <2>1. \E w \in {"lost", "odd"} : Accounts!Answered(c, w, Accounts!Nobody)
    BY <1>6 DEF Accounts!Lose, Accounts!Odd
  <2>2. UNCHANGED <<server, storage, tab, ended>> /\ events' = events + 1
    BY <1>6 DEF Accounts!Lose, Accounts!Odd, Accounts!Counted
  <2>3. events' \in Nat /\ server' \in [Users -> [ver : Nat, era : Nat]]
    BY <1>2, <2>2
  <2> QED BY <1>4, <2>1, <2>2, <2>3
<1> QED BY <1>5, <1>6

LEMMA TokensEnd ==
    ASSUME AccountInv, NEW u \in Users, Accounts!Expire(u) \/ Accounts!ChangedElsewhere(u)
    PROVE  AccountInv' /\ Accounts!KeepsKnownAccounts
<1>1. server' \in [Users -> [ver : Nat, era : Nat]] /\ events' \in Nat
  <2>1. server \in [Users -> [ver : Nat, era : Nat]] /\ events \in Nat
    BY DEF AccountInv, AccountTypes
  <2>2. events' = events + 1 /\ (server' = [server EXCEPT ![u].era = @ + 1] \/ Accounts!NewVersion(u))
    BY DEF Accounts!Expire, Accounts!ChangedElsewhere, Accounts!Counted
  <2>3. events' \in Nat
    BY <2>1, <2>2
  <2>4. server' \in [Users -> [ver : Nat, era : Nat]]
    BY <2>1, <2>2, VersionTypes
  <2> QED BY <2>3, <2>4
<1>2. UNCHANGED <<storage, tab, calls, ended>>
  BY DEF Accounts!Expire, Accounts!ChangedElsewhere
<1> QED BY <1>1, <1>2, PageGoesOn DEF AccountInv, AccountTypes

LEMMA PageAsks ==
    ASSUME PagesAssumption, AccountInv, NEW t \in Tabs,
           Accounts!TimerFires(t) \/ \E kind \in {"request", "change", "logout"} : Accounts!Request(t, kind)
    PROVE  AccountInv' /\ Accounts!KeepsKnownAccounts
<1> DEFINE a == Accounts!Shown(t)
<1>1. /\ tab \in [Tabs -> TabTypes] /\ tab[t] \in TabTypes /\ tab[t].accounts \in Register
      /\ events \in Nat
  BY DEF AccountInv, AccountTypes, TabTypes
<1>2. /\ a # Accounts!Nobody /\ tab[t].phase \in {"ready", "leaving"}
      /\ UNCHANGED <<server, storage, ended>> /\ events' \in Nat
  BY <1>1 DEF Accounts!TimerFires, Accounts!Request, Accounts!Screen, Accounts!Live, Accounts!Counted
<1>3. a \in Holder /\ a.user \in Accounts!UsersOf(tab[t].accounts)
  BY <1>1, <1>2, Found DEF Accounts!Shown
<1>4. ASSUME NEW kind \in {"timer", "request", "change", "logout"}, NEW stage \in {"sent", "refreshing"}
      PROVE  LET c == Accounts!Call(t, kind, stage, a)
             IN /\ c \in CallTypes /\ c.tab = t /\ c.kind = kind /\ c.status = "none"
                /\ c.accounts = tab[t].accounts /\ c.acc = a
  BY <1>1, <1>3 DEF Accounts!Call, CallTypes, Accounts!Kinds
<1>5. /\ tab' \in [Tabs -> TabTypes] /\ \A s \in Tabs \ {t} : tab'[s] = tab[s]
      /\ tab'[t].phase = tab[t].phase /\ tab'[t].accounts = tab[t].accounts
      /\ tab'[t].active = tab[t].active /\ (tab[t].busy => tab'[t].busy)
  <2>1. \/ tab' = [tab EXCEPT ![t].fired = TRUE]
        \/ \E kind \in {"request", "change", "logout"} : tab' = [tab EXCEPT ![t].busy = @ \/ kind = "change"]
    BY DEF Accounts!TimerFires, Accounts!Request
  <2>2. CASE tab' = [tab EXCEPT ![t].fired = TRUE]
    BY <1>1, <2>2 DEF TabTypes
  <2>3. ASSUME NEW b \in BOOLEAN, tab[t].busy => b, tab' = [tab EXCEPT ![t].busy = b]
        PROVE  /\ tab' \in [Tabs -> TabTypes] /\ \A s \in Tabs \ {t} : tab'[s] = tab[s]
               /\ tab'[t].phase = tab[t].phase /\ tab'[t].accounts = tab[t].accounts
               /\ tab'[t].active = tab[t].active /\ (tab[t].busy => tab'[t].busy)
    BY <1>1, <2>3 DEF TabTypes
  <2>4. CASE tab' # [tab EXCEPT ![t].fired = TRUE]
    <3>1. \E b \in BOOLEAN : (tab[t].busy => b) /\ tab' = [tab EXCEPT ![t].busy = b]
      <4>1. PICK kind \in {"request", "change", "logout"} : tab' = [tab EXCEPT ![t].busy = @ \/ kind = "change"]
        BY <2>1, <2>4
      <4>2. tab[t].busy \in BOOLEAN
        BY <1>1 DEF TabTypes
      <4> QED BY <4>1, <4>2, Zenon
    <3> QED BY <2>3, <3>1
  <2> QED BY <2>2, <2>4
<1>6. PICK kind \in {"timer", "request", "change", "logout"}, stage \in {"sent", "refreshing"} :
        calls' = calls \cup {Accounts!Call(t, kind, stage, a)}
  BY DEF Accounts!TimerFires, Accounts!Request, Accounts!Add
<1> HIDE DEF a
<1> DEFINE c == Accounts!Call(t, kind, stage, a)
<1>7. /\ c \in CallTypes /\ c.tab = t /\ c.kind \in {"timer", "request", "change", "logout"}
      /\ c.status = "none" /\ c.accounts = tab[t].accounts /\ calls' = calls \cup {c}
      /\ c.acc.user \in Accounts!UsersOf(c.accounts)
  BY <1>3, <1>4, <1>6
<1> HIDE DEF c
<1> QED BY <1>2, <1>5, <1>7, CallIsMade DEF a

LEMMA SomebodySubmits ==
    ASSUME PagesAssumption, AccountInv, NEW t \in Tabs, NEW u \in Users, Accounts!Submit(t, u)
    PROVE  AccountInv' /\ Accounts!KeepsKnownAccounts
<1> DEFINE a == [Accounts!Nobody EXCEPT !.user = u]
<1>1. /\ tab \in [Tabs -> TabTypes] /\ tab[t] \in TabTypes /\ tab[t].accounts \in Register
      /\ events \in Nat
  BY DEF AccountInv, AccountTypes, TabTypes
<1>2. /\ tab[t].phase = "ready" /\ Accounts!Shown(t) = Accounts!Nobody /\ ~tab[t].busy
      /\ UNCHANGED <<server, storage, ended>> /\ events' \in Nat
  BY <1>1 DEF Accounts!Submit, Accounts!Screen, Accounts!Live, Accounts!Counted
<1>3. a \in Holder
  BY DEF Holder, Accounts!Nobody
<1>4. \A kind \in {"login", "forgot", "reset"} :
        LET c == Accounts!Call(t, kind, "sent", a)
        IN /\ c \in CallTypes /\ c.tab = t /\ c.kind = kind /\ c.status = "none"
           /\ c.accounts = tab[t].accounts
  BY <1>1, <1>3 DEF Accounts!Call, CallTypes, Accounts!Kinds
<1>5. PICK kind \in {"login", "forgot", "reset"} :
        calls' = calls \cup {Accounts!Call(t, kind, "sent", a)}
  BY DEF Accounts!Submit, Accounts!Add
<1>6. /\ tab' \in [Tabs -> TabTypes] /\ \A s \in Tabs \ {t} : tab'[s] = tab[s]
      /\ tab'[t].phase = tab[t].phase /\ tab'[t].accounts = tab[t].accounts
      /\ tab'[t].active = tab[t].active /\ tab'[t].busy
  BY <1>1 DEF Accounts!Submit, TabTypes
<1> HIDE DEF a
<1> DEFINE c == Accounts!Call(t, kind, "sent", a)
<1>7. /\ c \in CallTypes /\ c.tab = t /\ SignsIn(c) /\ c.status = "none"
      /\ c.accounts = tab[t].accounts /\ calls' = calls \cup {c}
  BY <1>4, <1>5 DEF SignsIn
<1> HIDE DEF c
<1> QED BY <1>2, <1>6, <1>7, CallIsMade

\* saveAccount: the list of the call, with the account it saves, becomes that of its tab.
LEMMA Saving ==
    ASSUME AccountInv, NEW c \in calls, c.token \in Holder, NEW b \in BOOLEAN,
           Accounts!SaveAccount(c, c.token, b)
    PROVE  /\ storage' \in StoreTypes
           /\ tab' \in [Tabs -> TabTypes] /\ \A s \in Tabs \ {c.tab} : tab'[s] = tab[s]
           /\ tab'[c.tab].phase = tab[c.tab].phase /\ tab'[c.tab].active = c.token.user
           /\ tab'[c.tab].accounts = storage'.accounts
           /\ Accounts!UsersOf(storage'.accounts) \subseteq Accounts!UsersOf(c.accounts) \cup {c.token.user}
           /\ Accounts!UsersOf(c.accounts) \cup {c.token.user} \subseteq Accounts!UsersOf(storage'.accounts)
<1> DEFINE u == c.token.user
           l == <<c.token>> \o Accounts!Without(c.accounts, u)
<1>1. /\ c.tab \in Tabs /\ c.accounts \in Register /\ u \in Users
      /\ tab \in [Tabs -> TabTypes] /\ tab[c.tab] \in TabTypes
  BY DEF AccountInv, AccountTypes, CallTypes, Holder
<1>2. /\ l \in Register
      /\ Accounts!UsersOf(l) = {u} \cup Accounts!UsersOf(Accounts!Without(c.accounts, u))
  <2>1. /\ Accounts!Without(c.accounts, u) \in Register
        /\ u \notin Accounts!UsersOf(Accounts!Without(c.accounts, u))
    BY <1>1, Listed
  <2> QED BY <2>1, Prepended
<1>3. /\ Accounts!UsersOf(l) \subseteq Accounts!UsersOf(c.accounts) \cup {u}
      /\ Accounts!UsersOf(c.accounts) \cup {u} \subseteq Accounts!UsersOf(l)
  BY <1>1, <1>2, Listed
<1>4. /\ tab' = [tab EXCEPT ![c.tab].accounts = l, ![c.tab].active = u, ![c.tab].busy = b,
                            ![c.tab].mode = "login", ![c.tab].fired = FALSE]
      /\ storage' = [accounts |-> l, active |-> u]
  <2>1. u \in Accounts!UsersOf(l)
    BY <1>3
  <2> QED BY <2>1 DEF Accounts!SaveAccount, Accounts!Persist
<1> HIDE DEF u, l
<1>5. /\ tab' \in [Tabs -> TabTypes] /\ \A s \in Tabs \ {c.tab} : tab'[s] = tab[s]
      /\ tab'[c.tab].phase = tab[c.tab].phase /\ tab'[c.tab].active = u
      /\ tab'[c.tab].accounts = l
  BY <1>1, <1>2, <1>4 DEF TabTypes, Accounts!Modes
<1>6. storage' \in StoreTypes /\ storage'.accounts = l
  BY <1>1, <1>2, <1>4 DEF StoreTypes
<1> QED BY <1>3, <1>5, <1>6 DEF u

LEMMA RequestSaves ==
    ASSUME PagesAssumption, AccountInv, NEW c \in calls, c.kind \in {"timer", "request", "change", "logout"},
           c.status = "ok", NEW b \in BOOLEAN, Accounts!SaveAccount(c, c.token, b),
           UNCHANGED <<server, ended, events>>,
           \/ Accounts!Settle(c)
           \/ Accounts!Replace(c, Accounts!Pending(c, "again", c.token))
    PROVE  AccountInv' /\ Accounts!KeepsKnownAccounts
<1> DEFINE t == c.tab
           e == Accounts!Pending(c, "again", c.token)
           L == Accounts!UsersOf(c.accounts)
<1>1. /\ c \in CallTypes /\ t \in Tabs /\ CallFine(c)
      /\ c.token \in Holder /\ c.token.user = c.acc.user
      /\ tab[t].phase \in {"ready", "leaving"} /\ c.acc.user \in L
      /\ L \ ended[t] = Accounts!UsersOf(tab[t].accounts) \ ended[t]
      /\ tab[t].phase = "ready" => L = Accounts!UsersOf(tab[t].accounts)
  BY DEF AccountInv, AccountTypes, CallTypes, CallFine, SignsIn
<1>2. /\ storage' \in StoreTypes
      /\ tab' \in [Tabs -> TabTypes] /\ \A s \in Tabs \ {t} : tab'[s] = tab[s]
      /\ tab'[t].phase = tab[t].phase /\ tab'[t].active = c.acc.user
      /\ tab'[t].accounts = storage'.accounts /\ Accounts!UsersOf(storage'.accounts) = L
  <2>1. /\ storage' \in StoreTypes
        /\ tab' \in [Tabs -> TabTypes] /\ \A s \in Tabs \ {c.tab} : tab'[s] = tab[s]
        /\ tab'[c.tab].phase = tab[c.tab].phase /\ tab'[c.tab].active = c.token.user
        /\ tab'[c.tab].accounts = storage'.accounts
        /\ Accounts!UsersOf(storage'.accounts) \subseteq Accounts!UsersOf(c.accounts) \cup {c.token.user}
        /\ Accounts!UsersOf(c.accounts) \cup {c.token.user} \subseteq Accounts!UsersOf(storage'.accounts)
    BY <1>1, Saving
  <2>2. c.token.user \in L /\ c.token.user = c.acc.user
    BY <1>1
  <2>3. Accounts!UsersOf(storage'.accounts) = L
    <3> DEFINE M == Accounts!UsersOf(storage'.accounts)
    <3>1. M \subseteq L \cup {c.token.user} /\ L \cup {c.token.user} \subseteq M
      BY <2>1
    <3>2. c.token.user \in L
      BY <2>2
    <3> HIDE DEF M, L
    <3>3. M \subseteq L /\ L \subseteq M
      BY <3>1, <3>2
    <3>4. M = L
      BY <3>3
    <3> QED BY <3>4 DEF M
  <2> QED BY <2>1, <2>2, <2>3
<1>3. /\ e \in CallTypes /\ e.tab = t /\ e.kind = c.kind /\ e.accounts = c.accounts
      /\ e.acc.user = c.acc.user /\ e.status = "none"
  BY <1>1 DEF Accounts!Pending, CallTypes
<1>4. calls' = calls \ {c} \/ calls' = (calls \ {c}) \cup {e}
  BY DEF Accounts!Settle, Accounts!Replace
<1> HIDE DEF e
<1>5. tab'[t].accounts \in Register
  BY <1>1, <1>2 DEF TabTypes
<1>6. Accounts!Shown(t)' # Accounts!Nobody
  BY <1>1, <1>2, <1>5, Found DEF Accounts!Shown
<1>7. ASSUME NEW d \in calls', d.tab = t PROVE CallFine(d)'
  <2>1. /\ d.kind \in {"timer", "request", "change", "logout"} /\ d.acc.user \in Accounts!UsersOf(d.accounts)
        /\ Accounts!UsersOf(d.accounts) \ ended[t] = L \ ended[t]
        /\ tab[t].phase = "ready" => Accounts!UsersOf(d.accounts) = L
        /\ d.status = "ok" => d.token \in Holder /\ d.token.user = d.acc.user
    <3>1. CASE d = e
      BY <1>1, <1>3, <3>1
    <3>2. CASE d \in calls /\ d # c
      <4>1. CallFine(d) /\ d.kind \in Accounts!Kinds
        BY <3>2 DEF AccountInv, AccountTypes, CallTypes
      <4> QED BY <1>1, <1>7, <3>2, <4>1 DEF CallFine, SignsIn, Accounts!Kinds
    <3> QED BY <1>4, <3>1, <3>2
  <2> QED BY <1>1, <1>2, <1>6, <1>7, <2>1 DEF CallFine, SignsIn, Accounts!Shown
<1>8. ASSUME NEW d \in calls', d.tab # t PROVE CallFine(d)'
  <2>1. d \in calls /\ CallFine(d) /\ d.tab \in Tabs
    BY <1>3, <1>4, <1>8 DEF AccountInv, AccountTypes, CallTypes
  <2>2. tab'[d.tab] = tab[d.tab]
    BY <1>2, <1>8, <2>1
  <2>3. \A x \in calls' : x.tab = d.tab => x \in calls
    BY <1>3, <1>4, <1>8
  <2> QED BY <1>8, <2>1, <2>2, <2>3 DEF CallFine, SignsIn, Accounts!Shown
<1>9. AccountTypes'
  BY <1>2, <1>3, <1>4 DEF AccountInv, AccountTypes
<1>10. tab[t].phase = "ready" => L \cap ended[t] = {}
  BY <1>1 DEF AccountInv, TabFine
<1>11. ASSUME NEW s \in Tabs PROVE TabFine(s)'
  <2>1. CASE s = t
    BY <1>1, <1>2, <1>10, <2>1 DEF TabFine
  <2>2. CASE s # t
    BY <1>2, <2>2 DEF AccountInv, TabFine
  <2> QED BY <2>1, <2>2
<1>12. Accounts!KeepsKnownAccounts
  <2>1. \A d : d.tab # t => (d \in calls' <=> d \in calls)
    BY <1>3, <1>4
  <2>2. Accounts!Knows(t) = Accounts!UsersOf(tab[t].accounts)
    BY <1>1, KnowsItsList
  <2> QED BY <1>1, <1>2, <1>10, <2>1, <2>2, KeptByOne
<1> QED BY <1>7, <1>8, <1>9, <1>11, <1>12 DEF AccountInv

LEMMA RequestEnds ==
    ASSUME PagesAssumption, AccountInv, NEW c \in calls, Accounts!RequestAnswer(c)
    PROVE  AccountInv' /\ Accounts!KeepsKnownAccounts
<1>1. /\ c \in CallTypes /\ c.tab \in Tabs /\ CallFine(c) /\ tab \in [Tabs -> TabTypes]
      /\ tab[c.tab] \in TabTypes /\ tab[c.tab].busy \in BOOLEAN /\ events \in Nat
      /\ server \in [Users -> [ver : Nat, era : Nat]]
  BY DEF AccountInv, AccountTypes, CallTypes, TabTypes
<1>2. c.kind \in {"timer", "request", "change", "logout"} /\ UNCHANGED <<server, events>>
  BY DEF Accounts!RequestAnswer
<1>3. CASE /\ Accounts!Replace(c, Accounts!Pending(c, "refreshing", c.acc))
           /\ UNCHANGED <<tab, storage, ended>>
  <2> DEFINE e == Accounts!Pending(c, "refreshing", c.acc)
  <2>1. /\ e \in CallTypes /\ e.tab = c.tab /\ e.kind = c.kind /\ e.accounts = c.accounts
        /\ e.acc.user = c.acc.user /\ e.status # "ok"
    BY <1>1 DEF Accounts!Pending, CallTypes
  <2>2. calls' = (calls \ {c}) \cup {e}
    BY <1>3 DEF Accounts!Replace
  <2> HIDE DEF e
  <2> QED BY <1>1, <1>2, <1>3, <2>1, <2>2, CallGoesOn
<1>4. CASE /\ c.status = "ok" /\ UNCHANGED ended
           /\ \E b \in {FALSE, tab[c.tab].busy} : Accounts!SaveAccount(c, c.token, b)
           /\ \/ Accounts!Settle(c)
              \/ Accounts!Replace(c, Accounts!Pending(c, "again", c.token))
  <2>1. PICK b \in BOOLEAN : Accounts!SaveAccount(c, c.token, b)
    BY <1>1, <1>4
  <2> QED BY <1>2, <1>4, <2>1, RequestSaves
<1>5. CASE Accounts!GiveBack(c) /\ Accounts!Settle(c)
  <2>1. calls' = calls \ {c} /\ UNCHANGED <<storage, ended>>
    BY <1>5 DEF Accounts!GiveBack, Accounts!Settle
  <2>2. PICK b \in BOOLEAN : tab' = [tab EXCEPT ![c.tab].busy = b]
    <3>1. tab' = [tab EXCEPT ![c.tab].busy = tab[c.tab].busy /\ c.kind # "change"]
      BY <1>1, <1>5 DEF Accounts!GiveBack
    <3>2. \A x \in BOOLEAN : \E b \in BOOLEAN : b = (x /\ c.kind # "change")
      BY Zenon
    <3> QED BY <1>1, <3>1, <3>2, Zenon
  <2>3. /\ tab' \in [Tabs -> TabTypes] /\ \A s \in Tabs \ {c.tab} : tab'[s] = tab[s]
        /\ tab'[c.tab].phase = tab[c.tab].phase /\ tab'[c.tab].accounts = tab[c.tab].accounts
        /\ tab'[c.tab].active = tab[c.tab].active
    BY <1>1, <2>2 DEF TabTypes
  <2>4. ASSUME NEW d \in calls', SignsIn(d) PROVE d.tab # c.tab /\ d.tab \in Tabs
    <3>1. d \in calls /\ d # c /\ CallFine(d) /\ d.tab \in Tabs
      BY <2>1 DEF AccountInv, AccountTypes, CallTypes
    <3> QED BY <2>4, <3>1 DEF CallFine
  <2> QED BY <1>1, <1>2, <2>1, <2>3, <2>4, PageGoesOn
<1> QED BY <1>3, <1>4, <1>5 DEF Accounts!RequestAnswer

LEMMA LoginEnds ==
    ASSUME PagesAssumption, AccountInv, NEW c \in calls, Accounts!LoginAnswer(c)
    PROVE  AccountInv' /\ Accounts!KeepsKnownAccounts
<1> DEFINE t == c.tab
<1>1. /\ c \in CallTypes /\ t \in Tabs /\ CallFine(c) /\ SignsIn(c)
      /\ tab \in [Tabs -> TabTypes] /\ tab[t] \in TabTypes /\ events \in Nat
      /\ server \in [Users -> [ver : Nat, era : Nat]]
  BY DEF AccountInv, AccountTypes, CallTypes, Accounts!LoginAnswer, SignsIn
<1>2. calls' = calls \ {c} /\ UNCHANGED <<server, events>>
  BY DEF Accounts!LoginAnswer, Accounts!Settle
<1>3. ASSUME NEW d \in calls, d # c PROVE d.tab # t
  BY <1>1, <1>3 DEF CallFine
<1>4. CASE c.status = "ok" /\ c.kind # "forgot"
  <2>1. Accounts!SaveAccount(c, c.token, FALSE) /\ c.token \in Holder
    BY <1>1, <1>4 DEF Accounts!LoginAnswer, CallFine
  <2>2. /\ storage' \in StoreTypes
        /\ tab' \in [Tabs -> TabTypes] /\ \A s \in Tabs \ {c.tab} : tab'[s] = tab[s]
        /\ tab'[c.tab].phase = tab[c.tab].phase /\ tab'[c.tab].active = c.token.user
        /\ tab'[c.tab].accounts = storage'.accounts
        /\ Accounts!UsersOf(c.accounts) \cup {c.token.user} \subseteq Accounts!UsersOf(storage'.accounts)
    BY <1>1, <2>1, Saving
  <2>3. /\ tab[t].phase \in {"ready", "leaving"} /\ c.accounts = tab[t].accounts
        /\ ended' = [ended EXCEPT ![t] = ended[t] \ {c.token.user}]
        /\ ended \in [Tabs -> SUBSET Users]
    BY <1>1, <1>4 DEF CallFine, SignsIn, Accounts!LoginAnswer, AccountInv, AccountTypes
  <2>4. /\ ended' \in [Tabs -> SUBSET Users] /\ ended'[t] = ended[t] \ {c.token.user}
        /\ \A s \in Tabs \ {t} : ended'[s] = ended[s]
    BY <1>1, <2>3
  <2>5. AccountTypes'
    BY <1>1, <1>2, <2>2, <2>4 DEF AccountInv, AccountTypes
  <2>6. tab[t].phase = "ready" => ended'[t] \cap Accounts!UsersOf(storage'.accounts) = {}
    <3>1. /\ Accounts!UsersOf(storage'.accounts) \subseteq Accounts!UsersOf(c.accounts) \cup {c.token.user}
          /\ tab[t].phase = "ready" => Accounts!UsersOf(c.accounts) \cap ended[t] = {}
      BY <1>1, <2>1, <2>3, Saving DEF AccountInv, TabFine
    <3> QED BY <2>4, <3>1
  <2>7. ASSUME NEW s \in Tabs PROVE TabFine(s)'
    <3>1. CASE s = t
      BY <2>2, <2>3, <2>6, <3>1 DEF TabFine
    <3>2. CASE s # t
      BY <2>2, <2>4, <3>2 DEF AccountInv, TabFine
    <3> QED BY <3>1, <3>2
  <2>8. ASSUME NEW d \in calls' PROVE CallFine(d)'
    <3>1. d \in calls /\ d.tab \in Tabs \ {t} /\ CallFine(d)
      BY <1>2, <1>3 DEF AccountInv, AccountTypes, CallTypes
    <3>2. tab'[d.tab] = tab[d.tab] /\ ended'[d.tab] = ended[d.tab]
      BY <2>2, <2>4, <3>1
    <3> QED BY <1>2, <3>1, <3>2 DEF CallFine, SignsIn, Accounts!Shown
  <2>9. Accounts!KeepsKnownAccounts
    <3>1. \A d : d.tab # t => (d \in calls' <=> d \in calls)
      BY <1>2
    <3>2. Accounts!Knows(t) = Accounts!UsersOf(c.accounts)
      BY <1>1, <2>3, KnowsItsList
    <3>3. Accounts!Knows(t) \cap Accounts!UsersOf(storage.accounts)
             \subseteq Accounts!UsersOf(storage'.accounts) \cup ended'[t]
      BY <2>2, <3>2
    <3> QED BY <1>1, <2>2, <2>3, <2>6, <3>1, <3>3, KeptByOne
  <2> QED BY <2>5, <2>7, <2>8, <2>9 DEF AccountInv
<1>5. CASE ~(c.status = "ok" /\ c.kind # "forgot")
  <2>1. UNCHANGED <<storage, ended>> /\ \E mode \in {tab[t].mode, "reset-confirm"} :
                                          tab' = [tab EXCEPT ![t].busy = FALSE, ![t].mode = mode]
    BY <1>5 DEF Accounts!LoginAnswer
  <2>2. /\ tab' \in [Tabs -> TabTypes] /\ \A s \in Tabs \ {t} : tab'[s] = tab[s]
        /\ tab'[t].phase = tab[t].phase /\ tab'[t].accounts = tab[t].accounts
        /\ tab'[t].active = tab[t].active
    <3>1. PICK mode \in {tab[t].mode, "reset-confirm"} :
            tab' = [tab EXCEPT ![t].busy = FALSE, ![t].mode = mode]
      BY <2>1
    <3>2. mode \in Accounts!Modes
      BY <1>1 DEF TabTypes, Accounts!Modes
    <3> HIDE DEF t
    <3> QED BY <1>1, <3>1, <3>2 DEF TabTypes
  <2>3. ASSUME NEW d \in calls' PROVE d.tab # t /\ d.tab \in Tabs
    BY <1>2, <1>3 DEF AccountInv, AccountTypes, CallTypes
  <2> QED BY <1>1, <1>2, <2>1, <2>2, <2>3, PageGoesOn
<1> QED BY <1>4, <1>5

LEMMA ModeIsChosen ==
    ASSUME AccountInv, NEW t \in Tabs, NEW mode \in Accounts!Modes, Accounts!ChooseMode(t, mode)
    PROVE  AccountInv' /\ Accounts!KeepsKnownAccounts
<1>1. /\ tab \in [Tabs -> TabTypes] /\ tab[t] \in TabTypes /\ calls \subseteq CallTypes
      /\ server \in [Users -> [ver : Nat, era : Nat]] /\ events \in Nat
  BY DEF AccountInv, AccountTypes
<1>2. tab' = [tab EXCEPT ![t].mode = mode] /\ UNCHANGED <<server, storage, calls, ended, events>>
  BY DEF Accounts!ChooseMode
<1>3. /\ tab' \in [Tabs -> TabTypes]
      /\ \A s \in Tabs : /\ tab'[s].phase = tab[s].phase /\ tab'[s].active = tab[s].active
                         /\ tab'[s].accounts = tab[s].accounts /\ tab'[s].busy = tab[s].busy
  BY <1>1, <1>2 DEF TabTypes
<1>4. \A d \in calls : d.tab \in Tabs
  BY <1>1 DEF CallTypes
<1> QED BY <1>1, <1>2, <1>3, <1>4, PageGoesOn

SameList(t) ==
    /\ storage'.accounts = storage.accounts /\ tab'[t].busy = tab[t].busy
    /\ tab'[t].accounts = tab[t].accounts /\ tab'[t].active = tab[t].active

\* The page is left, with the list as it is or without an account.
LEMMA PageIsLeft ==
    ASSUME PagesAssumption, AccountInv, NEW t \in Tabs, tab[t].phase \in {"ready", "leaving"},
           UNCHANGED <<server, events>>, calls' \subseteq calls,
           \A d : d.tab # t => (d \in calls' <=> d \in calls),
           tab' \in [Tabs -> TabTypes], \A s \in Tabs \ {t} : tab'[s] = tab[s],
           tab'[t].phase = "leaving", storage' \in StoreTypes,
           ended' \in [Tabs -> SUBSET Users], \A s \in Tabs \ {t} : ended'[s] = ended[s],
           ended[t] \subseteq ended'[t],
           \/ SameList(t)
           \/ /\ \A d \in calls' : d.tab = t => ~SignsIn(d)
              /\ tab'[t].accounts = storage'.accounts
              /\ Accounts!UsersOf(tab'[t].accounts) \ ended'[t]
                   = Accounts!UsersOf(tab[t].accounts) \ ended'[t]
              /\ tab[t].phase = "ready"
                   => Accounts!UsersOf(tab'[t].accounts) \subseteq Accounts!UsersOf(tab[t].accounts)
    PROVE  AccountInv' /\ Accounts!KeepsKnownAccounts
<1>1. ASSUME NEW d \in calls', d.tab # t PROVE CallFine(d)'
  <2>1. CallFine(d) /\ d.tab \in Tabs
    BY DEF AccountInv, AccountTypes, CallTypes
  <2>2. tab'[d.tab] = tab[d.tab] /\ ended'[d.tab] = ended[d.tab]
    BY <1>1, <2>1
  <2> QED BY <2>1, <2>2 DEF CallFine, SignsIn, Accounts!Shown
<1>2. ASSUME NEW d \in calls', d.tab = t PROVE CallFine(d)'
  <2>1. CallFine(d) /\ d.kind # "boot"
    BY <1>2 DEF AccountInv, CallFine
  <2>2. Accounts!UsersOf(d.accounts) \ ended[t] = Accounts!UsersOf(tab[t].accounts) \ ended[t]
    BY <1>2, <2>1 DEF CallFine
  <2>3. CASE SameList(t)
    BY <1>2, <2>1, <2>2, <2>3 DEF CallFine, SignsIn, Accounts!Shown, SameList
  <2>4. CASE ~SameList(t)
    <3>1. ~SignsIn(d)
      BY <1>2, <2>4
    <3>2. Accounts!UsersOf(d.accounts) \ ended'[t] = Accounts!UsersOf(tab'[t].accounts) \ ended'[t]
      BY <2>2, <2>4
    <3> QED BY <1>2, <2>1, <3>1, <3>2 DEF CallFine, SignsIn
  <2> QED BY <2>3, <2>4
<1>3. AccountTypes'
  BY DEF AccountInv, AccountTypes
<1>4. ASSUME NEW s \in Tabs PROVE TabFine(s)'
  <2>1. CASE s = t
    BY <2>1 DEF TabFine
  <2>2. CASE s # t
    BY <2>2 DEF AccountInv, TabFine
  <2> QED BY <2>1, <2>2
<1>5. Accounts!KeepsKnownAccounts
  <2>1. Accounts!Knows(t) = Accounts!UsersOf(tab[t].accounts)
    BY KnowsItsList
  <2>2. CASE SameList(t)
    BY <2>2, KeptInStore DEF SameList
  <2>3. CASE ~SameList(t)
    <3>1. Accounts!Knows(t) \cap Accounts!UsersOf(storage.accounts)
             \subseteq Accounts!UsersOf(storage'.accounts) \cup ended'[t]
      BY <2>1, <2>3
    <3>2. tab[t].phase # "leaving"
             => ended[t] \cap ended'[t] \cap Accounts!UsersOf(storage'.accounts) = {}
      BY <2>3 DEF AccountInv, TabFine
    <3> QED BY <3>1, <3>2, KeptByOne
  <2> QED BY <2>2, <2>3
<1> QED BY <1>1, <1>2, <1>3, <1>4, <1>5 DEF AccountInv

\* logout, with the list of a render of the page.
LEMMA AccountIsLeft ==
    ASSUME PagesAssumption, AccountInv, NEW t \in Tabs, tab[t].phase \in {"ready", "leaving"},
           UNCHANGED <<server, events>>, calls' \subseteq calls,
           \A d : d.tab # t => (d \in calls' <=> d \in calls),
           \A d \in calls' : d.tab = t => ~SignsIn(d),
           NEW l \in Register, NEW u \in Users, Accounts!LeaveAccount(t, l, u),
           Accounts!UsersOf(l) \ ended[t] = Accounts!UsersOf(tab[t].accounts) \ ended[t],
           tab[t].phase = "ready" => Accounts!UsersOf(l) = Accounts!UsersOf(tab[t].accounts)
    PROVE  AccountInv' /\ Accounts!KeepsKnownAccounts
<1> DEFINE m == Accounts!Without(l, u)
           next == Accounts!First(m).user
<1>1. /\ tab \in [Tabs -> TabTypes] /\ tab[t] \in TabTypes /\ ended \in [Tabs -> SUBSET Users]
  BY DEF AccountInv, AccountTypes
<1>2. /\ tab' = [tab EXCEPT ![t].phase = "leaving", ![t].accounts = m, ![t].active = next]
      /\ storage' = [accounts |-> m, active |-> next]
      /\ ended' = [ended EXCEPT ![t] = ended[t] \cup {u}]
  BY DEF Accounts!LeaveAccount
<1>3. /\ m \in Register /\ Accounts!UsersOf(m) \subseteq Accounts!UsersOf(l)
      /\ Accounts!UsersOf(l) \subseteq Accounts!UsersOf(m) \cup {u}
  BY Listed
<1>4. next \in Users \cup {"none"}
  <2> HIDE DEF m
  <2>1. Accounts!First(m) \in Holder \cup {Accounts!Nobody}
    BY <1>3, Found
  <2> QED BY <2>1 DEF Holder, Accounts!Nobody
<1> HIDE DEF m, next
<1>5. /\ ended' \in [Tabs -> SUBSET Users] /\ ended'[t] = ended[t] \cup {u}
      /\ \A s \in Tabs \ {t} : ended'[s] = ended[s]
  BY <1>1, <1>2
<1>6. /\ tab' \in [Tabs -> TabTypes] /\ \A s \in Tabs \ {t} : tab'[s] = tab[s]
      /\ tab'[t].phase = "leaving" /\ tab'[t].accounts = m /\ storage'.accounts = m
      /\ storage' \in StoreTypes
  BY <1>1, <1>2, <1>3, <1>4 DEF TabTypes, StoreTypes, Accounts!Phases
<1>7. Accounts!UsersOf(m) \ ended'[t] = Accounts!UsersOf(tab[t].accounts) \ ended'[t]
  BY <1>3, <1>5
<1>8. tab[t].phase = "ready" => Accounts!UsersOf(m) \subseteq Accounts!UsersOf(tab[t].accounts)
  BY <1>3
<1> QED BY <1>5, <1>6, <1>7, <1>8, PageIsLeft

LEMMA MenuKept ==
    ASSUME PagesAssumption, AccountInv, NEW t \in Tabs,
           Accounts!Logout(t) \/ \E u \in Users : Accounts!SwitchAccount(t, u)
    PROVE  AccountInv' /\ Accounts!KeepsKnownAccounts
<1>1. /\ tab \in [Tabs -> TabTypes] /\ tab[t] \in TabTypes /\ tab[t].accounts \in Register
      /\ storage \in StoreTypes /\ ended \in [Tabs -> SUBSET Users]
  BY DEF AccountInv, AccountTypes, TabTypes
<1>2. CASE \E u \in Users : Accounts!SwitchAccount(t, u)
  <2>1. PICK u \in Users : Accounts!SwitchAccount(t, u)
    BY <1>2
  <2>2. /\ tab' = [tab EXCEPT ![t].phase = "leaving"] /\ storage' = [storage EXCEPT !.active = u]
        /\ tab[t].phase = "ready" /\ UNCHANGED <<server, calls, ended, events>>
    BY <2>1 DEF Accounts!SwitchAccount
  <2>3. /\ tab' \in [Tabs -> TabTypes] /\ \A s \in Tabs \ {t} : tab'[s] = tab[s]
        /\ tab'[t].phase = "leaving" /\ SameList(t) /\ storage' \in StoreTypes
    BY <1>1, <2>2 DEF TabTypes, StoreTypes, Accounts!Phases, SameList
  <2> QED BY <1>1, <2>2, <2>3, PageIsLeft
<1>3. CASE Accounts!Logout(t)
  <2>1. /\ Accounts!LeaveAccount(t, tab[t].accounts, tab[t].active) /\ tab[t].phase = "ready"
        /\ UNCHANGED <<server, calls, events>> /\ Accounts!Shown(t) # Accounts!Nobody
    BY <1>3 DEF Accounts!Logout, Accounts!Screen, Accounts!Live
  <2>2. tab[t].active \in Users
    BY <1>1, <2>1, Found DEF Accounts!Shown, Holder
  <2>3. \A d \in calls : d.tab = t => ~SignsIn(d)
    BY <2>1 DEF AccountInv, CallFine
  <2> QED BY <1>1, <2>1, <2>2, <2>3, AccountIsLeft
<1> QED BY <1>2, <1>3

\* logoutAll: the account is left after the answer, or the page goes on after an error.
LEMMA LogoutEnds ==
    ASSUME PagesAssumption, AccountInv, NEW c \in calls, Accounts!LogoutAnswer(c)
    PROVE  AccountInv' /\ Accounts!KeepsKnownAccounts
<1>1. /\ c \in CallTypes /\ c.tab \in Tabs /\ CallFine(c) /\ c.kind = "logout"
      /\ c.accounts \in Register /\ c.acc.user \in Users /\ tab \in [Tabs -> TabTypes]
      /\ tab[c.tab] \in TabTypes /\ tab[c.tab].busy \in BOOLEAN /\ events \in Nat
      /\ server \in [Users -> [ver : Nat, era : Nat]]
  BY DEF AccountInv, AccountTypes, CallTypes, TabTypes, Holder, Accounts!LogoutAnswer
<1>2. calls' = calls \ {c} /\ UNCHANGED <<server, events>>
  BY DEF Accounts!LogoutAnswer, Accounts!Settle
<1>3. \A d \in calls : d.tab = c.tab => ~SignsIn(d)
  BY <1>1 DEF AccountInv, CallFine, SignsIn
<1>4. CASE Accounts!LeaveAccount(c.tab, c.accounts, c.acc.user)
  <2>1. /\ tab[c.tab].phase \in {"ready", "leaving"}
        /\ Accounts!UsersOf(c.accounts) \ ended[c.tab]
             = Accounts!UsersOf(tab[c.tab].accounts) \ ended[c.tab]
        /\ tab[c.tab].phase = "ready"
             => Accounts!UsersOf(c.accounts) = Accounts!UsersOf(tab[c.tab].accounts)
    BY <1>1 DEF CallFine
  <2>2. calls' \subseteq calls /\ \A d : d.tab # c.tab => (d \in calls' <=> d \in calls)
    BY <1>2
  <2>3. \A d \in calls' : d.tab = c.tab => ~SignsIn(d)
    BY <1>2, <1>3
  <2> QED BY <1>1, <1>2, <1>4, <2>1, <2>2, <2>3, AccountIsLeft
<1>5. CASE Accounts!GiveBack(c)
  <2>1. calls' \subseteq calls /\ UNCHANGED <<storage, ended>>
    BY <1>2, <1>5 DEF Accounts!GiveBack
  <2>2. PICK b \in BOOLEAN : tab' = [tab EXCEPT ![c.tab].busy = b]
    <3>1. tab' = [tab EXCEPT ![c.tab].busy = tab[c.tab].busy /\ c.kind # "change"]
      BY <1>1, <1>5 DEF Accounts!GiveBack
    <3>2. \A x \in BOOLEAN : \E b \in BOOLEAN : b = (x /\ c.kind # "change")
      BY Zenon
    <3> QED BY <1>1, <3>1, <3>2, Zenon
  <2>3. /\ tab' \in [Tabs -> TabTypes] /\ \A s \in Tabs \ {c.tab} : tab'[s] = tab[s]
        /\ tab'[c.tab].phase = tab[c.tab].phase /\ tab'[c.tab].accounts = tab[c.tab].accounts
        /\ tab'[c.tab].active = tab[c.tab].active
    BY <1>1, <2>2 DEF TabTypes
  <2>4. ASSUME NEW d \in calls', SignsIn(d) PROVE d.tab # c.tab /\ d.tab \in Tabs
    BY <1>2, <1>3, <2>4 DEF AccountInv, AccountTypes, CallTypes
  <2> QED BY <1>1, <1>2, <2>1, <2>3, <2>4, PageGoesOn
<1> QED BY <1>4, <1>5 DEF Accounts!LogoutAnswer

\* A page that starts or has started, with no calls but that of the start.
LEMMA PageStarts ==
    ASSUME PagesAssumption, AccountInv, NEW t \in Tabs,
           \A d : d.tab # t => (d \in calls' <=> d \in calls),
           tab' \in [Tabs -> TabTypes], \A s \in Tabs \ {t} : tab'[s] = tab[s],
           storage' \in StoreTypes, ended' \in [Tabs -> SUBSET Users],
           \A s \in Tabs \ {t} : ended'[s] = ended[s],
           UNCHANGED server, events' \in Nat,
           \/ /\ tab'[t].phase = "ready" /\ \A d \in calls' : d.tab # t
              /\ Accounts!UsersOf(tab'[t].accounts) \cap ended'[t] = {}
           \/ /\ tab'[t].phase = "boot" /\ tab'[t].accounts = <<>> /\ ended'[t] = {}
              /\ \E c \in CallTypes : /\ c.kind = "boot" /\ c.status = "none"
                                      /\ c.acc.user \in Accounts!UsersOf(c.accounts)
                                      /\ \A d \in calls' : d.tab = t => d = c
    PROVE  AccountInv'
<1>1. ASSUME NEW d \in calls', d.tab # t PROVE CallFine(d)'
  <2>1. d \in calls /\ CallFine(d) /\ d.tab \in Tabs
    BY <1>1 DEF AccountInv, AccountTypes, CallTypes
  <2>2. tab'[d.tab] = tab[d.tab] /\ ended'[d.tab] = ended[d.tab]
    BY <1>1, <2>1
  <2>3. \A x \in calls' : x.tab = d.tab => x \in calls
    BY <1>1
  <2> QED BY <2>1, <2>2, <2>3 DEF CallFine, SignsIn, Accounts!Shown
<1>2. ASSUME NEW d \in calls', d.tab = t PROVE CallFine(d)'
  <2>1. /\ d.kind = "boot" /\ tab'[t].phase = "boot" /\ d.status = "none"
        /\ d.acc.user \in Accounts!UsersOf(d.accounts) /\ \A x \in calls' : x.tab = t => x = d
    BY <1>2
  <2> QED BY <1>2, <2>1 DEF CallFine, SignsIn
<1>3. AccountTypes'
  <2>1. \A d \in calls' : d \in CallTypes
    BY DEF AccountInv, AccountTypes
  <2> QED BY <2>1 DEF AccountInv, AccountTypes
<1>4. ASSUME NEW s \in Tabs PROVE TabFine(s)'
  <2>1. CASE s = t
    BY <2>1, NoneListed DEF TabFine
  <2>2. CASE s # t
    BY <2>2 DEF AccountInv, TabFine
  <2> QED BY <2>1, <2>2
<1> QED BY <1>1, <1>2, <1>3, <1>4 DEF AccountInv

LEMMA LoadKept ==
    ASSUME PagesAssumption, AccountInv, NEW t \in Tabs, Accounts!Load(t)
    PROVE  AccountInv' /\ Accounts!KeepsKnownAccounts
<1> DEFINE l == storage.accounts
           wanted == Accounts!Find(l, storage.active)
           active == IF wanted = Accounts!Nobody THEN Accounts!First(l) ELSE wanted
           others == {c \in calls : c.tab # t}
           fresh == [phase |-> "boot", accounts |-> <<>>, active |-> "none",
                     mode |-> "login", busy |-> FALSE, fired |-> FALSE]
           c == [Accounts!Call(t, "boot", "sent", active) EXCEPT !.accounts = l]
<1>1. /\ tab \in [Tabs -> TabTypes] /\ tab[t].accounts \in Register /\ l \in Register
      /\ storage \in StoreTypes /\ events \in Nat
  BY DEF AccountInv, AccountTypes, TabTypes, StoreTypes
<1>2. /\ active = Accounts!Nobody => l = <<>>
      /\ active # Accounts!Nobody => active \in Holder /\ active.user \in Accounts!UsersOf(l)
  <2> HIDE DEF l
  <2> QED BY <1>1, Found
<1>3. /\ events' \in Nat /\ UNCHANGED server /\ ended' \in [Tabs -> SUBSET Users]
      /\ ended'[t] = {} /\ \A s \in Tabs \ {t} : ended'[s] = ended[s]
  <2>1. ended' = [ended EXCEPT ![t] = {}] /\ ended \in [Tabs -> SUBSET Users]
    BY DEF Accounts!Load, AccountInv, AccountTypes
  <2>2. events' \in Nat /\ UNCHANGED server
    BY <1>1 DEF Accounts!Load, Accounts!Counted
  <2> QED BY <2>1, <2>2
<1>4. (\A d : d.tab # t => (d \in others <=> d \in calls)) /\ \A d \in others : d.tab # t
  OBVIOUS
<1>5. \/ /\ active = Accounts!Nobody /\ storage' = [accounts |-> <<>>, active |-> "none"]
         /\ tab' = [[tab EXCEPT ![t] = fresh] EXCEPT ![t].phase = "ready"] /\ calls' = others
      \/ /\ active # Accounts!Nobody /\ UNCHANGED storage
         /\ tab' = [tab EXCEPT ![t] = fresh] /\ calls' = others \cup {c}
  BY DEF Accounts!Load
<1>6. /\ fresh \in TabTypes /\ fresh.phase = "boot" /\ fresh.accounts = <<>>
      /\ [fresh EXCEPT !.phase = "ready"] \in TabTypes
  <2>2. fresh \in TabTypes /\ fresh.phase = "boot" /\ fresh.accounts = <<>>
    BY NoneListed DEF TabTypes, Accounts!Phases, Accounts!Modes
  <2> HIDE DEF fresh
  <2> QED BY <2>2 DEF TabTypes, Accounts!Phases
<1>7. active # Accounts!Nobody =>
         /\ c \in CallTypes /\ c.kind = "boot" /\ c.tab = t /\ c.status = "none"
         /\ c.acc.user \in Accounts!UsersOf(c.accounts)
  <2> SUFFICES ASSUME active # Accounts!Nobody
               PROVE  /\ c \in CallTypes /\ c.kind = "boot" /\ c.tab = t /\ c.status = "none"
                      /\ c.acc.user \in Accounts!UsersOf(c.accounts)
    OBVIOUS
  <2>1. active \in Holder /\ active.user \in Accounts!UsersOf(l)
    BY <1>2
  <2> HIDE DEF active, l
  <2> QED BY <1>1, <2>1 DEF Accounts!Call, CallTypes, Accounts!Kinds
<1> HIDE DEF active, others, c, fresh
<1>8. CASE active = Accounts!Nobody
  <2>1. /\ tab' \in [Tabs -> TabTypes] /\ \A s \in Tabs \ {t} : tab'[s] = tab[s]
        /\ tab'[t].phase = "ready" /\ calls' = others
        /\ storage' \in StoreTypes
        /\ storage'.accounts = storage.accounts
    <3>1. /\ storage' = [accounts |-> <<>>, active |-> "none"] /\ calls' = others /\ l = <<>>
          /\ tab' = [tab EXCEPT ![t] = [fresh EXCEPT !.phase = "ready"]]
      BY <1>1, <1>2, <1>5, <1>8
    <3>2. [fresh EXCEPT !.phase = "ready"].phase = "ready"
      BY <1>6 DEF TabTypes
    <3>3. tab' \in [Tabs -> TabTypes] /\ tab'[t].phase = "ready" /\ \A s \in Tabs \ {t} : tab'[s] = tab[s]
      BY <1>1, <1>6, <3>1, <3>2
    <3> QED BY <3>1, <3>3, NoneListed DEF StoreTypes
  <2> QED BY <1>3, <1>4, <2>1, PageStarts, KeptInStore
<1>9. CASE active # Accounts!Nobody
  <2>1. /\ tab' \in [Tabs -> TabTypes] /\ \A s \in Tabs \ {t} : tab'[s] = tab[s]
        /\ tab'[t].phase = "boot" /\ tab'[t].accounts = <<>> /\ calls' = others \cup {c}
        /\ storage' \in StoreTypes
        /\ storage'.accounts = storage.accounts
    <3>1. UNCHANGED storage /\ calls' = others \cup {c} /\ tab' = [tab EXCEPT ![t] = fresh]
      BY <1>5, <1>9
    <3>2. tab' \in [Tabs -> TabTypes] /\ tab'[t] = fresh /\ \A s \in Tabs \ {t} : tab'[s] = tab[s]
      BY <1>1, <1>6, <3>1
    <3> QED BY <1>1, <1>6, <3>1, <3>2
  <2>2. /\ c \in CallTypes /\ c.kind = "boot" /\ c.tab = t /\ c.status = "none"
        /\ c.acc.user \in Accounts!UsersOf(c.accounts)
    BY <1>7, <1>9
  <2>3. \A d : d.tab # t => (d \in calls' <=> d \in calls)
    BY <1>4, <2>1, <2>2
  <2>4. \A d \in calls' : d.tab = t => d = c
    BY <1>4, <2>1
  <2> HIDE DEF c
  <2> QED BY <1>3, <2>1, <2>2, <2>3, <2>4, PageStarts, KeptInStore
<1> QED BY <1>8, <1>9

LEMMA BootKept ==
    ASSUME PagesAssumption, AccountInv, NEW c \in calls, Accounts!BootAnswer(c)
    PROVE  AccountInv' /\ Accounts!KeepsKnownAccounts
<1> DEFINE t == c.tab
<1>1. /\ c \in CallTypes /\ t \in Tabs /\ CallFine(c) /\ c.kind = "boot" /\ tab[t].phase = "boot"
      /\ c.accounts \in Register /\ c.acc \in Holder
      /\ c.acc.user \in Accounts!UsersOf(c.accounts) /\ ended[t] = {}
      /\ ended \in [Tabs -> SUBSET Users] /\ c.me \in {"none", "denied", "lost"}
      /\ tab \in [Tabs -> TabTypes] /\ tab[t] \in TabTypes /\ events \in Nat
      /\ server \in [Users -> [ver : Nat, era : Nat]] /\ UNCHANGED <<server, events>>
  BY DEF AccountInv, AccountTypes, CallTypes, Accounts!BootAnswer, CallFine, SignsIn, TabFine
<1>2. CASE /\ c.status \in {"denied", "lost"} /\ UNCHANGED <<tab, storage, ended>>
           /\ Accounts!Replace(c, [Accounts!Pending(c, "refreshing", c.acc) EXCEPT !.me = c.status])
  <2> DEFINE e == [Accounts!Pending(c, "refreshing", c.acc) EXCEPT !.me = c.status]
  <2>1. /\ e \in CallTypes /\ e.tab = c.tab /\ e.kind = c.kind /\ e.accounts = c.accounts
        /\ e.acc.user = c.acc.user /\ e.status # "ok"
    BY <1>1, <1>2 DEF Accounts!Pending, CallTypes
  <2>2. calls' = (calls \ {c}) \cup {e}
    BY <1>2 DEF Accounts!Replace
  <2> HIDE DEF e
  <2> QED BY <1>1, <1>2, <2>1, <2>2, CallGoesOn
<1>3. CASE ~(/\ c.status \in {"denied", "lost"} /\ UNCHANGED <<tab, storage, ended>>
             /\ Accounts!Replace(c, [Accounts!Pending(c, "refreshing", c.acc) EXCEPT !.me = c.status]))
  <2> DEFINE gone == c.me = "denied" /\ c.status = "denied"
             kept == IF c.stage = "refreshing" /\ Accounts!Refused(c)
                     THEN Accounts!Without(c.accounts, c.acc.user) ELSE c.accounts
             active == IF c.status = "odd" THEN Accounts!Nobody
                       ELSE IF c.status = "ok" THEN c.token
                       ELSE IF kept = c.accounts THEN c.acc ELSE Accounts!First(kept)
             l == IF active = Accounts!Nobody THEN kept
                  ELSE <<active>> \o Accounts!Without(kept, active.user)
  <2>1. /\ calls' = calls \ {c} /\ Accounts!FinishBoot(t, kept, active)
        /\ ended' = [ended EXCEPT ![t] = ended[t] \cup IF gone THEN {c.acc.user} ELSE {}]
        /\ c.stage = "refreshing" \/ c.status \in {"ok", "odd"}
    BY <1>3 DEF Accounts!BootAnswer, Accounts!Settle
  <2>2. /\ ended' \in [Tabs -> SUBSET Users] /\ \A s \in Tabs \ {t} : ended'[s] = ended[s]
        /\ ended'[t] = IF gone THEN {c.acc.user} ELSE {}
    <3> HIDE DEF gone, t
    <3>1. c.acc.user \in Users
      BY <1>1 DEF Holder
    <3> QED BY <1>1, <2>1, <3>1
  <2>3. /\ kept \in Register
        /\ Accounts!UsersOf(c.accounts) \subseteq Accounts!UsersOf(kept) \cup ended'[t]
        /\ gone => c.acc.user \notin Accounts!UsersOf(kept)
    <3>1. CASE gone
      <4>1. kept = Accounts!Without(c.accounts, c.acc.user)
        BY <2>1, <3>1 DEF Accounts!Refused
      <4> HIDE DEF kept
      <4> QED BY <1>1, <2>2, <3>1, <4>1, Listed
    <3>2. CASE ~gone
      <4>1. kept = c.accounts
        BY <3>2 DEF Accounts!Refused
      <4> HIDE DEF kept
      <4> QED BY <1>1, <3>2, <4>1
    <3> QED BY <3>1, <3>2
  <2>4. /\ active \in Holder \cup {Accounts!Nobody}
        /\ gone /\ active # Accounts!Nobody => active.user # c.acc.user
    <3>1. /\ Accounts!First(kept) \in Holder \cup {Accounts!Nobody}
          /\ Accounts!First(kept) # Accounts!Nobody
               => Accounts!First(kept).user \in Accounts!UsersOf(kept)
      <4> HIDE DEF kept
      <4> QED BY <2>3, Found
    <3>2. gone => kept # c.accounts
      <4> HIDE DEF kept
      <4> QED BY <1>1, <2>3
    <3>3. gone => active = Accounts!First(kept)
      BY <3>2
    <3>4. c.status = "ok" => c.token \in Holder
      BY <1>1 DEF CallFine
    <3> HIDE DEF kept, gone
    <3> QED BY <1>1, <2>3, <3>1, <3>3, <3>4
  <2> HIDE DEF kept, active, gone
  <2>5. /\ l \in Register /\ Accounts!UsersOf(kept) \subseteq Accounts!UsersOf(l)
        /\ gone => c.acc.user \notin Accounts!UsersOf(l)
    <3>1. CASE active = Accounts!Nobody
      BY <2>3, <3>1
    <3>2. CASE active # Accounts!Nobody
      <4>1. active \in Holder /\ l = <<active>> \o Accounts!Without(kept, active.user)
        BY <2>4, <3>2
      <4> HIDE DEF l
      <4>2. /\ Accounts!Without(kept, active.user) \in Register
            /\ active.user \notin Accounts!UsersOf(Accounts!Without(kept, active.user))
            /\ Accounts!UsersOf(Accounts!Without(kept, active.user)) \subseteq Accounts!UsersOf(kept)
            /\ Accounts!UsersOf(kept)
                  \subseteq Accounts!UsersOf(Accounts!Without(kept, active.user)) \cup {active.user}
        BY <2>3, Listed
      <4>3. /\ l \in Register
            /\ Accounts!UsersOf(l)
                  = {active.user} \cup Accounts!UsersOf(Accounts!Without(kept, active.user))
        BY <4>1, <4>2, Prepended
      <4> QED BY <2>3, <2>4, <3>2, <4>2, <4>3
    <3> QED BY <3>1, <3>2
  <2>6. /\ tab' = [tab EXCEPT ![t].phase = "ready", ![t].accounts = l, ![t].active = active.user]
        /\ storage' = [accounts |-> l, active |-> active.user]
    BY <2>1 DEF Accounts!FinishBoot
  <2>7. active.user \in Users \cup {"none"}
    BY <2>4 DEF Holder, Accounts!Nobody
  <2> HIDE DEF l
  <2>8. /\ tab' \in [Tabs -> TabTypes] /\ \A s \in Tabs \ {t} : tab'[s] = tab[s]
        /\ tab'[t].phase = "ready" /\ tab'[t].accounts = l /\ storage'.accounts = l
        /\ storage' \in StoreTypes
    <3> HIDE DEF t
    <3> QED BY <1>1, <2>5, <2>6, <2>7 DEF TabTypes, StoreTypes, Accounts!Phases
  <2>9. \A d \in calls : d \in calls \ {c} <=> d.tab # t
    BY <1>1 DEF CallFine
  <2>10. AccountInv'
    <3>1. Accounts!UsersOf(tab'[t].accounts) \cap ended'[t] = {}
      BY <2>2, <2>5, <2>8
    <3>2. (\A d : d.tab # t => (d \in calls' <=> d \in calls)) /\ \A d \in calls' : d.tab # t
      BY <2>1, <2>9
    <3>3. UNCHANGED server /\ events' \in Nat
      BY <1>1
    <3> HIDE DEF t
    <3> QED BY <1>1, <2>2, <2>8, <3>1, <3>2, <3>3, PageStarts
  <2>11. Accounts!KeepsKnownAccounts
    <3>1. Accounts!Knows(t) \subseteq Accounts!UsersOf(c.accounts)
      <4>1. Accounts!UsersOf(tab[t].accounts) = {}
        BY <1>1 DEF AccountInv, TabFine
      <4>2. \A d \in Accounts!CallsOf(t) : d = c
        BY <1>1 DEF Accounts!CallsOf, CallFine
      <4> QED BY <4>1, <4>2 DEF Accounts!Knows
    <3>2. \A d : d.tab # t => (d \in calls' <=> d \in calls)
      BY <2>1
    <3>3. Accounts!Knows(t) \cap Accounts!UsersOf(storage.accounts)
             \subseteq Accounts!UsersOf(storage'.accounts) \cup ended'[t]
      BY <2>3, <2>5, <2>8, <3>1
    <3> HIDE DEF t
    <3> QED BY <1>1, <2>8, <3>2, <3>3, KeptByOne
  <2> QED BY <2>10, <2>11
<1> QED BY <1>2, <1>3

LEMMA AccountsKept ==
    ASSUME PagesAssumption, AccountInv, Accounts!Next
    PROVE  AccountInv' /\ Accounts!KeepsKnownAccounts
BY LoadKept, PageAsks, MenuKept, ModeIsChosen, SomebodySubmits, BootKept, RequestEnds, LogoutEnds,
   LoginEnds, BackendAnswers, TokensEnd DEF Accounts!Next

-----------------------------------------------------------------------------
(* The parts together. *)

Kept ==
    /\ part = "inbox" => AskInv
    /\ part = "composer" => BoxInv /\ Plain
    /\ part = "transcript" => ChatInv
    /\ part = "accounts" => AccountInv

KeptThere == part = "accounts" => Accounts!KeepsKnownAccounts

LEMMA KeptInitially == PagesAssumption /\ Init => Kept
BY AskInitially, BoxInitially, PlainInitially, ChatInitially, AccountsInitially DEF Init, Kept

LEMMA KeptOn ==
    ASSUME PagesAssumption, Kept, [Next]_vars
    PROVE  Kept' /\ [KeptThere]_vars
<1>1. part' = part
  BY DEF Next, vars, InboxStep, AccountsStep, ListStep, CodingStep, BoxStep, ChatStep, BesideStep
<1>2. part = "inbox" => Inbox!Next \/ UNCHANGED inbox
  BY DEF Next, vars, InboxStep, AccountsStep, ListStep, CodingStep, BoxStep, ChatStep, BesideStep
<1>3. part = "composer" => Box!Next \/ UNCHANGED composer
  BY DEF Next, vars, InboxStep, AccountsStep, ListStep, CodingStep, BoxStep, ChatStep, BesideStep
<1>4. part = "transcript" => Chat!Next \/ UNCHANGED transcript
  BY DEF Next, vars, InboxStep, AccountsStep, ListStep, CodingStep, BoxStep, ChatStep, BesideStep
<1>5. (part = "accounts" => AccountInv') /\ [KeptThere]_vars
  <2>1. CASE UNCHANGED vars
    BY <2>1 DEF Kept, vars, accounts, AccountInv, AccountTypes, TabFine, CallFine, Accounts!Shown
  <2>2. CASE Next
    <3>1. part = "accounts" => Accounts!Next
      BY <2>2 DEF Next, InboxStep, AccountsStep, ListStep, CodingStep, BoxStep, ChatStep, BesideStep
    <3> QED BY <3>1, AccountsKept DEF Kept, KeptThere
  <2> QED BY <2>1, <2>2
<1>6. Kept'
  BY <1>1, <1>2, <1>3, <1>4, <1>5, AskKept, BoxKept, PlainKept, ChatKept DEF Kept
<1> QED BY <1>5, <1>6

\* Whatever is edited, saved, retried, lost or answered elsewhere, the run goes on with
\* decisions that the review config of each tool allows, one for each call and in their
\* order, and a call the user lets run has the arguments that were on display.
THEOREM DecidedAsDisplayed == Spec => []DecidedAsSeen
<1>1. Kept => DecidedAsSeen
  BY DecisionsAreGood DEF Kept, DecidedAsSeen
<1> QED BY <1>1, PagesAssumption, KeptInitially, KeptOn, PTL DEF Spec

\* What the server goes on with was decided at the pause it answers, whatever was saved,
\* retried or lost at an earlier one, however late the page learns of a new pause and its
\* effects run: but where a retry fires between the new pause and the effects.
THEOREM DecidedForThisPause == Spec => []DecidedHere
<1>1. Kept => DecidedHere
  BY DecisionsAreGood DEF Kept, DecidedHere
<1> QED BY <1>1, PagesAssumption, KeptInitially, KeptOn, PTL DEF Spec

\* However the answers of the server, the files, the thread and the choice of a model follow
\* each other, the box of a model that is known to take no images has none after the effects.
THEOREM BoxFits == Spec => []BoxFitsModel
<1>1. Kept => BoxFitsModel
  BY PlainFits DEF Kept, BoxFitsModel
<1> QED BY <1>1, PagesAssumption, KeptInitially, KeptOn, PTL DEF Spec

\* A file that is still read when its message is sent or its thread left is dropped, so
\* that it goes with no other message.
THEOREM FilesStayWithTheirMessage == Spec => []SentWhereAdded
<1>1. Kept => SentWhereAdded
  BY DEF Kept, BoxInv, BoxHolds, SentWhereAdded
<1> QED BY <1>1, PagesAssumption, KeptInitially, KeptOn, PTL DEF Spec

\* A pause that waits has exactly one place on the page, whatever was called before it,
\* edited, regenerated, hidden or loaded again, and whichever the page hears of first.
THEOREM PauseHasItsPlace == Spec => []PauseIsShownOnce
<1>1. Kept => PauseIsShownOnce
  BY PauseHasOnePlace DEF Kept, PauseIsShownOnce
<1> QED BY <1>1, PagesAssumption, KeptInitially, KeptOn, PTL DEF Spec

\* Every message with calls that is sent from the box has a result for at least one of them.
THEOREM CallsAreAnswered == Spec => []TurnsAnswered
<1>1. Kept => TurnsAnswered
  BY DEF Kept, ChatInv, TurnsAnswered
<1> QED BY <1>1, PagesAssumption, KeptInitially, KeptOn, PTL DEF Spec

\* A run that is awaited is shown to be, and what it failed with or brought is on display.
THEOREM RunsAreSeen == Spec => []RunIsSeen
<1>1. Kept => RunIsSeen
  BY AwaitedAndSeen DEF Kept, RunIsSeen
<1> QED BY <1>1, PagesAssumption, KeptInitially, KeptOn, PTL DEF Spec

\* A tab never makes the browser forget an account it knows of, nor brings back one that has
\* left it, while its page stays: whatever is lost, refused, answered late, loaded again or
\* saved by other tabs, in any number of them.
THEOREM AccountsAreKept == Spec => KnownAccountsKept
<1>1. Spec => [][KeptThere]_vars
  BY PagesAssumption, KeptInitially, KeptOn, PTL DEF Spec
<1> QED BY <1>1 DEF KnownAccountsKept, KeptThere
=============================================================================
