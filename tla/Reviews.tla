------------------------------ MODULE Reviews ------------------------------
(***************************************************************************)
(* A customer's review: the page FeedbackView.tsx with its form,           *)
(* ReviewFormModal.tsx, the state of useReviews, and the shop's handlers,  *)
(* reviews.py, which keep rows in the database and images in files.  A     *)
(* handler stores the files first, commits the rows, and only then deletes *)
(* the files no row needs; it may die between any two of these.            *)
(*                                                                         *)
(* The customer may also change the review in another tab or on another    *)
(* device; such calls have the same handlers and no page to answer.        *)
(***************************************************************************)
EXTENDS Browser

CONSTANTS
  Images,     \* the images that may be stored, numbered from 1
  MaxImages,  \* MAX_IMAGES_PER_REVIEW
  MaxRequests \* bound: changes asked for, here or in another tab

ASSUME ReviewAssumption ==
  /\ IsFiniteSet(Images) /\ Images = 1 .. Cardinality(Images) /\ Images # {}
  /\ MaxImages \in Nat \ {0} /\ MaxRequests \in Nat

NoReview == [review |-> 0, images |-> {}]
EmptyDraft == [rating |-> FALSE, files |-> 0, kept |-> {}]

ReviewCall(op, here) ==
  [id |-> FreeId, op |-> op, here |-> here, close |-> FALSE, stage |-> "sent", review |-> 0,
   keep |-> {}, files |-> 0, old |-> {}, saved |-> {}]

Ask(c) ==
  /\ Begin(c)
  /\ db.requests < MaxRequests
  /\ db' = [db EXCEPT !.requests = @ + 1]

ReviewsInit ==
  /\ page = "feedback"
  /\ ui = [my |-> NoReview, loading |-> TRUE, open |-> FALSE, draft |-> EmptyDraft,
           busy |-> "none", asking |-> FALSE]
  /\ calls = {[id |-> 1, op |-> "mine", here |-> TRUE, close |-> FALSE, stage |-> "sent",
               review |-> 0, keep |-> {}, files |-> 0, old |-> {}, saved |-> {}]}
  /\ \E rows \in {{}, {1}} :     \* no review, or one with an image
       db = [review |-> Cardinality(rows), last |-> Cardinality(rows), rows |-> rows,
             files |-> rows, stored |-> rows, requests |-> 0, died |-> FALSE]

-----------------------------------------------------------------------------
(* The form *)

DraftOf(my) == [rating |-> my.review # 0, files |-> 0, kept |-> my.images]

(* The form starts from the review the page knows, and starts again whenever
   the page reads the review, which it gets as a new object. *)
Reset(u) == IF u.open THEN [u EXCEPT !.draft = DraftOf(u.my)] ELSE u

OpenForm ==
  /\ ~ui.open /\ ~ui.loading
  /\ ui' = Reset([ui EXCEPT !.open = TRUE])
  /\ UNCHANGED <<page, calls, db>>

Editing == ui.open /\ ~ui.asking

CloseForm ==
  /\ Editing /\ ui.busy = "none"
  /\ ui' = [ui EXCEPT !.open = FALSE, !.draft.files = 0]
  /\ UNCHANGED <<page, calls, db>>

(* Mutant: the files chosen before are not counted. *)
SlotsBesideKept == MaxImages - Cardinality(ui.draft.kept)

SetRating ==
  /\ Editing /\ ~ui.draft.rating
  /\ ui' = [ui EXCEPT !.draft.rating = TRUE]
  /\ UNCHANGED <<page, calls, db>>

AvailableSlots == MaxImages - Cardinality(ui.draft.kept) - ui.draft.files

(* More files than there is room for are cut off. *)
HandleFileChange ==
  /\ Editing /\ AvailableSlots > 0
  /\ \E n \in 1 .. AvailableSlots : ui' = [ui EXCEPT !.draft.files = @ + n]
  /\ UNCHANGED <<page, calls, db>>

RemoveSelectedFile ==
  /\ Editing /\ ui.draft.files > 0
  /\ ui' = [ui EXCEPT !.draft.files = @ - 1]
  /\ UNCHANGED <<page, calls, db>>

RemoveExistingImage(i) ==
  /\ Editing /\ i \in ui.draft.kept
  /\ ui' = [ui EXCEPT !.draft.kept = @ \ {i}]
  /\ UNCHANGED <<page, calls, db>>

HandleReviewSubmit ==
  /\ Editing /\ ui.busy = "none" /\ ui.draft.rating
  /\ Ask([ReviewCall(IF ui.my.review = 0 THEN "submit" ELSE "update", TRUE) EXCEPT
              !.keep = ui.draft.kept, !.files = ui.draft.files])
  /\ ui' = [ui EXCEPT !.busy = "submit"]
  /\ UNCHANGED page

AskDelete ==
  /\ Editing /\ ui.busy = "none" /\ ui.my.review # 0
  /\ ui' = [ui EXCEPT !.asking = TRUE]
  /\ UNCHANGED <<page, calls, db>>

CancelDelete ==
  /\ ui.asking /\ ui.busy = "none"
  /\ ui' = [ui EXCEPT !.asking = FALSE]
  /\ UNCHANGED <<page, calls, db>>

HandleReviewDelete ==
  /\ ui.asking /\ ui.busy = "none"
  /\ Ask(ReviewCall("delete", TRUE))
  /\ ui' = [ui EXCEPT !.busy = "delete"]
  /\ UNCHANGED page

-----------------------------------------------------------------------------
(* The shop *)

(* Files are stored under names never used before. *)
Store(c) ==
  LET fresh == {i \in Images \ db.stored :
                  Cardinality({j \in Images \ db.stored : j < i}) < c.files}
  IN  /\ Cardinality(fresh) = c.files     \* bound
      /\ db' = [db EXCEPT !.files = @ \cup fresh, !.stored = @ \cup fresh]
      /\ Change(c, [c EXCEPT !.stage = "stored", !.saved = fresh, !.review = db.review,
                             !.old = db.rows])
      /\ UNCHANGED <<page, ui>>

SubmitReceived(c) ==
  /\ c.op = "submit" /\ c.stage = "sent" /\ db.review = 0 /\ c.files \leq MaxImages
  /\ Store(c)

(* What is kept is checked against the images read here, outside the
   transaction that follows. *)
UpdateReceived(c) ==
  /\ c.op = "update" /\ c.stage = "sent" /\ db.review # 0
  /\ c.keep \subseteq db.rows /\ Cardinality(c.keep) + c.files \leq MaxImages
  /\ Store(c)

Refused(c) ==
  /\ c.op # "mine" /\ c.stage = "sent"
  /\ Change(c, [c EXCEPT !.stage = "refused"])
  /\ UNCHANGED <<page, ui, db>>

(* Mutant: a rollback leaves the stored files behind. *)
RolledBackWithFiles(c) == UNCHANGED db /\ Change(c, [c EXCEPT !.stage = "refused", !.saved = {}])

(* A rollback takes the stored files away again. *)
RolledBack(c) ==
  /\ db' = [db EXCEPT !.files = @ \ c.saved]
  /\ Change(c, [c EXCEPT !.stage = "refused", !.saved = {}])

SubmitCommitted(c) ==
  /\ c.op = "submit" /\ c.stage = "stored"
  /\ IF db.review # 0 THEN RolledBack(c)
     ELSE /\ db' = [db EXCEPT !.review = db.last + 1, !.last = @ + 1, !.rows = c.saved]
          /\ Change(c, [c EXCEPT !.stage = "done", !.saved = {}])
  /\ UNCHANGED <<page, ui>>

(* Where the review was deleted meanwhile, new images have nothing to belong
   to; without new images nobody notices. *)
UpdateCommitted(c) ==
  /\ c.op = "update" /\ c.stage = "stored"
  /\ IF db.review # c.review /\ c.saved # {} THEN RolledBack(c)
     ELSE /\ db' = IF db.review # c.review THEN db
                   ELSE [db EXCEPT !.rows = (@ \ (c.old \ c.keep)) \cup c.saved]
          /\ Change(c, [c EXCEPT !.stage = "committed", !.saved = {}, !.old = @ \ c.keep])
  /\ UNCHANGED <<page, ui>>

DeleteCommitted(c) ==
  /\ c.op = "delete" /\ c.stage = "sent" /\ db.review # 0
  /\ db' = [db EXCEPT !.review = 0, !.rows = {}]
  /\ Change(c, [c EXCEPT !.stage = "committed", !.old = db.rows])
  /\ UNCHANGED <<page, ui>>

DeleteFiles(c) ==
  /\ c.stage = "committed"
  /\ db' = [db EXCEPT !.files = @ \ c.old]
  /\ Change(c, [c EXCEPT !.stage = "done", !.old = {}])
  /\ UNCHANGED <<page, ui>>

(* The handler dies; to the page this is a refusal. *)
HandlerDies(c) ==
  /\ c.op # "mine" /\ c.stage \in {"stored", "committed"}
  /\ db' = [db EXCEPT !.died = TRUE]
  /\ Change(c, [c EXCEPT !.stage = "refused", !.saved = {}, !.old = {}])
  /\ UNCHANGED <<page, ui>>

GetMyReview(c) ==
  /\ c.op = "mine" /\ c.stage = "sent"
  /\ Change(c, [c EXCEPT !.stage = "done", !.review = db.review, !.old = db.rows])
  /\ UNCHANGED <<page, ui, db>>

-----------------------------------------------------------------------------
(* The answers.  After success the review is read again, and the form closed
   whether or not that succeeds. *)

ActionAnswered(c) ==
  /\ c.op # "mine" /\ c.stage \in {"done", "refused"}
  /\ IF ~c.here THEN End(c) /\ UNCHANGED ui
     ELSE IF c.stage = "refused"
     THEN End(c) /\ ui' = [ui EXCEPT !.busy = "none", !.asking = FALSE]
     ELSE /\ Change(c, [ReviewCall("mine", TRUE) EXCEPT !.id = c.id, !.close = TRUE])
          /\ ui' = [ui EXCEPT !.loading = TRUE]
  /\ UNCHANGED <<page, db>>

RefreshMyReview(c) ==
  /\ c.op = "mine" /\ c.stage \in {"sent", "done"}
  /\ End(c)
  /\ LET known == [review |-> c.review, images |-> c.old]
         read == IF c.stage = "sent" \/ (known = NoReview /\ ui.my = NoReview) THEN ui
                 ELSE Reset([ui EXCEPT !.my = known])
         shown == [read EXCEPT !.loading = FALSE]
     IN  ui' = IF ~c.close THEN shown
               ELSE [shown EXCEPT !.open = FALSE, !.draft.files = 0, !.busy = "none",
                                  !.asking = FALSE]
  /\ UNCHANGED <<page, db>>

(* The customer in another tab. *)
ElsewhereEdit ==
  /\ \E op \in {"submit", "update", "delete"} : \E keep \in SUBSET db.rows :
     \E n \in 0 .. MaxImages :
       /\ op # "update" => keep = {}
       /\ op = "delete" => n = 0
       /\ Ask([ReviewCall(op, FALSE) EXCEPT !.keep = keep, !.files = n])
  /\ UNCHANGED <<page, ui>>

ReviewsNext ==
  \/ OpenForm \/ CloseForm \/ SetRating \/ HandleFileChange \/ RemoveSelectedFile
  \/ \E i \in Images : RemoveExistingImage(i)
  \/ HandleReviewSubmit \/ AskDelete \/ CancelDelete \/ HandleReviewDelete
  \/ ElsewhereEdit
  \/ \E c \in calls :
       \/ SubmitReceived(c) \/ UpdateReceived(c) \/ Refused(c)
       \/ SubmitCommitted(c) \/ UpdateCommitted(c) \/ DeleteCommitted(c)
       \/ DeleteFiles(c) \/ HandlerDies(c) \/ GetMyReview(c)
       \/ ActionAnswered(c) \/ RefreshMyReview(c)

-----------------------------------------------------------------------------
(* Types of the page's state and of the shop's. *)
ReviewsTypeOK ==
  /\ ui.my.images \subseteq Images /\ ui.draft.kept \subseteq Images
  /\ ui.draft.files \in 0 .. MaxImages /\ ui.busy \in {"none", "submit", "delete"}
  /\ db.rows \subseteq Images /\ db.files \subseteq db.stored

(* A disabled button or a spinner waits for a call. *)
ReviewsWaits ==
  /\ ui.loading => \E c \in calls : c.op = "mine"
  /\ ui.busy # "none" => \E c \in calls : c.here /\ (c.op # "mine" \/ c.close)

(* Every image the review shows has its file, whoever else changes or deletes
   the review meanwhile and wherever a handler dies; and as long as none
   died, every file belongs to a row or to a handler still at work. *)
ImagesHaveFiles ==
  /\ db.rows \subseteq db.files
  /\ ~db.died => db.files \subseteq db.rows \cup UNION {c.saved \cup c.old : c \in calls}
=============================================================================
