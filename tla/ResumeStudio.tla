----------------------------- MODULE ResumeStudio ----------------------------
(***************************************************************************)
(* The resume of one user: the row that /resume/profile keeps               *)
(* (src/webapp/resume), the Mini App that has a draft of it on each device  *)
(* and saves it by a button, every 15 seconds and before it is sent         *)
(* (useResumeDraft.ts, useResumeSync.ts), and the document that             *)
(* /resume/send-telegram makes of it.                                       *)
(*                                                                          *)
(* A resume is the number of the edit that made it, 0 the one without       *)
(* content; stamps are whole seconds. A call may be lost, its answer may be *)
(* late or lost, and the network may deliver a save twice. Templates, sizes *)
(* and rate limits only refuse a call, which is the same as losing it.      *)
(***************************************************************************)
EXTENDS Integers, FiniteSets

CONSTANTS
  Devices,
  Calls,           \* bound: calls at a time
  MaxEdits,        \* bound: edits on all devices
  MaxSecond,       \* bound: the clock
  MaxReopens,      \* bound: times that a page is opened anew
  MaxRepeats,      \* bound: saves that are delivered twice
  NoDevice

\* TELEGRAM_SEND_ATTEMPTS.
Attempts == 2

ASSUME ResumeAssumption ==
  /\ {MaxEdits, MaxReopens, MaxRepeats} \subseteq Nat /\ MaxSecond \in Nat \ {0}
  /\ NoDevice \notin Devices

VARIABLES
  second,
  profile,         \* the row of resume_profiles
  device,          \* device[d]: the page on d
  call,            \* call[c]
  edits, reopens, repeats,
  held,            \* history: resumes that the server has held
  hasty,           \* history: devices with two saves under way at once
  echoed           \* history: a save was repeated after it had been answered for

resumeVars == <<second, profile, device, call, edits, reopens, repeats, held, hasty, echoed>>
bounds == <<edits, reopens, repeats>>
histories == <<held, hasty, echoed>>

Edits == 0..MaxEdits
Seconds == 0..MaxSecond
Copy == [doc: Edits, at: Seconds]

\* A row that is not there has the stamp 0.
NoCopy == [doc |-> 0, at |-> 0]

\* known: serverUpdatedAtRef; out: syncFpRef; seen: profileQuery.data; fresh:
\* before the first answer; undecided: awaitingDecisionRef; drafted:
\* localDraftAtRef; busy: the saves that are pending.
Kinds == {"save", "autosave", "send"}
Page == [doc: Edits, dirty: BOOLEAN, known: Seconds, out: Edits, seen: Copy, fresh: BOOLEAN,
         undecided: BOOLEAN, drafted: Seconds, busy: SUBSET Kinds]
NewPage == [doc |-> 0, dirty |-> FALSE, known |-> 0, out |-> 0, seen |-> NoCopy, fresh |-> TRUE,
            undecided |-> FALSE, drafted |-> 0, busy |-> {}]

\* by: NoDevice once its page has been closed or has given up; again: its second
\* delivery; late: which came after the first was committed; row, asked, got,
\* unclear: the row of resume_exports, the requests to Telegram, the documents
\* that arrived, and whether a request ended without a clear answer.
NoCall == [at |-> "free", by |-> NoDevice, kind |-> "save", doc |-> 0, copy |-> NoCopy,
           again |-> "none", late |-> FALSE,
           row |-> "none", asked |-> 0, got |-> 0, unclear |-> FALSE]

ResumeTypeOK ==
  /\ second \in Seconds /\ profile \in Copy /\ device \in [Devices -> Page]
  /\ edits \in Edits /\ reopens \in 0..MaxReopens /\ repeats \in 0..MaxRepeats
  /\ \A c \in Calls :
       /\ call[c].at \in {"free", "sent", "written", "answered", "poll", "polled", "rendering",
                          "sending", "delivered", "undelivered", "done", "failed"}
       /\ call[c].again \in {"none", "sent", "read"} /\ call[c].kind \in Kinds
       /\ call[c].row \in {"none", "pending", "completed", "failed"}
       /\ call[c].by \in Devices \cup {NoDevice} /\ call[c].copy \in Copy
  /\ held \subseteq Edits /\ hasty \subseteq Devices /\ echoed \in BOOLEAN

ResumeInit ==
  /\ second = 1 /\ profile = NoCopy
  /\ device = [d \in Devices |-> NewPage]
  /\ call = [c \in Calls |-> NoCall]
  /\ edits = 0 /\ reopens = 0 /\ repeats = 0
  /\ held = {0} /\ hasty = {} /\ echoed = FALSE

Shows(d, page) == device' = [device EXCEPT ![d] = page]
Calling(c, next) == call' = [call EXCEPT ![c] = next]

\* What is left of a call when its page needs it no more.
Ended(c) == IF call[c].again = "none" THEN NoCall
            ELSE [call[c] EXCEPT !.at = "answered", !.by = NoDevice]

\* The page of a call that has ended, made of what it was by what the call brought.
PageAfter(c, Change(_)) ==
  IF call[c].by = NoDevice THEN UNCHANGED device
  ELSE LET page == device[call[c].by] IN
       Shows(call[c].by, [Change(page) EXCEPT !.busy = @ \ {call[c].kind}])

-----------------------------------------------------------------------------
(***************************************************************************)
(* The page: edits and saves.                                              *)
(***************************************************************************)
EditDraft(d) ==
  /\ edits < MaxEdits
  /\ edits' = edits + 1
  /\ Shows(d, [device[d] EXCEPT !.doc = edits + 1, !.dirty = TRUE, !.drafted = second])
  /\ UNCHANGED <<second, profile, call, reopens, repeats, histories>>

\* persistProfile.
Persist(d, c, kind) ==
  /\ call[c].at = "free"
  /\ Calling(c, [NoCall EXCEPT !.at = "sent", !.by = d, !.kind = kind, !.doc = device[d].doc])
  /\ Shows(d, [device[d] EXCEPT !.out = device[d].doc, !.busy = @ \cup {kind}])
  /\ hasty' = IF device[d].busy # {} THEN hasty \cup {d} ELSE hasty
  /\ UNCHANGED <<second, profile, bounds, held, echoed>>

\* The two buttons are disabled while a save or a send is pending, not while an
\* autosave is.
PressButton(d, c, kind) ==
  /\ device[d].busy \cap {"save", "send"} = {}
  /\ Persist(d, c, kind)

\* The 15 s timer.
Autosave(d, c) ==
  /\ device[d].dirty /\ ~device[d].fresh /\ ~device[d].undecided /\ device[d].busy = {}
  /\ Persist(d, c, "autosave")

\* Mutant: whatever the page shows now is taken for saved.
AlwaysClean(page) == FALSE

\* markSynced: clean when nothing changed since the save went out.
StillDirty(page) == page.dirty /\ page.out # page.doc

\* applyServer.
Loaded(page, copy) ==
  [page EXCEPT !.doc = copy.doc, !.dirty = FALSE, !.known = copy.at, !.drafted = second]

\* The effect on profileQuery.data. A newer copy is offered at first; later one
\* replaces a clean draft and is a conflict with a dirty one.
Noticed(page, copy) ==
  LET now == [page EXCEPT !.seen = copy] IN
  IF page.fresh
  THEN [now EXCEPT !.fresh = FALSE, !.known = copy.at, !.drafted = second,
                   !.undecided = @ \/ (copy.doc # 0 /\ copy.at > page.drafted)]
  ELSE IF copy.at <= page.known THEN now
  ELSE IF page.dirty THEN [now EXCEPT !.undecided = TRUE]
  ELSE Loaded(now, copy)

\* acceptSaved, whose new data has the effect of a poll.
Accepted(page, copy) ==
  Noticed([page EXCEPT !.known = copy.at, !.dirty = StillDirty(page), !.undecided = FALSE], copy)

SaveAnswered(c) ==
  /\ \/ call[c].at = "written" /\ call[c].kind # "send"
     \/ call[c].at = "done"
  /\ Calling(c, Ended(c))
  /\ PageAfter(c, LAMBDA page : Accepted(page, call[c].copy))
  /\ UNCHANGED <<second, profile, bounds, histories>>

\* The call or its answer is lost, or it was refused; what the server has begun
\* it goes on with.
SaveFails(c) ==
  /\ call[c].by # NoDevice /\ call[c].at \notin {"free", "poll", "polled"}
  /\ Calling(c, IF call[c].at \in {"sent", "written", "done", "failed"} THEN Ended(c)
                ELSE [call[c] EXCEPT !.by = NoDevice])
  /\ PageAfter(c, LAMBDA page : page)
  /\ UNCHANGED <<second, profile, bounds, histories>>

-----------------------------------------------------------------------------
(***************************************************************************)
(* The page: polls, decisions, restarts.                                   *)
(***************************************************************************)
\* The profile is fetched at first and every 30 seconds.
Poll(d, c) ==
  /\ call[c].at = "free"
  /\ \A e \in Calls : ~(call[e].by = d /\ call[e].at \in {"poll", "polled"})
  /\ Calling(c, [NoCall EXCEPT !.at = "poll", !.by = d])
  /\ UNCHANGED <<second, profile, device, bounds, histories>>

PollEnds(c) ==
  /\ call[c].at \in {"poll", "polled"}
  /\ Calling(c, NoCall)
  /\ \/ UNCHANGED device
     \/ /\ call[c].at = "polled" /\ call[c].by # NoDevice
        /\ Shows(call[c].by, Noticed(device[call[c].by], call[c].copy))
  /\ UNCHANGED <<second, profile, bounds, histories>>

\* loadFromServer and keepLocal: the user decides.
Decide(d) ==
  /\ device[d].undecided
  /\ \/ Shows(d, [Loaded(device[d], device[d].seen) EXCEPT !.undecided = FALSE])
     \/ Shows(d, [device[d] EXCEPT !.undecided = FALSE, !.known = device[d].seen.at])
  /\ UNCHANGED <<second, profile, call, bounds, histories>>

\* A draft with content is dirty again. It is stamped anew by a timer, which may
\* come before the first answer.
Reopen(d) ==
  /\ reopens < MaxReopens
  /\ reopens' = reopens + 1
  /\ \E stamp \in {device[d].drafted, second} :
       Shows(d, [NewPage EXCEPT !.doc = device[d].doc, !.dirty = device[d].doc # 0,
                                !.drafted = stamp])
  /\ call' = [c \in Calls |-> IF call[c].by = d THEN [call[c] EXCEPT !.by = NoDevice] ELSE call[c]]
  /\ hasty' = hasty \ {d}
  /\ UNCHANGED <<second, profile, edits, repeats, held, echoed>>

-----------------------------------------------------------------------------
(***************************************************************************)
(* The server: the profile.                                                *)
(***************************************************************************)
Stored(c) == [doc |-> call[c].doc, at |-> second]

\* put_profile under a key that is new: the row and the answer for the key are
\* committed together.
PutProfile(c) ==
  /\ call[c].at = "sent"
  /\ profile' = Stored(c)
  /\ held' = held \cup {call[c].doc}
  /\ Calling(c, [call[c] EXCEPT !.at = "written", !.copy = Stored(c)])
  /\ UNCHANGED <<second, device, bounds, hasty, echoed>>

DeliverAgain(c) ==
  /\ call[c].at \in {"sent", "written"} /\ call[c].again = "none"
  /\ repeats < MaxRepeats
  /\ repeats' = repeats + 1
  /\ Calling(c, [call[c] EXCEPT !.again = "sent", !.late = call[c].at = "written"])
  /\ UNCHANGED <<second, profile, device, edits, reopens, histories>>

\* Mutant: the answers of all saves are left out of the table.
NoAnswerIsKept(c) == FALSE

\* An autosave's answer is not stored, as no page repeats it.
AnswerIsKept(c) == call[c].kind # "autosave" /\ call[c].at # "sent"

LookForAnswer(c) ==
  /\ call[c].again = "sent"
  /\ Calling(c, IF ~AnswerIsKept(c) THEN [call[c] EXCEPT !.again = "read"]
                ELSE IF call[c].at = "answered" THEN NoCall
                ELSE [call[c] EXCEPT !.again = "none"])
  /\ UNCHANGED <<second, profile, device, bounds, histories>>

PutAgain(c) ==
  /\ call[c].again = "read"
  /\ profile' = Stored(c)
  /\ held' = held \cup {call[c].doc}
  /\ Calling(c, IF call[c].at = "answered" THEN NoCall ELSE [call[c] EXCEPT !.again = "none"])
  /\ echoed' = (echoed \/ (call[c].late /\ call[c].kind # "autosave"))
  /\ UNCHANGED <<second, device, bounds, hasty>>

GetProfile(c) ==
  /\ call[c].at = "poll"
  /\ Calling(c, [call[c] EXCEPT !.at = "polled", !.copy = profile])
  /\ UNCHANGED <<second, profile, device, bounds, histories>>

-----------------------------------------------------------------------------
(***************************************************************************)
(* The server: the document.                                               *)
(***************************************************************************)
\* The page goes on to /resume/send-telegram, which reads the profile, writes
\* its row and gives its connection back.
BeginDocument(c) ==
  /\ call[c].at = "written" /\ call[c].kind = "send"
  /\ Calling(c, [call[c] EXCEPT !.at = "rendering", !.row = "pending"])
  /\ UNCHANGED <<second, profile, device, bounds, histories>>

RenderPdf(c) ==
  /\ call[c].at = "rendering"
  /\ \E next \in {"sending", "undelivered"} : Calling(c, [call[c] EXCEPT !.at = next])
  /\ UNCHANGED <<second, profile, device, bounds, histories>>

\* ok: sent; no: refused; down: 5xx; lost: no answer, whether it was sent or not;
\* garbled: a 200 that is no JSON.
Replies == {"ok", "no", "down", "lost", "garbled"}

AskedAgain(c, reply) == reply \in {"down", "lost"} /\ call[c].asked + 1 < Attempts

\* The answer that cannot be read ends the request where it is.
AskTelegram(c, reply) ==
  /\ call[c].at = "sending"
  /\ \E got \in {0, 1} :
       /\ reply \in {"no", "down"} => got = 0
       /\ reply = "ok" => got = 1
       /\ Calling(c, [call[c] EXCEPT !.asked = @ + 1, !.got = @ + got,
                        !.unclear = @ \/ reply \in {"lost", "garbled"},
                        !.at = IF AskedAgain(c, reply) THEN "sending"
                               ELSE IF reply = "ok" THEN "delivered"
                               ELSE IF reply = "garbled" THEN "failed"
                               ELSE "undelivered"])
  /\ UNCHANGED <<second, profile, device, bounds, histories>>

\* Mutant: a record that fails is answered as a failure.
RecordOrFail(c) ==
  \E row \in {"pending", IF call[c].at = "delivered" THEN "completed" ELSE "failed"} :
     Calling(c, [call[c] EXCEPT !.row = row,
                   !.at = IF call[c].at = "delivered" /\ row # "pending" THEN "done" ELSE "failed"])

\* _record_export_result: a failure is logged and swallowed.
RecordResult(c) ==
  \E row \in {"pending", IF call[c].at = "delivered" THEN "completed" ELSE "failed"} :
     Calling(c, [call[c] EXCEPT !.row = row,
                   !.at = IF call[c].at = "delivered" THEN "done" ELSE "failed"])

EndDocument(c) ==
  /\ call[c].at \in {"delivered", "undelivered"}
  /\ RecordResult(c)
  /\ UNCHANGED <<second, profile, device, bounds, histories>>

\* The error reaches the page, or nobody is there.
FailureAnswered(c) ==
  /\ call[c].at = "failed" \/ (call[c].at \in {"written", "done"} /\ call[c].by = NoDevice)
  /\ Calling(c, Ended(c))
  /\ PageAfter(c, LAMBDA page : page)
  /\ UNCHANGED <<second, profile, bounds, histories>>

Tick ==
  /\ second < MaxSecond
  /\ second' = second + 1
  /\ UNCHANGED <<profile, device, call, bounds, histories>>

-----------------------------------------------------------------------------
PageStep(d) ==
  \/ EditDraft(d) \/ Decide(d) \/ Reopen(d)
  \/ \E c \in Calls : \/ Autosave(d, c) \/ Poll(d, c)
                      \/ \E kind \in {"save", "send"} : PressButton(d, c, kind)

CallStep(c) ==
  \/ SaveAnswered(c) \/ SaveFails(c) \/ PollEnds(c)
  \/ PutProfile(c) \/ DeliverAgain(c) \/ LookForAnswer(c) \/ PutAgain(c) \/ GetProfile(c)
  \/ BeginDocument(c) \/ RenderPdf(c) \/ EndDocument(c) \/ FailureAnswered(c)
  \/ \E reply \in Replies : AskTelegram(c, reply)

ResumeNext == Tick \/ (\E d \in Devices : PageStep(d)) \/ (\E c \in Calls : CallStep(c))
ResumeSpec == ResumeInit /\ [][ResumeNext]_resumeVars

-----------------------------------------------------------------------------
(***************************************************************************)
(* Properties.                                                             *)
(***************************************************************************)
\* A page that says everything is saved shows a resume that the server has
\* held, unless two of its saves were under way at once: they share syncFpRef.
CleanMeansSaved ==
  \A d \in Devices \ hasty : ~device[d].dirty => device[d].doc \in held

\* The row of a document and what the user is told agree with what Telegram got:
\* "a 503 after a successful send would invite a duplicate retry". Who is told of
\* a failure has no document, and nobody gets two, unless an answer was unclear.
ExportsAreTrue ==
  \A c \in Calls :
    /\ call[c].row = "completed" \/ call[c].at = "done" => call[c].got > 0
    /\ call[c].at = "failed" \/ call[c].row = "failed" => call[c].got = 0 \/ call[c].unclear
    /\ call[c].got > 1 => call[c].unclear

\* And a save that is delivered again after it was committed changes nothing.
ResumesAreKept == CleanMeansSaved /\ ExportsAreTrue /\ ~echoed
=============================================================================
