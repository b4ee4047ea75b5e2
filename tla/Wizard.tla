------------------------------- MODULE Wizard --------------------------------
(***************************************************************************)
(* The bot's dialogue in which an admin makes a broadcast: content, button *)
(* and audience are asked for one after the other, the chosen audience     *)
(* makes a draft, a preview card is sent, and its buttons queue or drop    *)
(* the draft. aiogram serves every message and tap in a task of its own,   *)
(* so two taps of one admin interleave at every await.                     *)
(*                                                                         *)
(* The dialogue's state is kept in memory, whose reads and writes never    *)
(* suspend, or in Redis, where each of them is a call. One admin is        *)
(* followed; what becomes of a queued broadcast is Broadcasts.             *)
(***************************************************************************)
EXTENDS Integers, FiniteSets

CONSTANTS Storages,    \* "memory", "redis": what build_fsm_storage may find
          Taps,        \* taps in flight
          MaxNonce,    \* bound: dialogues
          MaxDrafts    \* bound: rows

ASSUME WizardAssumption ==
    /\ Storages \subseteq {"memory", "redis"}
    /\ MaxNonce \in Nat /\ MaxDrafts \in Nat

VARIABLES storage,    \* where the dialogue's state is
          wizard,     \* the dialogue: [state, nonce]
          nonces,     \* how many dialogues have begun
          upset,      \* dialogues that the failure of an older one sent back
          tap,        \* tap[h]: the handler of a tap
          draft       \* draft[b]: a row of broadcasts

wizardVars == <<storage, wizard, nonces, upset, tap, draft>>

Drafts == 1..MaxDrafts
Nonces == Nat    \* 0: none

WizardStates == {"none", "content", "button", "audience", "creating"}

\* What the taps ask for: three buttons of the dialogue, two of a draft's card.
Actions == {"cancel", "skip", "segment", "send", "drop"}

Tap == [at: {"idle", "data", "state", "act", "making", "made",
             "preview", "discard", "load", "loaded"},
        action: Actions, nonce: Nonces, fresh: BOOLEAN, saw: WizardStates,
        draft: 0..MaxDrafts]
NoTap == [at |-> "idle", action |-> "cancel", nonce |-> 0, fresh |-> FALSE,
          saw |-> "none", draft |-> 0]

\* queued: how often its targets were written; card: the author has its card;
\* cleaned: the failed preview's cleanup took it;
\* lost: its maker died, or could not clean up.
Draft == [status: {"none", "draft", "queued", "cancelled"}, nonce: Nonces,
          card: BOOLEAN, queued: Nat, cleaned: BOOLEAN, lost: BOOLEAN]
NoDraft == [status |-> "none", nonce |-> 0, card |-> FALSE,
            queued |-> 0, cleaned |-> FALSE, lost |-> FALSE]

WizardTypeOK ==
    /\ storage \in Storages
    /\ wizard \in [state: WizardStates, nonce: Nonces]
    /\ nonces \in Nonces
    /\ upset \subseteq Nonces
    /\ tap \in [Taps -> Tap]
    /\ draft \in [Drafts -> Draft]

NoWizard == [state |-> "none", nonce |-> 0]

WizardInit ==
    /\ storage \in Storages
    /\ wizard = NoWizard
    /\ nonces = 0
    /\ upset = {}
    /\ tap = [h \in Taps |-> NoTap]
    /\ draft = [b \in Drafts |-> NoDraft]

\* A task that does not suspend keeps the others out.
Running == IF storage = "memory" THEN {h \in Taps : tap[h].at \in {"data", "state", "act"}}
           ELSE {}
AllSuspended == Running = {}
Suspended(h) == Running \subseteq {h}

Goes(h, at) == tap' = [tap EXCEPT ![h].at = at]
Ends(h) == tap' = [tap EXCEPT ![h] = NoTap]

-----------------------------------------------------------------------------
(***************************************************************************)
(* Messages.                                                               *)
(***************************************************************************)
WizardStart ==
    /\ AllSuspended
    /\ nonces < MaxNonce
    /\ nonces' = nonces + 1
    /\ wizard' = [state |-> "content", nonce |-> nonces + 1]
    /\ UNCHANGED <<storage, upset, tap, draft>>

WizardContent ==
    /\ AllSuspended
    /\ wizard.state = "content"
    /\ wizard' = [wizard EXCEPT !.state = "button"]
    /\ UNCHANGED <<storage, nonces, upset, tap, draft>>

WizardButton ==
    /\ AllSuspended
    /\ wizard.state = "button"
    /\ wizard' = [wizard EXCEPT !.state = "audience"]
    /\ UNCHANGED <<storage, nonces, upset, tap, draft>>

\* The menus, "back", "exit" and a refusal end the dialogue.
LeaveWizard ==
    /\ AllSuspended
    /\ wizard # NoWizard
    /\ wizard' = NoWizard
    /\ UNCHANGED <<storage, nonces, upset, tap, draft>>

-----------------------------------------------------------------------------
(***************************************************************************)
(* Taps on the dialogue. Old messages keep their buttons. admin_callback   *)
(* re-reads the role first; a tap is followed from there.                  *)
(***************************************************************************)
TapWizard(h, action, nonce) ==
    /\ AllSuspended
    /\ tap[h].at = "idle"
    /\ nonce \in 1..nonces
    /\ tap' = [tap EXCEPT ![h] =
          [NoTap EXCEPT !.at = "data", !.action = action, !.nonce = nonce]]
    /\ UNCHANGED <<storage, wizard, nonces, upset, draft>>

\* state.get_data, then state.get_state.
ReadData(h) ==
    /\ Suspended(h)
    /\ tap[h].at = "data"
    /\ tap' = [tap EXCEPT ![h].fresh = (wizard.nonce = tap[h].nonce), ![h].at = "state"]
    /\ UNCHANGED <<storage, wizard, nonces, upset, draft>>

ReadState(h) ==
    /\ Suspended(h)
    /\ tap[h].at = "state"
    /\ tap' = [tap EXCEPT ![h].saw = wizard.state, ![h].at = "act"]
    /\ UNCHANGED <<storage, wizard, nonces, upset, draft>>

Asks(h, action, state) ==
    tap[h].fresh /\ tap[h].action = action /\ tap[h].saw \in state

\* Mutant: the draft is made first, and the dialogue leaves "audience" after.
Unclaimed(w) == w

\* "Claimed before any await that can suspend."
Claimed(w) == [w EXCEPT !.state = "creating"]

\* What the button does; a button that does not fit is out of date.
Act(h) ==
    /\ Suspended(h)
    /\ tap[h].at = "act"
    /\ \/ /\ Asks(h, "cancel", WizardStates)
          /\ wizard' = NoWizard /\ Ends(h)
       \/ /\ Asks(h, "skip", {"button"})
          /\ wizard' = [wizard EXCEPT !.state = "audience"] /\ Ends(h)
       \/ /\ Asks(h, "segment", {"audience"})
          /\ wizard' = Claimed(wizard) /\ Goes(h, "making")
       \/ /\ ~ \/ Asks(h, "cancel", WizardStates)
               \/ Asks(h, "skip", {"button"})
               \/ Asks(h, "segment", {"audience"})
          /\ UNCHANGED wizard /\ Ends(h)
    /\ UNCHANGED <<storage, nonces, upset, draft>>

-----------------------------------------------------------------------------
(***************************************************************************)
(* The draft and its preview.                                              *)
(***************************************************************************)
\* _create_draft and the commit: the row and its audit.
CreateDraft(h) ==
    /\ AllSuspended
    /\ tap[h].at = "making"
    /\ \E b \in Drafts :
          /\ draft[b] = NoDraft /\ \A x \in Drafts : x < b => draft[x] # NoDraft
          /\ draft' = [draft EXCEPT ![b] =
                [NoDraft EXCEPT !.status = "draft", !.nonce = tap[h].nonce]]
          /\ tap' = [tap EXCEPT ![h].at = "made", ![h].draft = b]
    /\ UNCHANGED <<storage, wizard, nonces, upset>>

Upsets(h) == upset' = IF wizard.nonce # tap[h].nonce THEN upset \cup {wizard.nonce} ELSE upset

\* Nobody is in the segment: rolled back, and the dialogue asks again,
\* whichever dialogue it is by now.
EmptySegment(h) ==
    /\ AllSuspended
    /\ tap[h].at = "making"
    /\ wizard' = [wizard EXCEPT !.state = "audience"]
    /\ Upsets(h)
    /\ Ends(h)
    /\ UNCHANGED <<storage, nonces, draft>>

\* An exception before the commit: the admin may retry.
CreateFails(h) ==
    /\ AllSuspended
    /\ tap[h].at = "making"
    /\ IF wizard.state = "creating"
       THEN wizard' = [wizard EXCEPT !.state = "audience"] /\ Upsets(h)
       ELSE UNCHANGED <<wizard, upset>>
    /\ Ends(h)
    /\ UNCHANGED <<storage, nonces, draft>>

\* state.clear(): it ends a dialogue begun meanwhile as well.
ClearState(h) ==
    /\ AllSuspended
    /\ tap[h].at = "made"
    /\ wizard' = NoWizard
    /\ Goes(h, "preview")
    /\ UNCHANGED <<storage, nonces, upset, draft>>

\* The copy and the card are sent; a card may arrive despite an error.
Preview(h, card, error) ==
    /\ AllSuspended
    /\ tap[h].at = "preview"
    /\ card \/ error
    /\ draft' = [draft EXCEPT ![tap[h].draft].card = card]
    /\ IF error THEN Goes(h, "discard") ELSE Ends(h)
    /\ UNCHANGED <<storage, wizard, nonces, upset>>

\* Mutant: whatever has become of it.
DiscardAny(b) == draft[b].status # "none"

\* UPDATE .. WHERE status = 'draft'.
Discardable(b) == draft[b].status = "draft"

DiscardDraft(h) ==
    LET b == tap[h].draft IN
    /\ AllSuspended
    /\ tap[h].at = "discard"
    /\ draft' = IF Discardable(b)
                THEN [draft EXCEPT ![b].status = "cancelled", ![b].cleaned = TRUE]
                ELSE draft
    /\ Ends(h)
    /\ UNCHANGED <<storage, wizard, nonces, upset>>

\* "Never raises": the row is left as it is.
DiscardFails(h) ==
    /\ AllSuspended
    /\ tap[h].at = "discard"
    /\ draft' = [draft EXCEPT ![tap[h].draft].lost = TRUE]
    /\ Ends(h)
    /\ UNCHANGED <<storage, wizard, nonces, upset>>

-----------------------------------------------------------------------------
(***************************************************************************)
(* Taps on the card of a draft.                                            *)
(***************************************************************************)
TapCard(h, action, b) ==
    /\ AllSuspended
    /\ tap[h].at = "idle"
    /\ draft[b].card
    /\ tap' = [tap EXCEPT ![h] = [NoTap EXCEPT !.at = "load", !.action = action, !.draft = b]]
    /\ UNCHANGED <<storage, wizard, nonces, upset, draft>>

\* _load_broadcast, and for "send" _draft_usable: a draft may be too old.
LoadDraft(h) ==
    /\ AllSuspended
    /\ tap[h].at = "load"
    /\ \/ draft[tap[h].draft].status = "draft" /\ Goes(h, "loaded")
       \/ (draft[tap[h].draft].status = "draft" => tap[h].action = "send") /\ Ends(h)
    /\ UNCHANGED <<storage, wizard, nonces, upset, draft>>

\* Mutant: the draft that was loaded is queued.
StillLoaded(b) == TRUE

\* "The conditional UPDATE .. WHERE status = 'draft' is the claim."
StillDraft(b) == draft[b].status = "draft"

\* Status, targets, audit row and commit; without a recipient, or on an
\* error, everything is rolled back.
QueueLoaded(h) ==
    LET b == tap[h].draft IN
    /\ AllSuspended
    /\ tap[h].at = "loaded" /\ tap[h].action = "send"
    /\ \/ /\ StillDraft(b)
          /\ draft' = [draft EXCEPT ![b].status = "queued", ![b].queued = @ + 1]
       \/ UNCHANGED draft
    /\ Ends(h)
    /\ UNCHANGED <<storage, wizard, nonces, upset>>

\* set_broadcast_state looks again, and cancels what is queued by then.
DropLoaded(h) ==
    LET b == tap[h].draft IN
    /\ AllSuspended
    /\ tap[h].at = "loaded" /\ tap[h].action = "drop"
    /\ \/ /\ draft[b].status \in {"draft", "queued"}
          /\ draft' = [draft EXCEPT ![b].status = "cancelled"]
       \/ UNCHANGED draft
    /\ Ends(h)
    /\ UNCHANGED <<storage, wizard, nonces, upset>>

-----------------------------------------------------------------------------
(***************************************************************************)
(* Around the dialogue.                                                    *)
(***************************************************************************)
\* The process ends: memory forgets the dialogue, Redis does not.
BotRestarts ==
    /\ wizard' = IF storage = "memory" THEN NoWizard ELSE wizard
    /\ tap' = [h \in Taps |-> NoTap]
    /\ draft' = [b \in Drafts |->
          IF \E h \in Taps : tap[h].draft = b /\ tap[h].at \in {"made", "preview", "discard"}
          THEN [draft[b] EXCEPT !.lost = TRUE] ELSE draft[b]]
    /\ <<wizard, tap>>' # <<wizard, tap>>
    /\ UNCHANGED <<storage, nonces, upset>>

TapStep(h) ==
    \/ \E action \in {"cancel", "skip", "segment"}, n \in 1..nonces : TapWizard(h, action, n)
    \/ \E action \in {"send", "drop"}, b \in Drafts : TapCard(h, action, b)
    \/ ReadData(h) \/ ReadState(h) \/ Act(h)
    \/ CreateDraft(h) \/ EmptySegment(h) \/ CreateFails(h) \/ ClearState(h)
    \/ \E card, error \in BOOLEAN : Preview(h, card, error)
    \/ DiscardDraft(h) \/ DiscardFails(h)
    \/ LoadDraft(h) \/ QueueLoaded(h) \/ DropLoaded(h)

WizardNext ==
    \/ WizardStart \/ WizardContent \/ WizardButton \/ LeaveWizard
    \/ \E h \in Taps : TapStep(h)
    \/ BotRestarts

WizardSpec == WizardInit /\ [][WizardNext]_wizardVars

-----------------------------------------------------------------------------
\* "A second tap now sees 'creating' and is stale, so one tap makes at most one
\* draft": a dialogue makes one draft, unless an older dialogue that failed while
\* this one was creating has asked for its audience again.
OneDraftPerWizard ==
    \A b, c \in Drafts :
        draft[b].nonce \notin upset \cup {0} /\ draft[b].nonce = draft[c].nonce => b = c

BeingMade(b) ==
    \E h \in Taps : tap[h].draft = b /\ tap[h].at \in {"made", "preview", "discard"}

\* With the dialogue in memory, one dialogue makes one draft. With either
\* storage, a draft is on a card, in the making or lost with its maker; it is
\* queued once, however often its card is tapped; and the cleanup of a failed
\* preview never takes a broadcast that was queued from a card that arrived.
DraftsAreSettled ==
    /\ storage = "memory" => OneDraftPerWizard
    /\ \A b \in Drafts :
          /\ draft[b].status = "draft" => draft[b].card \/ draft[b].lost \/ BeingMade(b)
          /\ draft[b].queued <= 1
          /\ draft[b].cleaned => draft[b].queued = 0
=============================================================================
