-------------------------------- MODULE MCApi --------------------------------
(***************************************************************************)
(* Small instances of the API process and of what its handlers (and the    *)
(* bot's dialogue for broadcasts) do between two statements, one for each  *)
(* value of scene; they share no state.                                    *)
(*   "pool"     two requests and two connections share a pool of two slots *)
(*              until the process shuts down;                              *)
(*   "queue"    three events pass through a queue of two, until the         *)
(*              process shuts down;                                         *)
(*   "lists"    one walk through each paged list of up to four rows;       *)
(*   "link"     two downloads of one export link;                          *)
(*   "content"  two editors of an article, a tip and two categories;       *)
(*   "saves"    two saves of one user;                                     *)
(*   "wizard"   two taps in two dialogues in memory, or in one in Redis;   *)
(*   "devices"  a resume of one edit that two devices save;                *)
(*   "device"   one device with two calls and a clock, that is opened anew; *)
(*   "document" one device that saves and sends, one call at a time.       *)
(***************************************************************************)
EXTENDS WebServer, Pages, ExportLinks, Content, Saves, Wizard, ResumeStudio, TLC

VARIABLE scene

Resumes == {"devices", "device", "document"}

MCInit ==
    /\ scene \in {"pool", "queue", "lists", "link", "content", "saves", "wizard"} \cup Resumes
    /\ Init
    /\ PagesInit
    /\ scene # "lists" => list = "users" /\ \A i \in Rows : row[i] = Out
    /\ LinksInit
    /\ ContentInit
    /\ scene # "content" => \A i \in Items : content[i] = Absent
    /\ SavesInit
    /\ scene # "saves" => saved = {} /\ ~pro
    /\ WizardInit
    /\ scene # "wizard" => storage = "memory"
    /\ ResumeInit

Serving == scene \in {"pool", "queue"}
NoRequests == \A r \in Requests : req[r] = "idle"

\* What the three scenes about a resume leave out.
Unused(S) == S \ {CHOOSE x \in S : TRUE}
OneDevice == \A d \in Unused(Devices) : device[d] = NewPage /\ \A c \in Calls : call[c].by # d
OneCall == \A c \in Unused(Calls) : call[c] = NoCall
NothingIsSent == \A c \in Calls : call[c].kind # "send"
ResumeBounds ==
    CASE scene = "devices" -> second = 1 /\ reopens = 0 /\ repeats = 0 /\ NothingIsSent
      [] scene = "device" -> OneDevice /\ repeats = 0 /\ NothingIsSent
      [] scene = "document" -> OneDevice /\ OneCall /\ second = 1 /\ reopens = 0

Still(name, vars) == scene # name => UNCHANGED vars

MCVars == <<scene, serverVars, pageVars, linkVars, contentVars, saveVars, wizardVars, resumeVars>>

MCNext ==
    /\ UNCHANGED scene
    /\ \/ scene = "pool" /\ Next /\ issued' = 0
       \/ scene = "queue" /\ Next /\ NoRequests'
       \/ scene = "lists" /\ PagesNext
       \/ scene = "link" /\ LinksNext
       \/ scene = "content" /\ ContentNext
       \/ scene = "saves" /\ SavesNext
       \/ scene = "wizard" /\ WizardNext /\ (storage = "redis" => nonces' <= 1)
       \/ scene \in Resumes /\ ResumeNext /\ ResumeBounds'
       \* Everything but the server may come to rest at a bound.
       \/ ~Serving /\ UNCHANGED MCVars
    /\ ~Serving => UNCHANGED serverVars
    /\ Still("lists", pageVars)
    /\ Still("link", linkVars)
    /\ Still("content", contentVars)
    /\ Still("saves", saveVars)
    /\ Still("wizard", wizardVars)
    /\ scene \notin Resumes => UNCHANGED resumeVars

MCSpec == MCInit /\ [][MCNext]_MCVars

MCSymmetry == Permutations(Requests) \cup Permutations(Conns)
=============================================================================
