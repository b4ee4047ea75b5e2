----------------------------- MODULE PanelProofs -----------------------------
(***************************************************************************)
(* Theorems about what the panel and the Mini App write between two        *)
(* statements: the content (Content), the single-use export link           *)
(* (ExportLinks), the saved vacancies (Saves) and the verdicts of the      *)
(* entry gate (EntryGate), for every set of rows, handlers and limits.     *)
(***************************************************************************)
EXTENDS Content, EntryGate, ExportLinks, Saves, FiniteSetTheorems, TLAPS

(***************************************************************************)
(* Content.                                                                *)
(***************************************************************************)
Handler == [at: {"idle", "looked", "ready"}, op: Ops,
            item: Items \cup {CHOOSE c \in Categories : TRUE},
            row: Categories \cup {Plain}, gone: SUBSET Categories, filed: SUBSET Articles]

Rows == [Items -> Categories \cup {Plain, Absent}]

ContentShape ==
    /\ content \in Rows
    /\ \A i \in Items : content[i] \in RowsOf(i) \cup {Absent}
    /\ made \in [Items -> Nat]
    /\ excused \subseteq Articles
    /\ editor \in [Editors -> Handler]
    /\ \A e \in Editors : editor[e].at # "idle" =>
          /\ editor[e].item \in Items
          /\ editor[e].op # "delete" => editor[e].row \in RowsOf(editor[e].item)

\* A handler that has looked twice is right, or it knows who passed it: the
\* category it files in is there or gone since, and every article in the category
\* it deletes was filed since.
HandlersKnow ==
    \A e \in Editors : editor[e].at = "ready" =>
        /\ editor[e].item \in Articles /\ editor[e].op # "delete" =>
              There(editor[e].row) \/ editor[e].row \in editor[e].gone
        /\ editor[e].item \in Categories /\ editor[e].op = "delete" =>
              \A a \in Articles : content[a] = editor[e].item => a \in editor[e].filed

CreationsStand == \A i \in Items : made[i] <= 1 /\ (made[i] = 1 => There(i))

ArticlesAreFiled == \A a \in Articles : There(a) /\ ~There(content[a]) => a \in excused

ContentInv == ContentShape /\ HandlersKnow /\ CreationsStand /\ ArticlesAreFiled

\* The kinds of rows are told apart, and no row is Plain or Absent.
LEMMA KindsOfRows ==
    /\ \A i \in Items : i # Plain /\ i # Absent
    /\ Plain # Absent
    /\ \A a \in Articles, c \in Categories, t \in Tips : a # c /\ a # t /\ c # t
    /\ \A c \in Categories : RowsOf(c) = {Plain} /\ c \in Items
    /\ \A t \in Tips : RowsOf(t) = {Plain} /\ t \in Items
    /\ \A a \in Articles : RowsOf(a) = Categories /\ a \in Items
    /\ \A i \in Items : RowsOf(i) \subseteq Categories \cup {Plain} /\ Absent \notin RowsOf(i)
  BY ContentAssumption DEF Items, RowsOf

LEMMA NoEditorIsAHandler == NoEditor \in Handler /\ NoEditor.at = "idle"
  BY DEF NoEditor, Handler, Ops

LEMMA ContentInitInv == ContentInit => ContentInv
<1> SUFFICES ASSUME ContentInit PROVE ContentInv
  OBVIOUS
<1>1. ContentShape
  BY NoEditorIsAHandler, KindsOfRows DEF ContentInit, ContentShape, Rows
<1>2. HandlersKnow
  BY NoEditorIsAHandler DEF ContentInit, HandlersKnow
<1>3. CreationsStand
  BY DEF ContentInit, CreationsStand
<1>4. ArticlesAreFiled
  BY KindsOfRows DEF ContentInit, ArticlesAreFiled, There
<1> QED BY <1>1, <1>2, <1>3, <1>4 DEF ContentInv

\* A step that only looks, or ends a handler.
LEMMA LookingKeepsInv ==
    ASSUME ContentInv, NEW e \in Editors, NEW h \in Handler,
           editor' = [editor EXCEPT ![e] = h],
           h.at # "idle" => /\ h.item \in Items
                            /\ h.op # "delete" => h.row \in RowsOf(h.item),
           h.at = "ready" =>
              /\ h.item \in Articles /\ h.op # "delete" => There(h.row)
              /\ h.item \in Categories /\ h.op = "delete" =>
                    \A a \in Articles : content[a] # h.item,
           UNCHANGED <<content, made, excused>>
    PROVE  ContentInv'
<1>1. ContentShape'
  BY DEF ContentInv, ContentShape
<1>2. HandlersKnow'
  BY DEF ContentInv, ContentShape, HandlersKnow, There
<1>3. (CreationsStand /\ ArticlesAreFiled)'
  BY DEF ContentInv, CreationsStand, ArticlesAreFiled, There
<1> QED BY <1>1, <1>2, <1>3 DEF ContentInv

LEMMA LookKeepsInv ==
    ASSUME ContentInv, NEW e \in Editors, NEW op \in Ops, NEW i \in Items,
           NEW row \in Categories \cup {Plain}, op # "delete" => row \in RowsOf(i),
           Look(e, op, i, row)
    PROVE  ContentInv'
<1> DEFINE h == [NoEditor EXCEPT !.at = "looked", !.op = op, !.item = i, !.row = row]
<1>1. h \in Handler /\ h.at = "looked" /\ h.item = i /\ h.op = op /\ h.row = row
  BY DEF NoEditor, Handler, Ops
<1>2. editor' = [editor EXCEPT ![e] = h] /\ UNCHANGED <<content, made, excused>>
  BY DEF Look
<1> HIDE DEF h
<1> QED BY <1>1, <1>2, LookingKeepsInv

LEMMA LookAgainKeepsInv ==
    ASSUME ContentInv, NEW e \in Editors, LookAgain(e)
    PROVE  ContentInv'
<1> DEFINE h == IF Passes(e) THEN [editor[e] EXCEPT !.at = "ready"] ELSE NoEditor
<1>0. editor[e] \in Handler /\ editor[e].at = "looked"
  BY DEF ContentInv, ContentShape, LookAgain
<1>1. editor' = [editor EXCEPT ![e] = h] /\ UNCHANGED <<content, made, excused>>
  BY DEF LookAgain
<1>2. CASE Passes(e)
  <2>1. /\ h \in Handler /\ h.at = "ready"
        /\ h.item = editor[e].item /\ h.op = editor[e].op /\ h.row = editor[e].row
    BY <1>0, <1>2 DEF Handler
  <2>2. /\ h.item \in Items
        /\ h.op # "delete" => h.row \in RowsOf(h.item)
    BY <1>0, <2>1 DEF ContentInv, ContentShape
  <2>3. /\ h.item \in Articles /\ h.op # "delete" => There(h.row)
        /\ h.item \in Categories /\ h.op = "delete" => \A a \in Articles : content[a] # h.item
    BY <1>2, <2>1 DEF Passes
  <2> HIDE DEF h
  <2> QED BY <1>1, <2>1, <2>2, <2>3, LookingKeepsInv
<1>3. CASE ~Passes(e)
  <2>1. h \in Handler /\ h.at = "idle"
    BY <1>3, NoEditorIsAHandler
  <2> HIDE DEF h
  <2> QED BY <1>1, <2>1, LookingKeepsInv
<1> QED BY <1>2, <1>3

LEMMA AbandonKeepsInv ==
    ASSUME ContentInv, NEW e \in Editors, Abandon(e)
    PROVE  ContentInv'
  BY NoEditorIsAHandler, LookingKeepsInv DEF Abandon

\* What the others may be told.
Tellable(gone, filed) == gone \subseteq Categories /\ filed \subseteq Articles

\* What the others know after a write.
Informed(e, gone, filed) ==
    /\ editor' \in [Editors -> Handler]
    /\ \A x \in Editors : editor'[x].at # "idle" =>
          /\ x # e /\ editor[x].at = editor'[x].at
          /\ editor'[x].item = editor[x].item /\ editor'[x].op = editor[x].op
          /\ editor'[x].row = editor[x].row
          /\ editor'[x].gone = editor[x].gone \cup gone
          /\ editor'[x].filed = editor[x].filed \cup filed

LEMMA DoneIsTold ==
    ASSUME ContentInv, NEW e \in Editors, NEW gone, NEW filed, Tellable(gone, filed),
           Done(e, gone, filed)
    PROVE  Informed(e, gone, filed)
<1>1. ASSUME NEW x \in Editors
      PROVE  [editor[x] EXCEPT !.gone = @ \cup gone, !.filed = @ \cup filed] \in Handler
  BY DEF ContentInv, ContentShape, Handler, Tellable
<1> QED BY <1>1, NoEditorIsAHandler DEF Done, ContentInv, ContentShape, Handler, Informed

\* A row is written: it is there, and an article is where its handler found its
\* category, or is excused.
LEMMA WriteKeepsInv ==
    ASSUME ContentInv, NEW e \in Editors, editor[e].at = "ready", editor[e].op # "delete",
           content' = [content EXCEPT ![editor[e].item] = editor[e].row],
           made' \in [Items -> Nat],
           \A i \in Items : made'[i] = made[i]
                            \/ (i = editor[e].item /\ made'[i] = 1),
           File(e), Done(e, {}, {editor[e].item} \cap Articles)
    PROVE  ContentInv'
<1> DEFINE i == editor[e].item
           row == editor[e].row
<1>1. /\ i \in Items /\ row \in RowsOf(i) /\ row # Absent /\ row \in Categories \cup {Plain}
      /\ editor[e].gone \subseteq Categories
  BY KindsOfRows DEF ContentInv, ContentShape, Handler
<1>2. /\ content' \in Rows
      /\ content'[i] = row
      /\ \A x \in Items : x # i => content'[x] = content[x]
      /\ \A x \in Items : content'[x] \in RowsOf(x) \cup {Absent}
      /\ \A x \in Items : There(x) => There(x)'
  BY <1>1 DEF ContentInv, ContentShape, Rows, There
<1>3. /\ editor' \in [Editors -> Handler]
      /\ \A x \in Editors : editor'[x].at # "idle" =>
            /\ x # e /\ editor[x].at = editor'[x].at
            /\ editor'[x].item = editor[x].item /\ editor'[x].op = editor[x].op
            /\ editor'[x].row = editor[x].row
            /\ editor'[x].gone = editor[x].gone
            /\ editor'[x].filed = editor[x].filed \cup ({i} \cap Articles)
  <2>1. Tellable({}, {i} \cap Articles)
    BY DEF Tellable
  <2>2. Informed(e, {}, {i} \cap Articles)
    BY <2>1, DoneIsTold
  <2> QED BY <2>2 DEF Informed
<1>4. excused' \subseteq Articles
  BY DEF File, ContentInv, ContentShape
<1>5. ContentShape'
  BY <1>2, <1>3, <1>4 DEF ContentInv, ContentShape
<1>6. HandlersKnow'
  <2> SUFFICES ASSUME NEW x \in Editors, editor'[x].at = "ready"
               PROVE  /\ editor'[x].item \in Articles /\ editor'[x].op # "delete" =>
                            content'[editor'[x].row] # Absent \/ editor'[x].row \in editor'[x].gone
                      /\ editor'[x].item \in Categories /\ editor'[x].op = "delete" =>
                            \A a \in Articles : content'[a] = editor'[x].item =>
                                                   a \in editor'[x].filed
    BY DEF HandlersKnow, There
  <2>1. ASSUME editor'[x].item \in Articles, editor'[x].op # "delete"
        PROVE  content'[editor'[x].row] # Absent \/ editor'[x].row \in editor'[x].gone
    <3>1. /\ There(editor[x].row) \/ editor[x].row \in editor[x].gone
          /\ editor[x].row \in Categories
      BY <1>3, <2>1, KindsOfRows DEF ContentInv, ContentShape, HandlersKnow
    <3> QED BY <1>2, <1>3, <3>1, KindsOfRows DEF There
  <2>2. ASSUME editor'[x].item \in Categories, editor'[x].op = "delete",
               NEW a \in Articles, content'[a] = editor'[x].item
        PROVE  a \in editor'[x].filed
    BY <1>2, <1>3, <2>2, KindsOfRows DEF ContentInv, HandlersKnow
  <2> QED BY <2>1, <2>2
<1>7. CreationsStand'
  BY <1>1, <1>2 DEF ContentInv, ContentShape, CreationsStand, There
<1>8. ArticlesAreFiled'
  <2> SUFFICES ASSUME NEW a \in Articles, There(a)', ~There(content[a])'
               PROVE  a \in excused'
    BY DEF ArticlesAreFiled, There
  <2>1. CASE a = i
    <3>1. row \in Categories /\ ~There(row)
      BY <1>1, <1>2, <2>1, KindsOfRows DEF There
    <3>2. row \in editor[e].gone
      BY <2>1, <3>1 DEF ContentInv, HandlersKnow
    <3> QED BY <2>1, <3>2 DEF File
  <2>2. CASE a # i
    <3>1. content'[a] = content[a] /\ There(a) /\ content[a] \in Categories
      BY <1>2, <2>2, KindsOfRows DEF There, ContentInv, ContentShape
    <3>2. ~There(content[a])
      BY <1>2, <3>1, KindsOfRows DEF There
    <3>3. a \in excused
      BY <3>1, <3>2 DEF ContentInv, ArticlesAreFiled
    <3> QED BY <2>2, <3>3 DEF File
  <2> QED BY <2>1, <2>2
<1> QED BY <1>5, <1>6, <1>7, <1>8 DEF ContentInv

\* A handler ends and finds nothing to write.
LEMMA MissKeepsInv ==
    ASSUME ContentInv, NEW e \in Editors, Done(e, {}, {}), UNCHANGED <<content, made, excused>>
    PROVE  ContentInv'
<1>1. /\ editor' \in [Editors -> Handler]
      /\ \A x \in Editors : editor'[x].at # "idle" =>
            /\ x # e /\ editor[x].at = editor'[x].at
            /\ editor'[x].item = editor[x].item /\ editor'[x].op = editor[x].op
            /\ editor'[x].row = editor[x].row
            /\ editor'[x].gone = editor[x].gone /\ editor'[x].filed = editor[x].filed
  <2>1. Tellable({}, {})
    BY DEF Tellable
  <2>2. Informed(e, {}, {})
    BY <2>1, DoneIsTold
  <2> QED BY <2>2 DEF Informed
<1>2. ContentShape'
  BY <1>1 DEF ContentInv, ContentShape
<1>3. HandlersKnow'
  BY <1>1 DEF ContentInv, HandlersKnow, There
<1>4. (CreationsStand /\ ArticlesAreFiled)'
  BY DEF ContentInv, CreationsStand, ArticlesAreFiled, There
<1> QED BY <1>2, <1>3, <1>4 DEF ContentInv

LEMMA CreateKeepsInv ==
    ASSUME ContentInv, NEW e \in Editors, Create(e)
    PROVE  ContentInv'
<1>1. /\ editor[e].at = "ready" /\ editor[e].op = "create" /\ editor[e].item \in Items
  BY DEF Create, Ready, ContentInv, ContentShape
<1>2. CASE There(editor[e].item)
  BY <1>2, MissKeepsInv DEF Create
<1>3. CASE ~There(editor[e].item)
  <2>1. made[editor[e].item] = 0
    BY <1>1, <1>3 DEF ContentInv, ContentShape, CreationsStand
  <2>2. /\ made' \in [Items -> Nat]
        /\ \A i \in Items : made'[i] = made[i] \/ (i = editor[e].item /\ made'[i] = 1)
    BY <1>1, <1>3, <2>1 DEF Create, ContentInv, ContentShape
  <2> QED BY <1>1, <1>3, <2>2, WriteKeepsInv DEF Create
<1> QED BY <1>2, <1>3

LEMMA UpdateKeepsInv ==
    ASSUME ContentInv, NEW e \in Editors, Update(e)
    PROVE  ContentInv'
<1>1. editor[e].at = "ready" /\ editor[e].op = "update"
  BY DEF Update, Ready
<1>2. CASE There(editor[e].item)
  BY <1>1, <1>2, WriteKeepsInv DEF Update, ContentInv, ContentShape
<1>3. CASE ~There(editor[e].item)
  BY <1>3, MissKeepsInv DEF Update
<1> QED BY <1>2, <1>3

LEMMA DeleteKeepsInv ==
    ASSUME ContentInv, NEW e \in Editors, Delete(e)
    PROVE  ContentInv'
<1> DEFINE i == editor[e].item
           stranded == {a \in Articles : content[a] = i}
<1>1. /\ editor[e].at = "ready" /\ editor[e].op = "delete" /\ i \in Items
  BY DEF Delete, Ready, ContentInv, ContentShape
<1>2. /\ content' \in Rows
      /\ content'[i] = Absent
      /\ \A x \in Items : x # i => content'[x] = content[x]
      /\ \A x \in Items : content'[x] \in RowsOf(x) \cup {Absent}
      /\ made' \in [Items -> Nat] /\ made'[i] = 0
      /\ \A x \in Items : x # i => made'[x] = made[x]
      /\ excused' = (excused \ {i}) \cup (stranded \cap editor[e].filed)
  BY <1>1 DEF Delete, ContentInv, ContentShape, Rows
<1>3. /\ editor' \in [Editors -> Handler]
      /\ \A x \in Editors : editor'[x].at # "idle" =>
            /\ x # e /\ editor[x].at = editor'[x].at
            /\ editor'[x].item = editor[x].item /\ editor'[x].op = editor[x].op
            /\ editor'[x].row = editor[x].row
            /\ editor'[x].gone = editor[x].gone \cup ({i} \cap Categories)
            /\ editor'[x].filed = editor[x].filed
  <2>1. Done(e, {i} \cap Categories, {}) /\ Tellable({i} \cap Categories, {})
    BY DEF Delete, Tellable
  <2>2. Informed(e, {i} \cap Categories, {})
    BY <2>1, DoneIsTold
  <2> QED BY <2>2 DEF Informed
<1>4. ContentShape'
  BY <1>2, <1>3 DEF ContentInv, ContentShape
<1>5. HandlersKnow'
  <2> SUFFICES ASSUME NEW x \in Editors, editor'[x].at = "ready"
               PROVE  /\ editor'[x].item \in Articles /\ editor'[x].op # "delete" =>
                            content'[editor'[x].row] # Absent \/ editor'[x].row \in editor'[x].gone
                      /\ editor'[x].item \in Categories /\ editor'[x].op = "delete" =>
                            \A a \in Articles : content'[a] = editor'[x].item =>
                                                   a \in editor'[x].filed
    BY DEF HandlersKnow, There
  <2>1. ASSUME editor'[x].item \in Articles, editor'[x].op # "delete"
        PROVE  content'[editor'[x].row] # Absent \/ editor'[x].row \in editor'[x].gone
    <3>1. /\ There(editor[x].row) \/ editor[x].row \in editor[x].gone
          /\ editor[x].row \in Categories
      BY <1>3, <2>1, KindsOfRows DEF ContentInv, ContentShape, HandlersKnow
    <3> QED BY <1>2, <1>3, <3>1, KindsOfRows DEF There
  <2>2. ASSUME editor'[x].item \in Categories, editor'[x].op = "delete",
               NEW a \in Articles, content'[a] = editor'[x].item
        PROVE  a \in editor'[x].filed
    BY <1>2, <1>3, <2>2, KindsOfRows DEF ContentInv, HandlersKnow
  <2> QED BY <2>1, <2>2
<1>6. CreationsStand'
  BY <1>1, <1>2 DEF ContentInv, ContentShape, CreationsStand, There
<1>7. ArticlesAreFiled'
  <2> SUFFICES ASSUME NEW a \in Articles, There(a)', ~There(content[a])'
               PROVE  a \in excused'
    BY DEF ArticlesAreFiled, There
  <2>1. a # i /\ content'[a] = content[a] /\ There(a) /\ content[a] \in Categories
    BY <1>2, KindsOfRows DEF There, ContentInv, ContentShape
  <2>2. CASE content[a] = i
    <3>1. a \in editor[e].filed
      BY <1>1, <2>1, <2>2 DEF ContentInv, HandlersKnow
    <3> QED BY <1>2, <2>2, <3>1
  <2>3. CASE content[a] # i
    <3>1. ~There(content[a])
      BY <1>2, <2>1, <2>3, KindsOfRows DEF There
    <3> QED BY <1>2, <2>1, <3>1 DEF ContentInv, ArticlesAreFiled
  <2> QED BY <2>2, <2>3
<1> QED BY <1>4, <1>5, <1>6, <1>7 DEF ContentInv

LEMMA ContentNextInv == ContentInv /\ [ContentNext]_contentVars => ContentInv'
<1> SUFFICES ASSUME ContentInv, [ContentNext]_contentVars PROVE ContentInv'
  OBVIOUS
<1>1. CASE UNCHANGED contentVars
  BY <1>1 DEF contentVars, ContentInv, ContentShape, HandlersKnow, CreationsStand,
              ArticlesAreFiled, There
<1>2. ASSUME NEW e \in Editors, EditorStep(e) PROVE ContentInv'
  <2>1. ASSUME NEW a \in Articles, NEW c \in Categories, CreateArticle(e, a, c) PROVE ContentInv'
    BY <2>1, LookKeepsInv, KindsOfRows DEF CreateArticle, Ops
  <2>2. ASSUME NEW a \in Articles, NEW c \in Categories, UpdateArticle(e, a, c) PROVE ContentInv'
    BY <2>2, LookKeepsInv, KindsOfRows DEF UpdateArticle, Ops
  <2>3. ASSUME NEW a \in Articles, DeleteArticle(e, a) PROVE ContentInv'
    BY <2>3, LookKeepsInv, KindsOfRows DEF DeleteArticle, Ops
  <2>4. ASSUME NEW t \in Tips, CreateTip(e, t) \/ UpdateTip(e, t) \/ DeleteTip(e, t)
        PROVE ContentInv'
    BY <2>4, LookKeepsInv, KindsOfRows DEF CreateTip, UpdateTip, DeleteTip, Ops
  <2>5. ASSUME NEW c \in Categories,
               CreateCategory(e, c) \/ UpdateCategory(e, c) \/ DeleteCategory(e, c)
        PROVE ContentInv'
    BY <2>5, LookKeepsInv, KindsOfRows DEF CreateCategory, UpdateCategory, DeleteCategory, Ops
  <2> QED BY <1>2, <2>1, <2>2, <2>3, <2>4, <2>5, LookAgainKeepsInv, CreateKeepsInv,
             UpdateKeepsInv, DeleteKeepsInv, AbandonKeepsInv DEF EditorStep
<1> QED BY <1>1, <1>2 DEF ContentNext

\* However the handlers of several admins pass each other, no create replaces a
\* row, and an article without its category was written past a handler.
THEOREM ContentStands == ContentSpec => []ContentStandsTogether
<1>1. ContentInv => ContentStandsTogether
  BY DEF ContentInv, CreationsStand, ArticlesAreFiled, ContentStandsTogether
<1> QED BY <1>1, ContentInitInv, ContentNextInv, PTL DEF ContentSpec

-----------------------------------------------------------------------------
(***************************************************************************)
(* ExportLinks.                                                            *)
(***************************************************************************)
LinksShape ==
    /\ seconds \in Nat /\ seconds >= 1
    /\ expires \in [Links -> Nat]
    /\ DOMAIN claims \subseteq Links
    /\ \A l \in DOMAIN claims : claims[l] \in Nat
    /\ standing \in Standing
    /\ download \in [Downloads -> Download]
    /\ logged \in [Links -> Nat]
    /\ streamed \in [Links -> Nat]

\* A request is no older than it may be, and its link was good when it began.
Timed(r) ==
    r.at # "idle" => /\ r.since <= seconds /\ seconds <= r.since + DownloadTime
                     /\ r.since < expires[r.link]

\* What a request has seen of the actor, and what holds of the actor now, is noted.
Noted(r) ==
    r.at # "idle" => /\ r.at # "verified" \/ standing.role = TRUE => r.role = TRUE
                     /\ r.at \in {"free", "claimed"} \/ standing.free = TRUE => r.free = TRUE

\* One download at a time holds the claim of a link, and its file is to come.
FilesAreClaimed ==
    /\ \A d \in Downloads : download[d].at = "claimed" =>
          logged[download[d].link] = 1 /\ streamed[download[d].link] = 0
    /\ \A d, x \in Downloads :
          /\ download[d].at = "claimed" /\ download[x].at = "claimed"
          /\ download[d].link = download[x].link
          => d = x
    /\ \A l \in Links : streamed[l] <= logged[l] /\ logged[l] <= 1

\* A claim is as young as its link, and it is swept only when no request that
\* found the link good is left.
ClaimsOutliveLinks ==
    \A l \in Links :
        /\ expires[l] <= seconds + LinkLife
        /\ l \in DOMAIN claims => logged[l] = 1 /\ expires[l] <= claims[l] + LinkLife
        /\ logged[l] = 1 /\ l \notin DOMAIN claims =>
              expires[l] > 0 /\ expires[l] + DownloadTime < seconds
        /\ logged[l] = 1 => expires[l] > 0

LinksInv ==
    /\ LinksShape
    /\ \A d \in Downloads : Timed(download[d]) /\ Noted(download[d])
    /\ FilesAreClaimed
    /\ ClaimsOutliveLinks

LEMMA LinkConstants ==
    LinkLife \in Nat /\ ClaimLife \in Nat /\ DownloadTime \in Nat /\ LinkLife + DownloadTime < ClaimLife
  BY ExportLinksAssumption

\* An ended download is a download, and nothing is asked of it.
LEMMA IdleIsEnded ==
    ASSUME LinksInv, NEW d \in Downloads
    PROVE  Idle(d) \in Download /\ Idle(d).at = "idle"
  BY DEF LinksInv, LinksShape, Download, Idle

LEMMA LinksInitInv == LinksInit => LinksInv
<1> SUFFICES ASSUME LinksInit PROVE LinksInv
  OBVIOUS
<1>1. LinksShape
  BY DEF LinksInit, LinksShape, Standing, Download
<1>2. \A d \in Downloads : download[d].at = "idle"
  BY DEF LinksInit
<1>3. \A d \in Downloads : Timed(download[d]) /\ Noted(download[d])
  BY <1>2 DEF Timed, Noted
<1>4. FilesAreClaimed
  BY <1>2 DEF LinksInit, FilesAreClaimed
<1>5. ClaimsOutliveLinks
  BY LinkConstants DEF LinksInit, ClaimsOutliveLinks
<1> QED BY <1>1, <1>3, <1>4, <1>5 DEF LinksInv

\* A step of one download that claims nothing.
LEMMA RequestKeepsLinksInv ==
    ASSUME LinksInv, NEW d \in Downloads, NEW h \in Download,
           download' = [download EXCEPT ![d] = h],
           h.at # "claimed", Timed(h), Noted(h),
           UNCHANGED <<seconds, expires, claims, standing, logged, streamed>>
    PROVE  LinksInv'
<1>1. LinksShape'
  BY DEF LinksInv, LinksShape
<1>2. \A x \in Downloads : download'[x] = IF x = d THEN h ELSE download[x]
  BY DEF LinksInv, LinksShape
<1>3. \A x \in Downloads : (Timed(download[x]) /\ Noted(download[x]))'
  BY <1>2 DEF LinksInv, Timed, Noted
<1>4. FilesAreClaimed'
  BY <1>2 DEF LinksInv, FilesAreClaimed
<1>5. ClaimsOutliveLinks'
  BY DEF LinksInv, ClaimsOutliveLinks
<1> QED BY <1>1, <1>3, <1>4, <1>5 DEF LinksInv

LEMMA EndingKeepsLinksInv ==
    ASSUME LinksInv, NEW d \in Downloads, download' = [download EXCEPT ![d] = Idle(d)],
           UNCHANGED <<seconds, expires, claims, standing, logged, streamed>>
    PROVE  LinksInv'
<1>1. Timed(Idle(d)) /\ Noted(Idle(d))
  BY IdleIsEnded DEF Timed, Noted
<1> QED BY <1>1, IdleIsEnded, RequestKeepsLinksInv

LEMMA MintKeepsLinksInv ==
    ASSUME LinksInv, NEW l \in Links, Mint(l)
    PROVE  LinksInv'
<1>1. /\ expires' \in [Links -> Nat]
      /\ \A x \in Links : expires'[x] = IF x = l THEN seconds + LinkLife ELSE expires[x]
      /\ seconds + LinkLife \in Nat
  BY LinkConstants DEF Mint, LinksInv, LinksShape
<1>2. expires[l] = 0 /\ UNCHANGED <<seconds, claims, standing, download, logged, streamed>>
  BY DEF Mint
<1>3. LinksShape'
  BY <1>1, <1>2 DEF LinksInv, LinksShape
<1>4. ASSUME NEW d \in Downloads PROVE (Timed(download[d]) /\ Noted(download[d]))'
  <2>1. download[d] \in Download
    BY DEF LinksInv, LinksShape
  <2>2. download[d].at # "idle" => download[d].link # l
    BY <1>2, <2>1 DEF LinksInv, Timed, Download
  <2> QED BY <1>1, <1>2, <2>1, <2>2 DEF LinksInv, Timed, Noted, Download
<1>5. FilesAreClaimed'
  BY <1>2 DEF LinksInv, FilesAreClaimed
<1>6. ClaimsOutliveLinks'
  BY <1>1, <1>2, LinkConstants DEF LinksInv, LinksShape, ClaimsOutliveLinks
<1> QED BY <1>3, <1>4, <1>5, <1>6 DEF LinksInv

LEMMA VerifyKeepsLinksInv ==
    ASSUME LinksInv, NEW d \in Downloads, NEW l \in Links, Verify(d, l)
    PROVE  LinksInv'
<1> DEFINE h == [at |-> "verified", link |-> l, since |-> seconds,
                 role |-> standing.role, free |-> standing.free]
<1>1. h \in Download
  BY DEF LinksInv, LinksShape, Download, Standing
<1>2. Timed(h) /\ Noted(h)
  BY LinkConstants DEF Verify, Timed, Noted, LinksInv, LinksShape
<1>3. h.at # "claimed"
  OBVIOUS
<1>4. /\ download' = [download EXCEPT ![d] = h]
      /\ UNCHANGED <<seconds, expires, claims, standing, logged, streamed>>
  BY DEF Verify
<1> HIDE DEF h
<1> QED BY <1>1, <1>2, <1>3, <1>4, RequestKeepsLinksInv

LEMMA ReadRoleKeepsLinksInv ==
    ASSUME LinksInv, NEW d \in Downloads, ReadRole(d)
    PROVE  LinksInv'
<1>1. CASE standing.role
  <2> DEFINE h == [download[d] EXCEPT !.at = "admin"]
  <2>1. /\ h \in Download /\ h.at = "admin" /\ h.link = download[d].link
        /\ h.since = download[d].since
        /\ h.role = download[d].role /\ h.free = download[d].free
    BY DEF LinksInv, LinksShape, Download
  <2>2. Timed(h) /\ Noted(h)
    <3>1. download[d].at = "verified" /\ standing.role = TRUE
      BY <1>1 DEF ReadRole, LinksInv, LinksShape, Standing
    <3> QED BY <2>1, <3>1 DEF LinksInv, Timed, Noted
  <2>3. /\ download' = [download EXCEPT ![d] = h]
        /\ UNCHANGED <<seconds, expires, claims, standing, logged, streamed>>
    BY <1>1 DEF ReadRole
  <2> HIDE DEF h
  <2> QED BY <2>1, <2>2, <2>3, RequestKeepsLinksInv
<1>2. CASE ~standing.role
  <2>1. /\ download' = [download EXCEPT ![d] = Idle(d)]
        /\ UNCHANGED <<seconds, expires, claims, standing, logged, streamed>>
    BY <1>2 DEF ReadRole
  <2> QED BY <2>1, EndingKeepsLinksInv
<1> QED BY <1>1, <1>2

LEMMA ReadBanKeepsLinksInv ==
    ASSUME LinksInv, NEW d \in Downloads, ReadBan(d)
    PROVE  LinksInv'
<1>1. CASE standing.free
  <2> DEFINE h == [download[d] EXCEPT !.at = "free"]
  <2>1. /\ h \in Download /\ h.at = "free" /\ h.link = download[d].link
        /\ h.since = download[d].since
        /\ h.role = download[d].role /\ h.free = download[d].free
    BY DEF LinksInv, LinksShape, Download
  <2>2. Timed(h) /\ Noted(h)
    <3>1. download[d].at = "admin" /\ standing.free = TRUE
      BY <1>1 DEF ReadBan, LinksInv, LinksShape, Standing
    <3> QED BY <2>1, <3>1 DEF LinksInv, Timed, Noted
  <2>3. /\ download' = [download EXCEPT ![d] = h]
        /\ UNCHANGED <<seconds, expires, claims, standing, logged, streamed>>
    BY <1>1 DEF ReadBan
  <2> HIDE DEF h
  <2> QED BY <2>1, <2>2, <2>3, RequestKeepsLinksInv
<1>2. CASE ~standing.free
  <2>1. /\ download' = [download EXCEPT ![d] = Idle(d)]
        /\ UNCHANGED <<seconds, expires, claims, standing, logged, streamed>>
    BY <1>2 DEF ReadBan
  <2> QED BY <2>1, EndingKeepsLinksInv
<1> QED BY <1>1, <1>2

LEMMA ClaimKeepsLinksInv ==
    ASSUME LinksInv, NEW d \in Downloads, ClaimLink(d)
    PROVE  LinksInv'
<1> DEFINE l == download[d].link
<1>0. /\ download[d] \in Download /\ l \in Links /\ download[d].at = "free"
      /\ Timed(download[d]) /\ Noted(download[d])
  BY DEF LinksInv, LinksShape, Download, ClaimLink
<1>1. CASE l \in DOMAIN claims
  <2>1. /\ download' = [download EXCEPT ![d] = Idle(d)]
        /\ UNCHANGED <<seconds, expires, claims, standing, logged, streamed>>
    BY <1>1 DEF ClaimLink
  <2> QED BY <2>1, EndingKeepsLinksInv
<1>2. CASE l \notin DOMAIN claims
  <2>1. /\ claims' = [x \in DOMAIN claims \cup {l} |-> IF x = l THEN seconds ELSE claims[x]]
        /\ logged' = [logged EXCEPT ![l] = @ + 1]
        /\ download' = [download EXCEPT ![d].at = "claimed"]
        /\ UNCHANGED <<seconds, expires, standing, streamed>>
    BY <1>2 DEF ClaimLink
  <2>2. logged[l] = 0
    \* Had the claim been swept, the request would be too old.
    <3>1. download[d].since \in Nat /\ seconds \in Nat /\ expires[l] \in Nat /\ logged[l] \in Nat
      BY <1>0 DEF LinksInv, LinksShape, Download
    <3>2. logged[l] = 1 => expires[l] + DownloadTime < seconds
      BY <1>0, <1>2 DEF LinksInv, ClaimsOutliveLinks
    <3>3. seconds <= download[d].since + DownloadTime /\ download[d].since < expires[l]
      BY <1>0 DEF Timed
    <3>4. logged[l] <= 1
      BY <1>0 DEF LinksInv, FilesAreClaimed
    <3> QED BY <3>1, <3>2, <3>3, <3>4, LinkConstants
  <2>3. streamed[l] = 0
    BY <1>0, <2>2 DEF LinksInv, LinksShape, FilesAreClaimed
  <2>4. /\ logged' \in [Links -> Nat] /\ logged'[l] = 1
        /\ \A x \in Links : x # l => logged'[x] = logged[x]
    BY <1>0, <2>1, <2>2 DEF LinksInv, LinksShape
  <2>5. /\ download' \in [Downloads -> Download]
        /\ \A x \in Downloads : x # d => download'[x] = download[x]
        /\ download'[d].at = "claimed" /\ download'[d].link = l
        /\ download'[d].since = download[d].since
        /\ download'[d].role = download[d].role /\ download'[d].free = download[d].free
    BY <1>0, <2>1 DEF LinksInv, LinksShape, Download
  <2>6. /\ DOMAIN claims' = DOMAIN claims \cup {l}
        /\ claims'[l] = seconds
        /\ \A x \in DOMAIN claims : claims'[x] = claims[x]
    BY <1>2, <2>1
  <2>7. LinksShape'
    BY <1>0, <2>1, <2>4, <2>5, <2>6 DEF LinksInv, LinksShape
  <2>8. ASSUME NEW x \in Downloads PROVE (Timed(download[x]) /\ Noted(download[x]))'
    <3>1. CASE x = d
      BY <1>0, <2>1, <2>5, <3>1 DEF Timed, Noted
    <3>2. CASE x # d
      BY <2>1, <2>5, <3>2 DEF LinksInv, Timed, Noted
    <3> QED BY <3>1, <3>2
  <2>9. FilesAreClaimed'
    <3>1. \A x \in Downloads : download[x].at = "claimed" => download[x].link # l
      BY <2>2 DEF LinksInv, FilesAreClaimed
    <3>2. \A x \in Downloads : download[x].link \in Links
      BY DEF LinksInv, LinksShape, Download
    <3> QED BY <1>0, <2>1, <2>3, <2>4, <2>5, <3>1, <3>2 DEF LinksInv, LinksShape, FilesAreClaimed
  <2>10. ClaimsOutliveLinks'
    <3>1. expires[l] <= seconds + LinkLife /\ expires[l] > 0
      BY <1>0 DEF LinksInv, LinksShape, ClaimsOutliveLinks, Timed, Download
    <3> QED BY <1>0, <2>1, <2>4, <2>6, <3>1 DEF LinksInv, ClaimsOutliveLinks
  <2> QED BY <2>7, <2>8, <2>9, <2>10 DEF LinksInv
<1> QED BY <1>1, <1>2

LEMMA StreamKeepsLinksInv ==
    ASSUME LinksInv, NEW d \in Downloads, StreamFile(d)
    PROVE  LinksInv'
<1> DEFINE l == download[d].link
<1>1. /\ download[d].at = "claimed" /\ l \in Links
      /\ logged[l] = 1 /\ streamed[l] = 0
  BY DEF StreamFile, LinksInv, LinksShape, Download, FilesAreClaimed
<1>2. /\ streamed' \in [Links -> Nat] /\ streamed'[l] = 1
      /\ \A x \in Links : x # l => streamed'[x] = streamed[x]
  BY <1>1 DEF StreamFile, LinksInv, LinksShape
<1>3. /\ download' \in [Downloads -> Download] /\ download'[d].at = "idle"
      /\ \A x \in Downloads : x # d => download'[x] = download[x]
  BY IdleIsEnded DEF StreamFile, LinksInv, LinksShape
<1>4. UNCHANGED <<seconds, expires, claims, standing, logged>>
  BY DEF StreamFile
<1>5. LinksShape'
  BY <1>2, <1>3, <1>4 DEF LinksInv, LinksShape
<1>6. \A x \in Downloads : (Timed(download[x]) /\ Noted(download[x]))'
  BY <1>3, <1>4 DEF LinksInv, Timed, Noted
<1>7. FilesAreClaimed'
  <2>1. \A x \in Downloads : x # d /\ download[x].at = "claimed" => download[x].link # l
    BY <1>1 DEF LinksInv, FilesAreClaimed
  <2>2. \A x \in Downloads : download[x].link \in Links
    BY DEF LinksInv, LinksShape, Download
  <2> QED BY <1>1, <1>2, <1>3, <1>4, <2>1, <2>2 DEF LinksInv, FilesAreClaimed
<1>8. ClaimsOutliveLinks'
  BY <1>4 DEF LinksInv, ClaimsOutliveLinks
<1> QED BY <1>5, <1>6, <1>7, <1>8 DEF LinksInv

LEMMA StandingKeepsLinksInv ==
    ASSUME LinksInv, NEW s \in Standing, SetStanding(s)
    PROVE  LinksInv'
<1> DEFINE seen(r) == [r EXCEPT !.role = @ \/ s.role, !.free = @ \/ s.free]
<1>1. UNCHANGED <<seconds, expires, claims, logged, streamed>> /\ standing' = s
  BY DEF SetStanding
<1>2. ASSUME NEW x \in Downloads
      PROVE  /\ download'[x] \in Download
             /\ download'[x].at = download[x].at /\ download'[x].link = download[x].link
             /\ download'[x].since = download[x].since
             /\ download[x].role = TRUE => download'[x].role = TRUE
             /\ download[x].free = TRUE => download'[x].free = TRUE
             /\ download[x].at # "idle" /\ s.role = TRUE => download'[x].role = TRUE
             /\ download[x].at # "idle" /\ s.free = TRUE => download'[x].free = TRUE
  <2>1. download[x] \in Download /\ s.role \in BOOLEAN /\ s.free \in BOOLEAN
    BY DEF LinksInv, LinksShape, Standing
  <2>2. download'[x] = IF download[x].at = "idle" THEN download[x] ELSE seen(download[x])
    BY DEF SetStanding
  <2>3. /\ seen(download[x]) \in Download
        /\ seen(download[x]).at = download[x].at /\ seen(download[x]).link = download[x].link
        /\ seen(download[x]).since = download[x].since
        /\ seen(download[x]).role = (download[x].role \/ s.role)
        /\ seen(download[x]).free = (download[x].free \/ s.free)
    BY <2>1 DEF Download
  <2> HIDE DEF seen
  <2> QED BY <2>1, <2>2, <2>3 DEF Download
<1>3. LinksShape'
  <2>1. download' \in [Downloads -> Download]
    BY <1>2 DEF SetStanding
  <2> QED BY <1>1, <2>1 DEF LinksInv, LinksShape
<1>4. ASSUME NEW x \in Downloads PROVE (Timed(download[x]) /\ Noted(download[x]))'
  BY <1>1, <1>2 DEF LinksInv, Timed, Noted
<1>5. FilesAreClaimed'
  <2>1. \A x \in Downloads : download'[x].at = download[x].at /\ download'[x].link = download[x].link
    BY <1>2
  <2> QED BY <1>1, <2>1 DEF LinksInv, FilesAreClaimed
<1>6. ClaimsOutliveLinks'
  BY <1>1 DEF LinksInv, ClaimsOutliveLinks
<1> QED BY <1>3, <1>4, <1>5, <1>6 DEF LinksInv

LEMMA SweepKeepsLinksInv ==
    ASSUME LinksInv, SweepClaims
    PROVE  LinksInv'
<1>1. UNCHANGED <<seconds, expires, standing, download, logged, streamed>>
  BY DEF SweepClaims
<1>2. /\ DOMAIN claims' = DOMAIN claims \ OldClaims
      /\ \A l \in DOMAIN claims' : claims'[l] = claims[l]
  BY DEF SweepClaims
<1>3. LinksShape'
  BY <1>1, <1>2 DEF LinksInv, LinksShape
<1>4. ClaimsOutliveLinks'
  <2> SUFFICES ASSUME NEW l \in Links
               PROVE  /\ l \in DOMAIN claims' => logged[l] = 1 /\ expires[l] <= claims'[l] + LinkLife
                      /\ logged[l] = 1 /\ l \notin DOMAIN claims' =>
                            expires[l] > 0 /\ expires[l] + DownloadTime < seconds
    BY <1>1 DEF LinksInv, ClaimsOutliveLinks
  <2>1. l \in DOMAIN claims' => logged[l] = 1 /\ expires[l] <= claims'[l] + LinkLife
    BY <1>2 DEF LinksInv, ClaimsOutliveLinks
  <2>2. ASSUME logged[l] = 1, l \notin DOMAIN claims'
        PROVE  expires[l] > 0 /\ expires[l] + DownloadTime < seconds
    <3>1. CASE l \notin DOMAIN claims
      BY <2>2, <3>1 DEF LinksInv, ClaimsOutliveLinks
    <3>2. CASE l \in DOMAIN claims
      <4>1. claims[l] < seconds - ClaimLife
        BY <1>2, <2>2, <3>2 DEF OldClaims
      <4>2. /\ claims[l] \in Nat /\ seconds \in Nat /\ expires[l] \in Nat
            /\ expires[l] <= claims[l] + LinkLife /\ expires[l] > 0
        BY <2>2, <3>2 DEF LinksInv, LinksShape, ClaimsOutliveLinks
      <4> QED BY <4>1, <4>2, LinkConstants
    <3> QED BY <3>1, <3>2
  <2> QED BY <2>1, <2>2
<1>5. \A x \in Downloads : (Timed(download[x]) /\ Noted(download[x]))'
  BY <1>1 DEF LinksInv, Timed, Noted
<1>6. FilesAreClaimed'
  BY <1>1 DEF LinksInv, FilesAreClaimed
<1> QED BY <1>3, <1>4, <1>5, <1>6 DEF LinksInv

LEMMA SecondKeepsLinksInv ==
    ASSUME LinksInv, Second
    PROVE  LinksInv'
<1>1. UNCHANGED <<expires, claims, standing, download, logged, streamed>> /\ seconds' = seconds + 1
  BY DEF Second
<1>2. LinksShape'
  BY <1>1 DEF LinksInv, LinksShape
<1>3. ASSUME NEW x \in Downloads PROVE (Timed(download[x]) /\ Noted(download[x]))'
  <2>1. download[x].since \in Nat /\ seconds \in Nat
    BY DEF LinksInv, LinksShape, Download
  <2>2. download[x].at # "idle" => seconds < download[x].since + DownloadTime
    BY DEF Second
  <2> QED BY <1>1, <2>1, <2>2, LinkConstants DEF LinksInv, Timed, Noted
<1>4. FilesAreClaimed'
  BY <1>1 DEF LinksInv, FilesAreClaimed
<1>5. ClaimsOutliveLinks'
  BY <1>1, LinkConstants DEF LinksInv, LinksShape, ClaimsOutliveLinks
<1> QED BY <1>2, <1>3, <1>4, <1>5 DEF LinksInv

LEMMA LinksNextInv == LinksInv /\ [LinksNext]_linkVars => LinksInv'
<1> SUFFICES ASSUME LinksInv, [LinksNext]_linkVars PROVE LinksInv'
  OBVIOUS
<1>1. CASE UNCHANGED linkVars
  BY <1>1 DEF linkVars, LinksInv, LinksShape, Timed, Noted, FilesAreClaimed, ClaimsOutliveLinks
<1>2. ASSUME NEW d \in Downloads, GiveUpDownload(d) PROVE LinksInv'
  BY <1>2, EndingKeepsLinksInv DEF GiveUpDownload
<1>3. CASE LinksNext
  BY <1>2, <1>3, MintKeepsLinksInv, VerifyKeepsLinksInv, ReadRoleKeepsLinksInv,
     ReadBanKeepsLinksInv, ClaimKeepsLinksInv, StreamKeepsLinksInv, StandingKeepsLinksInv,
     SweepKeepsLinksInv, SecondKeepsLinksInv DEF LinksNext
<1> QED BY <1>1, <1>3

\* However many requests hold a link, however its claim is swept and the actor's
\* standing changes: one file and one audit row, and none for an actor who never
\* had the standing while the request ran.
THEOREM LinksServe == LinksSpec => []LinksServeOnce
<1>1. LinksInv => LinksServeOnce
  <2> SUFFICES ASSUME LinksInv PROVE LinksServeOnce
    OBVIOUS
  <2>1. \A d \in Downloads :
           download[d].at = "claimed" => download[d].role = TRUE /\ download[d].free = TRUE
    BY DEF LinksInv, Noted
  <2> QED BY <2>1 DEF LinksInv, FilesAreClaimed, LinksServeOnce
<1> QED BY <1>1, LinksInitInv, LinksNextInv, PTL DEF LinksSpec

-----------------------------------------------------------------------------
(***************************************************************************)
(* Saves.                                                                  *)
(***************************************************************************)
SavesShape ==
    /\ saved \subseteq SaveRow /\ beyond \subseteq saved
    /\ IsFiniteSet(saved)
    /\ pro \in BOOLEAN
    /\ saver \in [Savers -> Saver]

\* Who has counted, is no Pro and was not overtaken, still has room.
RoomIsKept ==
    \A s \in Savers :
        saver[s].at = "counted" /\ saver[s].pro = FALSE /\ saver[s].crossed = FALSE =>
            Cardinality(saved) < FreeLimit

SavesInv == SavesShape /\ RoomIsKept /\ SavesAreLimited

\* A user has finitely many rows.
LEMMA SaveRowsAreFinite == IsFiniteSet(SaveRow)
<1> DEFINE pairs == Vacancies \X BOOLEAN
           f == [p \in pairs |-> [vacancy |-> p[1], text |-> p[2]]]
<1>1. IsFiniteSet(BOOLEAN)
  <2>1. BOOLEAN = {TRUE} \cup {FALSE}
    OBVIOUS
  <2>2. IsFiniteSet({TRUE}) /\ IsFiniteSet({FALSE})
    BY FS_Singleton, Zenon
  <2>3. IsFiniteSet({TRUE} \cup {FALSE})
    BY <2>2, FS_Union, Zenon
  <2> QED BY <2>1, <2>3, Zenon
<1>2. IsFiniteSet(pairs)
  BY <1>1, SavesAssumption, FS_Product
<1>3. f \in Surjection(pairs, SaveRow)
  <2>1. f \in [pairs -> SaveRow]
    BY DEF SaveRow
  <2>2. ASSUME NEW r \in SaveRow PROVE \E p \in pairs : f[p] = r
    <3>1. <<r.vacancy, r.text>> \in pairs /\ f[<<r.vacancy, r.text>>] = r
      BY DEF SaveRow
    <3> QED BY <3>1
  <2> QED BY <2>1, <2>2 DEF Surjection
<1> QED BY <1>2, <1>3, FS_Surjection

\* Fewer rows, no more of them.
LEMMA FewerRows ==
    ASSUME NEW S \in SUBSET SaveRow, IsFiniteSet(S), NEW T \in SUBSET S
    PROVE  IsFiniteSet(T) /\ Cardinality(T) <= Cardinality(S)
           /\ Cardinality(S) \in Nat /\ Cardinality(T) \in Nat
  BY FS_Subset, FS_CardinalityType

LEMMA SavesInitInv == SavesInit => SavesInv
<1> SUFFICES ASSUME SavesInit PROVE SavesInv
  OBVIOUS
<1>1. saved \subseteq SaveRow /\ Cardinality(saved) <= FreeLimit /\ beyond = {}
  BY DEF SavesInit
<1>2. IsFiniteSet(saved)
  BY <1>1, SaveRowsAreFinite, FS_Subset
<1>3. SavesShape
  BY <1>1, <1>2 DEF SavesInit, SavesShape, Saver, NoSaver
<1>4. RoomIsKept
  BY DEF SavesInit, RoomIsKept, NoSaver
<1>5. SavesAreLimited
  <2>1. saved \ beyond = saved
    BY <1>1
  <2> QED BY <1>1, <2>1 DEF SavesAreLimited
<1> QED BY <1>3, <1>4, <1>5 DEF SavesInv

\* A step of one request that writes no row.
LEMMA SaverKeepsInv ==
    ASSUME SavesInv, NEW s \in Savers, NEW h \in Saver, saver' = [saver EXCEPT ![s] = h],
           h.at = "counted" /\ h.pro = FALSE => Cardinality(saved) < FreeLimit,
           UNCHANGED <<saved, pro, beyond>>
    PROVE  SavesInv'
  BY DEF SavesInv, SavesShape, RoomIsKept, SavesAreLimited

LEMMA AuthenticateKeepsInv ==
    ASSUME SavesInv, NEW s \in Savers, Authenticate(s)
    PROVE  SavesInv'
<1> DEFINE h == [NoSaver EXCEPT !.at = "known", !.pro = pro]
<1>1. h \in Saver /\ h.at = "known"
  BY DEF SavesInv, SavesShape, Saver, NoSaver
<1>2. saver' = [saver EXCEPT ![s] = h] /\ UNCHANGED <<saved, pro, beyond>>
  BY DEF Authenticate
<1> HIDE DEF h
<1> QED BY <1>1, <1>2, SaverKeepsInv

LEMMA NoSaverIsASaver == NoSaver \in Saver /\ NoSaver.at = "idle"
  BY DEF NoSaver, Saver

LEMMA CountKeepsInv ==
    ASSUME SavesInv, NEW s \in Savers, CountSaves(s)
    PROVE  SavesInv'
<1>1. CASE saver[s].pro \/ Fits
  <2> DEFINE h == [saver[s] EXCEPT !.at = "counted"]
  <2>1. h \in Saver /\ h.pro = saver[s].pro /\ saver[s].pro \in BOOLEAN
    BY DEF SavesInv, SavesShape, Saver
  <2>2. h.pro = FALSE => Cardinality(saved) < FreeLimit
    BY <1>1, <2>1 DEF Fits
  <2>3. saver' = [saver EXCEPT ![s] = h] /\ UNCHANGED <<saved, pro, beyond>>
    BY <1>1 DEF CountSaves
  <2> HIDE DEF h
  <2> QED BY <2>1, <2>2, <2>3, SaverKeepsInv
<1>2. CASE ~(saver[s].pro \/ Fits)
  <2>1. saver' = [saver EXCEPT ![s] = NoSaver] /\ UNCHANGED <<saved, pro, beyond>>
    BY <1>2 DEF CountSaves
  <2> QED BY <2>1, NoSaverIsASaver, SaverKeepsInv
<1> QED BY <1>1, <1>2

LEMMA AddKeepsInv ==
    ASSUME SavesInv, NEW s \in Savers, NEW v \in Vacancies, AddSave(s, v)
    PROVE  SavesInv'
<1> DEFINE mine == [vacancy |-> v, text |-> FALSE]
           new == {mine} \ saved
<1>1. /\ saver[s].at = "counted" /\ pro' = pro
      /\ saved' = saved \cup new
      /\ beyond' = IF saver[s].pro \/ saver[s].crossed THEN beyond \cup new ELSE beyond
      /\ saver' = [x \in Savers |->
            IF x = s THEN NoSaver
            ELSE [saver[x] EXCEPT !.crossed = @ \/ (saver[x].at = "counted" /\ new # {})]]
  BY DEF AddSave
<1>2. /\ saved \subseteq SaveRow /\ beyond \subseteq saved /\ IsFiniteSet(saved)
      /\ Cardinality(saved) \in Nat /\ FreeLimit \in Nat
  BY SavesAssumption, FS_CardinalityType DEF SavesInv, SavesShape
<1>3. mine \in SaveRow
  BY DEF SaveRow
<1>4. /\ IsFiniteSet(saved \cup {mine})
      /\ Cardinality(saved \cup {mine}) <= Cardinality(saved) + 1
      /\ saved \cup new = saved \cup {mine}
  <2> HIDE DEF mine
  <2>1. /\ IsFiniteSet(saved \cup {mine})
        /\ Cardinality(saved \cup {mine}) =
              IF mine \in saved THEN Cardinality(saved) ELSE Cardinality(saved) + 1
    BY <1>2, FS_AddElement
  <2>2. saved \cup new = saved \cup {mine}
    OBVIOUS
  <2> QED BY <1>2, <2>1, <2>2
<1>5. saver[s] \in Saver
  BY DEF SavesInv, SavesShape
<1> HIDE DEF mine
<1>6. SavesShape'
  <2>1. ASSUME NEW x \in Savers PROVE saver'[x] \in Saver
    <3>1. saver[x] \in Saver
      BY DEF SavesInv, SavesShape
    <3>2. [saver[x] EXCEPT !.crossed = @ \/ (saver[x].at = "counted" /\ new # {})] \in Saver
      BY <3>1 DEF Saver
    <3> QED BY <1>1, <3>2, NoSaverIsASaver
  <2>2. saver' \in [Savers -> Saver]
    BY <1>1, <2>1
  <2>3. saved' \subseteq SaveRow /\ IsFiniteSet(saved')
    BY <1>1, <1>2, <1>3, <1>4
  <2>4. beyond' \subseteq saved'
    BY <1>1, <1>2
  <2> QED BY <1>1, <2>2, <2>3, <2>4 DEF SavesInv, SavesShape
<1>7. RoomIsKept'
  <2> SUFFICES ASSUME NEW x \in Savers, saver'[x].at = "counted",
                      saver'[x].pro = FALSE, saver'[x].crossed = FALSE
               PROVE  Cardinality(saved') < FreeLimit
    BY DEF RoomIsKept
  <2>1. x # s /\ saver'[x] = [saver[x] EXCEPT !.crossed = @ \/ (saver[x].at = "counted" /\ new # {})]
    BY <1>1, NoSaverIsASaver
  <2>2. saver[x] \in Saver
    BY DEF SavesInv, SavesShape
  <2>3. /\ saver[x].at = "counted" /\ saver[x].pro = FALSE
        /\ saver[x].crossed = FALSE /\ new = {}
    BY <2>1, <2>2 DEF Saver
  <2>4. saved' = saved
    BY <1>1, <2>3
  <2> QED BY <2>3, <2>4 DEF SavesInv, RoomIsKept
<1>8. SavesAreLimited'
  <2>1. CASE saver[s].pro = TRUE \/ saver[s].crossed = TRUE
    <3>1. saved' \ beyond' \subseteq saved \ beyond
      BY <1>1, <2>1
    <3>2. Cardinality(saved \ beyond) <= FreeLimit
      BY DEF SavesInv, SavesAreLimited
    <3>3. /\ Cardinality(saved' \ beyond') <= Cardinality(saved \ beyond)
          /\ Cardinality(saved' \ beyond') \in Nat /\ Cardinality(saved \ beyond) \in Nat
      BY <1>2, <3>1, FS_Subset, FS_Difference, FS_CardinalityType
    <3> QED BY <1>2, <3>2, <3>3 DEF SavesAreLimited
  <2>2. CASE saver[s].pro = FALSE /\ saver[s].crossed = FALSE
    <3>1. Cardinality(saved) < FreeLimit
      BY <1>1, <2>2 DEF SavesInv, RoomIsKept
    <3>2. IsFiniteSet(saved') /\ Cardinality(saved') <= Cardinality(saved) + 1
      BY <1>1, <1>4
    <3>3. /\ Cardinality(saved' \ beyond') <= Cardinality(saved')
          /\ Cardinality(saved' \ beyond') \in Nat /\ Cardinality(saved') \in Nat
      BY <3>2, FS_Subset, FS_CardinalityType
    <3> QED BY <1>2, <3>1, <3>2, <3>3 DEF SavesAreLimited
  <2> QED BY <1>5, <2>1, <2>2 DEF Saver
<1> QED BY <1>6, <1>7, <1>8 DEF SavesInv

LEMMA RemoveKeepsInv ==
    ASSUME SavesInv, NEW v \in Vacancies, RemoveSave(v)
    PROVE  SavesInv'
<1>1. /\ saved' \subseteq saved /\ beyond' = beyond \cap saved'
      /\ UNCHANGED <<pro, saver>>
  BY DEF RemoveSave
<1>2. /\ saved \subseteq SaveRow /\ beyond \subseteq saved /\ IsFiniteSet(saved)
      /\ FreeLimit \in Nat
  BY SavesAssumption DEF SavesInv, SavesShape
<1>3. /\ IsFiniteSet(saved') /\ Cardinality(saved') <= Cardinality(saved)
      /\ Cardinality(saved') \in Nat /\ Cardinality(saved) \in Nat
  BY <1>1, <1>2, FewerRows
<1>4. SavesShape'
  BY <1>1, <1>2, <1>3 DEF SavesInv, SavesShape
<1>5. RoomIsKept'
  BY <1>1, <1>2, <1>3 DEF SavesInv, RoomIsKept
<1>6. SavesAreLimited'
  <2>1. saved' \ beyond' \subseteq saved \ beyond
    BY <1>1
  <2>2. IsFiniteSet(saved \ beyond) /\ saved \ beyond \subseteq SaveRow
    BY <1>2, FS_Difference
  <2>3. /\ Cardinality(saved' \ beyond') <= Cardinality(saved \ beyond)
        /\ Cardinality(saved' \ beyond') \in Nat /\ Cardinality(saved \ beyond) \in Nat
    BY <2>1, <2>2, FewerRows
  <2> QED BY <1>2, <2>3 DEF SavesInv, SavesAreLimited
<1> QED BY <1>4, <1>5, <1>6 DEF SavesInv

LEMMA SavesNextInv == SavesInv /\ [SavesNext]_saveVars => SavesInv'
<1> SUFFICES ASSUME SavesInv, [SavesNext]_saveVars PROVE SavesInv'
  OBVIOUS
<1>1. CASE UNCHANGED saveVars
  BY <1>1 DEF saveVars, SavesInv, SavesShape, RoomIsKept, SavesAreLimited
<1>2. ASSUME NEW s \in Savers, AbandonSave(s) PROVE SavesInv'
  BY <1>2, NoSaverIsASaver, SaverKeepsInv DEF AbandonSave
<1>3. ASSUME SetPro PROVE SavesInv'
  BY <1>3 DEF SetPro, SavesInv, SavesShape, RoomIsKept, SavesAreLimited
<1>4. CASE SavesNext
  BY <1>2, <1>3, <1>4, AuthenticateKeepsInv, CountKeepsInv, AddKeepsInv, RemoveKeepsInv
     DEF SavesNext
<1> QED BY <1>1, <1>4

\* Whatever is saved, removed, bought and revoked in any order: beyond what Pro
\* and overlapping saves put in, the free plan's limit is never passed.
THEOREM SavesLimited == SavesSpec => []SavesAreLimited
<1>1. SavesInv => SavesAreLimited
  BY DEF SavesInv
<1> QED BY <1>1, SavesInitInv, SavesNextInv, PTL DEF SavesSpec
(***************************************************************************)
(* EntryGate.                                                              *)
(***************************************************************************)
\* What findings say of u is so, where no change crossed them: M, N and T are
\* `member`, `news` and `channels`.
SaysSo(found, u, M, N, T) ==
    \A c \in (found.in \cup found.out) \ found.missed :
       <<u, c>> \notin N => T[c] # "absent" /\ (c \in found.in) = (c \in M[u])

\* A verdict in force is so.
TrueVerdict(v, u, M, N, T) == v.stored => SaysSo(v.found, u, M, N, T)

\* A request asks of each channel once; what it found so far, and the reply it
\* holds, are so as a verdict has to be.
CheckSound(q, M, N, T) ==
    /\ q \in GateRequest
    /\ q.pc # "idle" => q.user \in Users
    /\ q.pc = "reply" => q.asked \in Channels
    /\ (q.todo \cup {q.asked}) \cap (q.found.in \cup q.found.out) = {}
    /\ q.asked \notin q.todo
    /\ q.pc # "idle" => SaysSo(q.found, q.user, M, N, T)
    /\ q.pc = "reply" /\ q.reply \in {"in", "out"} /\ q.asked \notin q.found.missed
          /\ <<q.user, q.asked>> \notin N =>
       T[q.asked] # "absent" /\ (q.reply = "in") = (q.asked \in M[q.user])

GateInv ==
    /\ EntryTypeOK
    /\ \A u \in Users : TrueVerdict(verdicts[u], u, member, news, channels)
    /\ \A r \in Requests : CheckSound(gate[r], member, news, channels)

LEMMA GateInvTells == GateInv => VerdictsAreTrue
BY DEF GateInv, VerdictsAreTrue, TrueVerdict, SaysSo

LEMMA NothingFound ==
    /\ NoFindings \in Findings
    /\ NoFindings.in = {} /\ NoFindings.out = {} /\ NoFindings.missed = {}
    /\ \A u, M, N, T : SaysSo(NoFindings, u, M, N, T)
<1>1. NoFindings \in Findings /\ NoFindings.in = {} /\ NoFindings.out = {} /\ NoFindings.missed = {}
  BY DEF NoFindings, Findings
<1> QED BY <1>1 DEF SaysSo

LEMMA NothingStored ==
    /\ NoVerdict \in [age: 0..OkTTL, stored: BOOLEAN, found: Findings]
    /\ \A u, M, N, T : TrueVerdict(NoVerdict, u, M, N, T)
<1>1. NoVerdict \in [age: 0..OkTTL, stored: BOOLEAN, found: Findings]
  BY NothingFound, EntryGateAssumption DEF NoVerdict
<1> QED BY <1>1 DEF NoVerdict, TrueVerdict

LEMMA NothingChecked ==
    /\ NoCheck \in GateRequest /\ NoCheck.pc = "idle"
    /\ \A M, N, T : CheckSound(NoCheck, M, N, T)
<1>1. NoCheck \in GateRequest /\ NoCheck.pc = "idle" /\ NoCheck.found = NoFindings
      /\ NoCheck.todo = {} /\ NoCheck.asked = Nobody
  BY NothingFound DEF NoCheck, GateRequest, Replies
<1>2. ASSUME NEW M, NEW N, NEW T PROVE CheckSound(NoCheck, M, N, T)
  BY <1>1, NothingFound DEF CheckSound
<1> QED BY <1>1, <1>2

LEMMA GateStarts == EntryInit => GateInv
<1> SUFFICES ASSUME EntryInit PROVE GateInv
  OBVIOUS
<1>1. EntryTypeOK
  <2>1. verdicts \in [Users -> [age: 0..OkTTL, stored: BOOLEAN, found: Findings]]
    BY NothingStored DEF EntryInit
  <2>2. gate \in [Requests -> GateRequest] /\ writer \in Requests \cup {Nobody}
    BY NothingChecked DEF EntryInit
  <2>3. moves = 0 /\ calm = FALSE
    BY DEF EntryInit
  <2>4. moves \in 0..MaxMoves
    BY <2>3, EntryGateAssumption
  <2> QED BY <2>1, <2>2, <2>3, <2>4 DEF EntryInit, EntryTypeOK
<1>2. \A u \in Users : TrueVerdict(verdicts[u], u, member, news, channels)
  BY NothingStored DEF EntryInit
<1>3. \A r \in Requests : CheckSound(gate[r], member, news, channels)
  BY NothingChecked DEF EntryInit
<1> QED BY <1>1, <1>2, <1>3 DEF GateInv

-----------------------------------------------------------------------------
\* The world changed for u in the channels D at most, or the change is news.
Steady(u, D, M, N, T, M2, N2, T2) ==
    \A c \in Channels \ D : <<u, c>> \notin N2 =>
       /\ <<u, c>> \notin N
       /\ (c \in M2[u]) = (c \in M[u])
       /\ T[c] # "absent" => T2[c] # "absent"

\* `later` are the same findings, D added to what they missed.
SameBut(later, found, D) ==
    later.in = found.in /\ later.out = found.out /\ later.missed = found.missed \cup D

LEMMA FindingsStand ==
    ASSUME NEW M, NEW N, NEW T, NEW M2, NEW N2, NEW T2, NEW u, NEW D,
           NEW found \in Findings, NEW later \in Findings,
           Steady(u, D, M, N, T, M2, N2, T2), SaysSo(found, u, M, N, T), SameBut(later, found, D)
    PROVE  SaysSo(later, u, M2, N2, T2)
<1>1. found.in \subseteq Channels /\ found.out \subseteq Channels
  BY DEF Findings
<1> QED BY <1>1 DEF Steady, SaysSo, SameBut

\* A change found.missed of a request is a request.
LEMMA MissedRequest ==
    ASSUME NEW q \in GateRequest, NEW c \in Channels
    PROVE  LET late == [q EXCEPT !.found.missed = @ \cup {c}] IN
           /\ late \in GateRequest /\ SameBut(late.found, q.found, {c})
           /\ late.pc = q.pc /\ late.user = q.user /\ late.asked = q.asked
           /\ late.todo = q.todo /\ late.reply = q.reply
<1> DEFINE found == [q.found EXCEPT !.missed = @ \cup {c}]
           late == [q EXCEPT !.found = found]
<1>1. q.found \in Findings
  BY DEF GateRequest
<1>2. found \in Findings /\ SameBut(found, q.found, {c})
  BY <1>1 DEF Findings, SameBut
<1> HIDE DEF found
<1>3. /\ late \in GateRequest /\ late.found = found
      /\ late.pc = q.pc /\ late.user = q.user /\ late.asked = q.asked
      /\ late.todo = q.todo /\ late.reply = q.reply
  BY <1>2 DEF GateRequest
<1>4. late = [q EXCEPT !.found.missed = @ \cup {c}]
  BY DEF found
<1> HIDE DEF late
<1> QED BY <1>2, <1>3, <1>4

LEMMA CheckStands ==
    ASSUME NEW M, NEW N, NEW T, NEW M2, NEW N2, NEW T2, NEW D,
           NEW q, NEW late \in GateRequest,
           CheckSound(q, M, N, T),
           q.pc # "idle" => Steady(q.user, D, M, N, T, M2, N2, T2),
           SameBut(late.found, q.found, D),
           late.pc = q.pc, late.user = q.user, late.asked = q.asked,
           late.todo = q.todo, late.reply = q.reply
    PROVE  CheckSound(late, M2, N2, T2)
<1>1. q.found \in Findings /\ late.found \in Findings
  BY DEF CheckSound, GateRequest
<1>2. q.pc # "idle" => SaysSo(late.found, q.user, M2, N2, T2)
  BY <1>1, FindingsStand DEF CheckSound
<1>3. ASSUME q.pc = "reply", q.reply \in {"in", "out"}, q.asked \notin late.found.missed,
             <<q.user, q.asked>> \notin N2
      PROVE  T2[q.asked] # "absent" /\ (q.reply = "in") = (q.asked \in M2[q.user])
  BY <1>3 DEF CheckSound, Steady, SameBut
<1> QED BY <1>2, <1>3 DEF CheckSound, SameBut

\* Nothing that findings are about changes, or what changes is news.
LEMMA WorldTurns ==
    ASSUME GateInv, EntryTypeOK',
           \A u \in Users :
              Steady(u, {}, member, news, channels, member', news', channels'),
           UNCHANGED <<verdicts, gate>>
    PROVE  GateInv'
<1>1. ASSUME NEW u \in Users PROVE TrueVerdict(verdicts[u], u, member', news', channels')
  <2>1. verdicts[u].found \in Findings /\ SameBut(verdicts[u].found, verdicts[u].found, {})
    BY DEF GateInv, EntryTypeOK, SameBut
  <2> QED BY <2>1, FindingsStand DEF GateInv, TrueVerdict
<1>2. ASSUME NEW r \in Requests PROVE CheckSound(gate[r], member', news', channels')
  <2>1. /\ gate[r] \in GateRequest /\ (gate[r].pc # "idle" => gate[r].user \in Users)
        /\ SameBut(gate[r].found, gate[r].found, {})
    BY DEF GateInv, EntryTypeOK, CheckSound, SameBut
  <2> QED BY <2>1, CheckStands DEF GateInv
<1> QED BY <1>1, <1>2 DEF GateInv

\* Only the request r moves, and perhaps a verdict is stored or dropped.
LEMMA OneCheckMoves ==
    ASSUME GateInv, EntryTypeOK', NEW r \in Requests, NEW q,
           gate' = [gate EXCEPT ![r] = q], CheckSound(q, member, news, channels),
           UNCHANGED <<member, news, channels>>,
           \A u \in Users : TrueVerdict(verdicts'[u], u, member, news, channels)
    PROVE  GateInv'
<1>1. \A x \in Requests : gate'[x] = IF x = r THEN q ELSE gate[x]
  BY DEF GateInv, EntryTypeOK
<1>2. \A x \in Requests : CheckSound(gate'[x], member, news, channels)
  BY <1>1 DEF GateInv
<1> QED BY <1>2 DEF GateInv

-----------------------------------------------------------------------------
LEMMA LoadedSound ==
    ASSUME NEW u \in Users
    PROVE  \A M, N, T : CheckSound(Loaded(u), M, N, T)
<1>1. NoCheck \in GateRequest /\ On \in SUBSET Channels /\ Nobody \notin Channels
  BY NothingChecked, EntryGateAssumption DEF On
<1>2. /\ Loaded(u) \in GateRequest /\ Loaded(u).pc \in {"ask", "end"}
      /\ Loaded(u).user = u /\ Loaded(u).todo = On /\ Loaded(u).asked = Nobody
      /\ Loaded(u).found = NoFindings
  <2> HIDE DEF On
  <2>1. Loaded(u) \in GateRequest
    BY <1>1 DEF Loaded, GateRequest
  <2> QED BY <2>1 DEF Loaded, NoCheck
<1> QED BY <1>1, <1>2, NothingFound DEF CheckSound

LEMMA KnownSound ==
    ASSUME NEW u \in Users, NEW answered \in {"ok", "missing"}
    PROVE  LET q == [NoCheck EXCEPT !.user = u, !.pc = "end", !.cached = answered] IN
           \A M, N, T : CheckSound(q, M, N, T)
<1> DEFINE q == [NoCheck EXCEPT !.user = u, !.pc = "end", !.cached = answered]
<1>1. NoCheck \in GateRequest /\ Nobody \notin Channels
  BY NothingChecked, EntryGateAssumption
<1>2. /\ q \in GateRequest /\ q.pc = "end" /\ q.user = u /\ q.todo = {} /\ q.asked = Nobody
      /\ q.found = NoFindings
  <2>1. q \in GateRequest
    BY <1>1 DEF GateRequest
  <2> QED BY <2>1 DEF NoCheck
<1> HIDE DEF q
<1>3. \A M, N, T : CheckSound(q, M, N, T)
  BY <1>1, <1>2, NothingFound DEF CheckSound
<1> QED BY <1>3 DEF q

LEMMA AnswersAreTyped ==
    ASSUME EntryTypeOK, NEW u \in Users, NEW open, Answer(u, open)
    PROVE  answer' \in [Users -> {"none", "open", "locked"}]
BY DEF EntryTypeOK, Answer

LEMMA AnswerAtOnceKeepsGateInv ==
    ASSUME GateInv, NEW r \in Requests, NEW u \in Users, AnswerAtOnce(r, u)
    PROVE  GateInv'
<1>1. answer' \in [Users -> {"none", "open", "locked"}]
  BY AnswersAreTyped DEF GateInv, AnswerAtOnce
<1>2. UNCHANGED <<table, verdicts, gate, writer, outside>>
  BY DEF AnswerAtOnce
<1>3. EntryTypeOK'
  BY <1>1, <1>2 DEF GateInv, EntryTypeOK, table, outside
<1> QED BY <1>2, <1>3 DEF GateInv, table, outside

\* Steps of a request that leave the verdicts alone.
LEMMA CheckMoves ==
    ASSUME GateInv, NEW r \in Requests, NEW q,
           gate' = [gate EXCEPT ![r] = q], CheckSound(q, member, news, channels),
           writer' \in Requests \cup {Nobody},
           UNCHANGED <<table, verdicts, answer, outside>>
    PROVE  GateInv'
<1>1. gate' \in [Requests -> GateRequest]
  BY DEF GateInv, EntryTypeOK, CheckSound
<1>2. EntryTypeOK'
  BY <1>1 DEF GateInv, EntryTypeOK, table, outside
<1> QED BY <1>2, OneCheckMoves DEF GateInv, table, outside

LEMMA ChecksStartSound ==
    ASSUME GateInv, NEW r \in Requests, NEW u \in Users, Recheck(r, u) \/ Check(r, u)
    PROVE  GateInv'
<1>1. CASE Recheck(r, u)
  BY <1>1, LoadedSound, CheckMoves DEF Recheck
<1>2. CASE Check(r, u)
  <2> DEFINE Known(v) == [NoCheck EXCEPT !.user = u, !.pc = "end",
                                         !.cached = IF Ok(v.found) THEN "ok" ELSE "missing"]
             q == IF ~verdicts[u].stored THEN Loaded(u) ELSE Known(verdicts[u])
  <2>1. CheckSound(q, member, news, channels)
    <3>1. CASE ~verdicts[u].stored
      BY <3>1, LoadedSound
    <3>2. CASE verdicts[u].stored
      <4>1. (IF Ok(verdicts[u].found) THEN "ok" ELSE "missing") \in {"ok", "missing"}
        OBVIOUS
      <4> QED BY <3>2, <4>1, KnownSound
    <3> QED BY <3>1, <3>2
  <2>2. gate' = [gate EXCEPT ![r] = q] /\ UNCHANGED <<table, verdicts, writer, answer, outside>>
    BY <1>2 DEF Check
  <2>3. writer' \in Requests \cup {Nobody}
    BY <2>2 DEF GateInv, EntryTypeOK
  <2> HIDE DEF q
  <2> QED BY <2>1, <2>2, <2>3, CheckMoves
<1> QED BY <1>1, <1>2

LEMMA AbandonKeepsGateInv ==
    ASSUME GateInv, NEW r \in Requests, AbandonCheck(r)
    PROVE  GateInv'
<1>1. writer' \in Requests \cup {Nobody}
  BY DEF AbandonCheck, GateInv, EntryTypeOK
<1> QED BY <1>1, NothingChecked, CheckMoves DEF AbandonCheck

\* GateRequest, whatever its fields are drawn from.
RequestOf(Pcs, Askers, Lists, Asked, Said, Founds, Known) ==
    [pc: Pcs, user: Askers, todo: Lists, asked: Asked, reply: Said, degraded: BOOLEAN,
     found: Founds, cached: Known]

LEMMA GateRequestIsOne ==
    GateRequest = RequestOf({"idle", "ask", "reply", "end"}, Users \cup {Nobody}, SUBSET Channels,
                            Channels \cup {Nobody}, Replies, Findings, {"no", "ok", "missing"})
BY DEF GateRequest, RequestOf

\* The request asks of c, or has taken in the reply.
Asking(q, c, reply, found) ==
    [q EXCEPT !.asked = c, !.reply = reply, !.pc = "reply", !.todo = q.todo \ {c}, !.found = found]

Taken(q, found, degraded, pc) ==
    [q EXCEPT !.found = found, !.degraded = degraded, !.asked = Nobody, !.reply = "none", !.pc = pc]

LEMMA AskingOrTaken ==
    ASSUME NEW Pcs, NEW Askers, NEW Lists, NEW Asked, NEW Said, NEW Founds, NEW Known,
           NEW q \in RequestOf(Pcs, Askers, Lists, Asked, Said, Founds, Known),
           NEW c \in Asked, NEW reply \in Said, NEW found \in Founds, NEW pc \in Pcs,
           NEW degraded \in BOOLEAN
    PROVE  /\ "reply" \in Pcs /\ q.todo \ {c} \in Lists =>
                 Asking(q, c, reply, found) \in RequestOf(Pcs, Askers, Lists, Asked, Said, Founds, Known)
           /\ Nobody \in Asked /\ "none" \in Said =>
                 Taken(q, found, degraded, pc)
                    \in RequestOf(Pcs, Askers, Lists, Asked, Said, Founds, Known)
BY DEF RequestOf, Asking, Taken

LEMMA AskingRequest ==
    ASSUME NEW q \in GateRequest, NEW c \in Channels, NEW reply \in Replies,
           NEW found \in Findings
    PROVE  LET late == Asking(q, c, reply, found) IN
           /\ late \in GateRequest /\ late.user = q.user /\ late.pc = "reply" /\ late.asked = c
           /\ late.reply = reply /\ late.todo = q.todo \ {c} /\ late.found = found
<1>1. Asking(q, c, reply, found) \in GateRequest
  <2>1. q.todo \ {c} \in SUBSET Channels
    BY DEF GateRequest
  <2> QED BY <2>1, GateRequestIsOne, AskingOrTaken
<1> QED BY <1>1 DEF Asking, GateRequest

\* What is asked, and what Telegram says of it.
LEMMA AskKeepsGateInv ==
    ASSUME GateInv, NEW r \in Requests, AskTelegram(r)
    PROVE  GateInv'
<1> DEFINE old == gate[r]
<1>1. /\ old \in GateRequest /\ old.pc = "ask" /\ old.user \in Users
      /\ CheckSound(old, member, news, channels) /\ old.found \in Findings
      /\ old.todo \subseteq Channels
  BY DEF AskTelegram, GateInv, CheckSound, GateRequest
<1> DEFINE Missed(c) == IF channels[c] = "absent" THEN old.found.missed \cup {c}
                                              ELSE old.found.missed \ {c}
           Asked(c, reply) == Asking(old, c, reply, [old.found EXCEPT !.missed = Missed(c)])
<1>0. PICK c \in old.todo : \E reply \in Told(old.user, c) :
                               gate' = [gate EXCEPT ![r] = Asked(c, reply)]
  BY DEF AskTelegram, Asking
<1>2. PICK reply \in Told(old.user, c) : gate' = [gate EXCEPT ![r] = Asked(c, reply)]
  BY <1>0
<1>3. /\ c \in Channels /\ reply \in Replies /\ Nobody \notin Channels
      /\ reply \in {"in", "out"} => (reply = "in") = (c \in member[old.user])
  BY <1>1, <1>2, EntryGateAssumption DEF Told, Replies
<1> DEFINE found == [old.found EXCEPT !.missed = Missed(c)]
           q == Asked(c, reply)
<1>4. /\ found \in Findings /\ found.in = old.found.in /\ found.out = old.found.out
      /\ found.missed \ {c} = old.found.missed \ {c}
      /\ c \notin found.missed => channels[c] # "absent"
  BY <1>1, <1>3 DEF Findings
<1>5. gate' = [gate EXCEPT ![r] = q]
  BY <1>2
<1> HIDE DEF found
<1>6. q = Asking(old, c, reply, found)
  BY DEF found
<1> HIDE DEF q, old, Asked, Missed
<1>11. /\ q \in GateRequest /\ q.user = old.user /\ q.pc = "reply" /\ q.asked = c
      /\ q.reply = reply /\ q.todo = old.todo \ {c} /\ q.found = found
  BY <1>1, <1>3, <1>4, <1>6, AskingRequest
<1>7. c \notin old.found.in \cup old.found.out
  BY <1>1, <1>2 DEF CheckSound
<1>8. SaysSo(found, old.user, member, news, channels)
  BY <1>1, <1>4, <1>7 DEF CheckSound, SaysSo
<1>9. CheckSound(q, member, news, channels)
  <2>1. (q.todo \cup {q.asked}) \cap (q.found.in \cup q.found.out) = {}
    BY <1>1, <1>4, <1>11, <1>7 DEF CheckSound
  <2>2. q.reply \in {"in", "out"} /\ q.asked \notin q.found.missed =>
          channels[q.asked] # "absent" /\ (q.reply = "in") = (q.asked \in member[q.user])
    BY <1>3, <1>4, <1>11
  <2> QED BY <1>1, <1>3, <1>11, <1>8, <2>1, <2>2 DEF CheckSound
<1>10. writer' \in Requests \cup {Nobody}
  BY DEF AskTelegram, GateInv, EntryTypeOK
<1> QED BY <1>5, <1>9, <1>10, CheckMoves DEF AskTelegram

LEMMA TakenRequest ==
    ASSUME NEW q \in GateRequest, NEW found \in Findings, NEW degraded \in BOOLEAN,
           NEW pc \in {"ask", "end"}
    PROVE  LET late == Taken(q, found, degraded, pc) IN
           /\ late \in GateRequest /\ late.user = q.user /\ late.pc = pc
           /\ late.asked = Nobody /\ late.todo = q.todo /\ late.found = found
<1>1. Taken(q, found, degraded, pc) \in GateRequest
  BY GateRequestIsOne, AskingOrTaken DEF Replies
<1> QED BY <1>1 DEF Taken, GateRequest

\* A reply that is taken in was so when it came, or a change has crossed it.
LEMMA TakeReplyKeepsGateInv ==
    ASSUME GateInv, NEW r \in Requests, TakeReply(r)
    PROVE  GateInv'
<1> DEFINE old == gate[r]
           found == Found(old.found, old.asked, old.reply)
           degraded == old.degraded \/ old.reply = "outage"
           pc == IF old.todo = {} THEN "end" ELSE "ask"
           q == Taken(old, found, degraded, pc)
<1>1. /\ old \in GateRequest /\ old.pc = "reply" /\ old.user \in Users /\ old.asked \in Channels
      /\ old.reply \in Replies
      /\ CheckSound(old, member, news, channels) /\ old.found \in Findings
  BY DEF TakeReply, GateInv, CheckSound, GateRequest
<1>2. gate' = [gate EXCEPT ![r] = q] /\ UNCHANGED <<table, verdicts, answer, outside>>
  BY DEF TakeReply, Taken
<1>3. writer' \in Requests \cup {Nobody}
  BY DEF TakeReply, GateInv, EntryTypeOK
<1>4. /\ found \in Findings /\ found.missed = old.found.missed
      /\ found.in = IF old.reply = "in" THEN old.found.in \cup {old.asked} ELSE old.found.in
      /\ found.out = IF old.reply = "out" THEN old.found.out \cup {old.asked} ELSE old.found.out
  <2> HIDE DEF old
  <2> QED BY <1>1 DEF Found, Findings
<1>5. degraded \in BOOLEAN /\ pc \in {"ask", "end"}
  BY ZenonT(30)
<1> HIDE DEF old, found, degraded, pc
<1>7. /\ q \in GateRequest /\ q.user = old.user /\ q.pc # "reply"
      /\ q.asked = Nobody /\ q.todo = old.todo /\ q.found = found
  BY <1>1, <1>4, <1>5, TakenRequest
<1> HIDE DEF q
<1>8. SaysSo(found, old.user, member, news, channels)
  <2>1. SUFFICES ASSUME NEW c \in (found.in \cup found.out) \ found.missed,
                        <<old.user, c>> \notin news
                 PROVE  channels[c] # "absent" /\ (c \in found.in) = (c \in member[old.user])
    BY DEF SaysSo
  <2>2. CASE c # old.asked
    BY <1>1, <1>4, <2>1, <2>2 DEF CheckSound, SaysSo
  <2>3. CASE c = old.asked
    <3>1. old.asked \notin old.found.in \cup old.found.out
      BY <1>1 DEF CheckSound
    <3>2. old.reply \in {"in", "out"} /\ (c \in found.in) = (old.reply = "in")
      BY <1>4, <2>1, <2>3, <3>1
    <3> QED BY <1>1, <1>4, <2>1, <2>3, <3>2 DEF CheckSound
  <2> QED BY <2>2, <2>3
<1>9. q.todo \cap (found.in \cup found.out) = {}
  BY <1>1, <1>4, <1>7 DEF CheckSound
<1>10. Nobody \notin Channels /\ found.in \subseteq Channels /\ found.out \subseteq Channels
       /\ old.todo \subseteq Channels
  BY <1>1, <1>4, EntryGateAssumption DEF Findings, GateRequest
<1>11. CheckSound(q, member, news, channels)
  BY <1>1, <1>7, <1>8, <1>9, <1>10 DEF CheckSound
<1> QED BY <1>2, <1>3, <1>11, CheckMoves

\* The verdict stored is what was found.
LEMMA VerdictIsTyped ==
    ASSUME NEW found \in Findings
    PROVE  /\ TTL(found) - DegradedTTL \in 0..OkTTL
           /\ TTL(found) \in 1..OkTTL
<1>1. TTL(found) \in {OkTTL, MissingTTL}
  BY DEF TTL
<1> QED BY <1>1, EntryGateAssumption

LEMMA FinishKeepsGateInv ==
    ASSUME GateInv, NEW r \in Requests, Finish(r)
    PROVE  GateInv'
<1> DEFINE u == gate[r].user
           v == verdicts[u]
           Table == [age: 0..OkTTL, stored: BOOLEAN, found: Findings]
<1>1. /\ u \in Users /\ gate[r].found \in Findings
      /\ SaysSo(gate[r].found, u, member, news, channels)
      /\ v \in Table /\ v.found \in Findings
      /\ TrueVerdict(v, u, member, news, channels)
  BY DEF GateInv, EntryTypeOK, CheckSound, GateRequest, Finish
<1>2. Verdict(r) \in Table /\ Verdict(r).found = gate[r].found
  <2> DEFINE age == IF gate[r].degraded THEN TTL(gate[r].found) - DegradedTTL ELSE 0
  <2>1. age \in 0..OkTTL
    BY <1>1, VerdictIsTyped, EntryGateAssumption
  <2> HIDE DEF age
  <2>2. [age |-> age, stored |-> TRUE, found |-> gate[r].found] \in Table
    BY <1>1, <2>1
  <2> QED BY <2>2 DEF Verdict, age
<1>3. PICK new \in Table : /\ verdicts' = [verdicts EXCEPT ![u] = new]
                           /\ TrueVerdict(new, u, member, news, channels)
  BY <1>1, <1>2 DEF Finish, Reused, TrueVerdict
<1>4. /\ verdicts' \in [Users -> Table]
      /\ \A x \in Users : verdicts'[x] = IF x = u THEN new ELSE verdicts[x]
  BY <1>1, <1>3 DEF GateInv, EntryTypeOK
<1>5. answer' \in [Users -> {"none", "open", "locked"}]
  BY <1>1, AnswersAreTyped DEF Finish, GateInv
<1>6. gate' = [gate EXCEPT ![r] = NoCheck] /\ UNCHANGED <<table, outside>>
      /\ writer' \in Requests \cup {Nobody}
  BY DEF Finish, GateInv, EntryTypeOK
<1>7. gate' \in [Requests -> GateRequest]
  BY <1>6, NothingChecked DEF GateInv, EntryTypeOK
<1>8. EntryTypeOK'
  BY <1>4, <1>5, <1>6, <1>7 DEF GateInv, EntryTypeOK, table, outside
<1>9. \A x \in Users : TrueVerdict(verdicts'[x], x, member, news, channels)
  BY <1>3, <1>4 DEF GateInv
<1> HIDE DEF u, v, Table
<1> QED BY <1>6, <1>8, <1>9, OneCheckMoves, NothingChecked DEF table, outside

-----------------------------------------------------------------------------
\* What changes from outside.

LEMMA JoinOrLeaveKeepsGateInv ==
    ASSUME GateInv, NEW u \in Users, NEW c \in Channels, JoinOrLeave(u, c)
    PROVE  GateInv'
<1>1. /\ member' \in [Users -> SUBSET Channels] /\ news' = news \cup {<<u, c>>}
      /\ \A x \in Users, d \in Channels :
            <<x, d>> # <<u, c>> => (d \in member'[x]) = (d \in member[x])
  BY DEF JoinOrLeave, GateInv, EntryTypeOK
<1>2. moves' \in 0..MaxMoves /\ UNCHANGED <<table, verdicts, gate, writer, answer, calm>>
  BY EntryGateAssumption DEF JoinOrLeave, Move, GateInv, EntryTypeOK
<1>3. EntryTypeOK'
  BY <1>1, <1>2 DEF GateInv, EntryTypeOK, table
<1>4. \A x \in Users : Steady(x, {}, member, news, channels, member', news', channels')
  BY <1>1, <1>2 DEF Steady, table
<1> QED BY <1>2, <1>3, <1>4, WorldTurns

LEMMA SetChannelKeepsGateInv ==
    ASSUME GateInv, NEW c \in Channels, NEW state \in {"on", "off"}, SetChannel(c, state)
    PROVE  GateInv'
<1>1. /\ channels' \in [Channels -> {"absent", "off", "on"}]
      /\ \A d \in Channels : channels[d] # "absent" => channels'[d] # "absent"
  BY DEF SetChannel, GateInv, EntryTypeOK
<1>2. moves' \in 0..MaxMoves
  BY EntryGateAssumption DEF SetChannel, Move, GateInv, EntryTypeOK
<1>3. UNCHANGED <<verdicts, started, banned, invited, admins, gate, writer, answer, member,
                  news, calm>>
  BY DEF SetChannel, Move
<1>4. EntryTypeOK'
  BY <1>1, <1>2, <1>3 DEF GateInv, EntryTypeOK
<1>5. \A x \in Users : Steady(x, {}, member, news, channels, member', news', channels')
  BY <1>1, <1>3 DEF Steady
<1> QED BY <1>3, <1>4, <1>5, WorldTurns

LEMMA ChangeUserKeepsGateInv ==
    ASSUME GateInv, NEW u \in Users, ChangeUser(u)
    PROVE  GateInv'
<1>1. started' \in [Users -> BOOLEAN] /\ banned' \in [Users -> BOOLEAN]
  BY DEF ChangeUser, PressStart, GateInv, EntryTypeOK
<1>2. invited' \in [Users -> 0..Required] /\ admins' \subseteq Users
  <2>1. CASE invited[u] < Required /\ invited' = [invited EXCEPT ![u] = @ + 1] /\ UNCHANGED admins
    <3>1. invited[u] + 1 \in 0..Required
      BY <2>1, EntryGateAssumption DEF GateInv, EntryTypeOK
    <3> QED BY <2>1, <3>1 DEF GateInv, EntryTypeOK
  <2>2. CASE UNCHANGED invited /\ (admins' = admins \ {u} \/ UNCHANGED admins)
    BY <2>2 DEF GateInv, EntryTypeOK
  <2> QED BY <2>1, <2>2 DEF ChangeUser, PressStart
<1>3. moves' \in 0..MaxMoves
  BY EntryGateAssumption DEF ChangeUser, Move, GateInv, EntryTypeOK
<1>4. UNCHANGED <<channels, verdicts, gate, writer, answer, member, news, calm>>
  BY DEF ChangeUser, PressStart, Move
<1>5. EntryTypeOK'
  BY <1>1, <1>2, <1>3, <1>4 DEF GateInv, EntryTypeOK
<1> QED BY <1>4, <1>5 DEF GateInv

LEMMA CalmDownKeepsGateInv ==
    ASSUME GateInv, CalmDown
    PROVE  GateInv'
<1>1. MaxMoves \in 0..MaxMoves
  BY EntryGateAssumption
<1>2. EntryTypeOK'
  BY <1>1 DEF CalmDown, GateInv, EntryTypeOK, table
<1> QED BY <1>2 DEF CalmDown, GateInv, table

LEMMA TickKeepsGateInv ==
    ASSUME GateInv, Tick
    PROVE  GateInv'
<1> DEFINE Table == [age: 0..OkTTL, stored: BOOLEAN, found: Findings]
<1>1. ASSUME NEW u \in Users
      PROVE  Age(verdicts[u]) \in Table /\ TrueVerdict(Age(verdicts[u]), u, member, news, channels)
  <2> DEFINE v == verdicts[u]
  <2>1. v \in Table /\ v.found \in Findings /\ TrueVerdict(v, u, member, news, channels)
    BY DEF GateInv, EntryTypeOK
  <2> HIDE DEF v
  <2>2. CASE v.stored /\ v.age + 1 < TTL(v.found)
    <3>1. v.age + 1 \in 0..OkTTL
      BY <2>1, <2>2, VerdictIsTyped, EntryGateAssumption
    <3>2. [v EXCEPT !.age = v.age + 1] \in Table /\ [v EXCEPT !.age = v.age + 1].found = v.found
      BY <2>1, <3>1
    <3>3. Age(v) = [v EXCEPT !.age = v.age + 1]
      BY <2>2 DEF Age
    <3> QED BY <2>1, <2>2, <3>2, <3>3 DEF v, TrueVerdict
  <2>3. CASE Age(v) = NoVerdict
    BY <2>3, NothingStored DEF v
  <2> QED BY <2>2, <2>3 DEF Age
<1>2. /\ verdicts' \in [Users -> Table]
      /\ \A u \in Users : verdicts'[u] = Age(verdicts[u])
  BY <1>1 DEF Tick
<1>3. EntryTypeOK'
  BY <1>2 DEF Tick, GateInv, EntryTypeOK, table, outside
<1>4. ASSUME NEW u \in Users PROVE TrueVerdict(verdicts'[u], u, member, news, channels)
  BY <1>1, <1>2
<1> QED BY <1>3, <1>4 DEF GateInv, Tick, table, outside

-----------------------------------------------------------------------------
\* A deletion, or a change the bot hears of, marks every check it crosses.
LEMMA MissKeepsChecks ==
    ASSUME GateInv, NEW S \in SUBSET Users, NEW c \in Channels, gate' = Miss(S, Nobody, c),
           \A u \in Users :
              Steady(u, IF u \in S THEN {c} ELSE {}, member, news, channels,
                     member', news', channels')
    PROVE  /\ gate' \in [Requests -> GateRequest]
           /\ \A r \in Requests : CheckSound(gate'[r], member', news', channels')
<1>1. ASSUME NEW r \in Requests
      PROVE  gate'[r] \in GateRequest /\ CheckSound(gate'[r], member', news', channels')
  <2> DEFINE q == gate[r]
  <2>1. /\ q \in GateRequest /\ CheckSound(q, member, news, channels)
        /\ q.pc # "idle" => q.user \in Users
    BY DEF GateInv, EntryTypeOK, CheckSound
  <2>2. CASE q.pc # "idle" /\ q.user \in S
    <3> DEFINE late == [q EXCEPT !.found.missed = @ \cup {c}]
    <3>1. gate'[r] = late
      BY <2>2 DEF Miss
    <3>2. /\ late \in GateRequest /\ SameBut(late.found, q.found, {c})
          /\ late.pc = q.pc /\ late.user = q.user /\ late.asked = q.asked
          /\ late.todo = q.todo /\ late.reply = q.reply
      BY <2>1, MissedRequest
    <3>3. Steady(q.user, {c}, member, news, channels, member', news', channels')
      BY <2>1, <2>2
    <3> HIDE DEF late, q
    <3> QED BY <2>1, <3>1, <3>2, <3>3, CheckStands
  <2>3. CASE q.pc # "idle" /\ q.user \notin S
    <3>1. gate'[r] = q /\ SameBut(q.found, q.found, {})
          /\ Steady(q.user, {}, member, news, channels, member', news', channels')
      BY <2>1, <2>3 DEF Miss, SameBut
    <3> HIDE DEF q
    <3> QED BY <2>1, <3>1, CheckStands
  <2>4. CASE q.pc = "idle"
    <3>1. gate'[r] = q
      BY <2>4 DEF Miss
    <3> QED BY <2>1, <2>4, <3>1 DEF CheckSound, SaysSo
  <2> QED BY <2>2, <2>3, <2>4
<1>2. gate' \in [Requests -> GateRequest]
  BY <1>1 DEF Miss
<1> QED BY <1>1, <1>2

LEMMA RemoveKeepsGateInv ==
    ASSUME GateInv, NEW c \in Channels, RemoveChannel(c)
    PROVE  GateInv'
<1>1. /\ channels' = [channels EXCEPT ![c] = "absent"]
      /\ verdicts' = [u \in Users |-> NoVerdict] /\ gate' = Miss(Users, Nobody, c)
      /\ UNCHANGED <<started, banned, invited, admins, writer, answer, member, news, calm>>
  BY DEF RemoveChannel, ForgetVerdicts, Move
<1>2. moves' \in 0..MaxMoves
  BY EntryGateAssumption DEF RemoveChannel, Move, GateInv, EntryTypeOK
<1>3. /\ channels' \in [Channels -> {"absent", "off", "on"}]
      /\ \A d \in Channels \ {c} : channels'[d] = channels[d]
  BY <1>1 DEF GateInv, EntryTypeOK
<1>4. \A u \in Users : Steady(u, IF u \in Users THEN {c} ELSE {}, member, news, channels,
                              member', news', channels')
  BY <1>1, <1>3 DEF Steady
<1>5. /\ gate' \in [Requests -> GateRequest]
      /\ \A r \in Requests : CheckSound(gate'[r], member', news', channels')
  BY <1>1, <1>4, MissKeepsChecks
<1>6. EntryTypeOK'
  BY <1>1, <1>2, <1>3, <1>5, NothingStored DEF GateInv, EntryTypeOK
<1>7. \A u \in Users : TrueVerdict(verdicts'[u], u, member', news', channels')
  BY <1>1, NothingStored
<1> QED BY <1>5, <1>6, <1>7 DEF GateInv

\* The bot hears of a change: the verdict goes, or is marked.
LEMMA HearingKeepsGateInv ==
    ASSUME GateInv, NEW u \in Users, NEW c \in Channels, OnChatMember(u, c)
    PROVE  GateInv'
<1> DEFINE Table == [age: 0..OkTTL, stored: BOOLEAN, found: Findings]
<1>1. /\ news' = news \ {<<u, c>>} /\ gate' = Miss({u}, u, c)
      /\ DropVerdict(u, c) \/ KeepVerdict(u, c)
      /\ UNCHANGED <<table, writer, answer, member, moves, calm>>
  BY DEF OnChatMember, DropVerdict, KeepVerdict
<1>2. gate' = Miss({u}, Nobody, c)
  BY <1>1 DEF Miss
<1>3. \A x \in Users : Steady(x, IF x \in {u} THEN {c} ELSE {}, member, news, channels,
                              member', news', channels')
  BY <1>1 DEF Steady, table
<1>4. /\ gate' \in [Requests -> GateRequest]
      /\ \A r \in Requests : CheckSound(gate'[r], member', news', channels')
  BY <1>2, <1>3, MissKeepsChecks
<1>5. /\ verdicts \in [Users -> Table] /\ verdicts[u].found \in Findings
      /\ TrueVerdict(verdicts[u], u, member, news, channels)
  BY DEF GateInv, EntryTypeOK
<1>6. PICK new \in Table : /\ verdicts' = [verdicts EXCEPT ![u] = new]
                           /\ TrueVerdict(new, u, member', news', channels')
  <2>1. CASE DropVerdict(u, c)
    BY <2>1, NothingStored DEF DropVerdict
  <2>2. CASE KeepVerdict(u, c)
    <3> DEFINE v == verdicts[u]
               D == IF v.stored THEN {c} ELSE {}
               found == [v.found EXCEPT !.missed = v.found.missed \cup D]
               new == [v EXCEPT !.found = found]
    <3>1. v \in Table /\ v.found \in Findings
      BY <1>5
    <3>2. found \in Findings /\ SameBut(found, v.found, D)
      BY <3>1 DEF Findings, SameBut
    <3>3. verdicts' = [verdicts EXCEPT ![u] = new]
      BY <2>2 DEF KeepVerdict
    <3> HIDE DEF found
    <3>4. new \in Table /\ new.found = found /\ new.stored = v.stored
      BY <3>1, <3>2
    <3>5. v.stored => Steady(u, D, member, news, channels, member', news', channels')
      BY <1>3
    <3>6. TrueVerdict(new, u, member', news', channels')
      <4> HIDE DEF new, v, D
      <4> QED BY <1>5, <3>1, <3>2, <3>4, <3>5, FindingsStand DEF TrueVerdict, v
    <3> QED BY <3>3, <3>4, <3>6
  <2> QED BY <1>1, <2>1, <2>2
<1>7. /\ verdicts' \in [Users -> Table]
      /\ \A x \in Users : verdicts'[x] = IF x = u THEN new ELSE verdicts[x]
  BY <1>5, <1>6
<1>8. ASSUME NEW x \in Users PROVE TrueVerdict(verdicts'[x], x, member', news', channels')
  <2>1. CASE x = u
    BY <1>6, <1>7, <2>1
  <2>2. CASE x # u
    <3>1. verdicts[x].found \in Findings /\ SameBut(verdicts[x].found, verdicts[x].found, {})
          /\ Steady(x, {}, member, news, channels, member', news', channels')
          /\ TrueVerdict(verdicts[x], x, member, news, channels)
      BY <1>3, <2>2 DEF GateInv, EntryTypeOK, SameBut
    <3> QED BY <1>7, <2>2, <3>1, FindingsStand DEF TrueVerdict
  <2> QED BY <2>1, <2>2
<1>9. EntryTypeOK'
  <2>1. news' \subseteq Users \X Channels
    BY <1>1 DEF GateInv, EntryTypeOK
  <2> QED BY <1>1, <1>4, <1>7, <2>1 DEF GateInv, EntryTypeOK, table
<1> QED BY <1>4, <1>8, <1>9 DEF GateInv

\* The gate's invariant, for every user, channel, request and life of a verdict.
THEOREM GateInvHolds == EntrySpec => []GateInv
<1>1. GateInv /\ [EntryNext]_gateVars => GateInv'
  <2> SUFFICES ASSUME GateInv, [EntryNext]_gateVars PROVE GateInv'
    OBVIOUS
  <2>1. ASSUME NEW r \in Requests, NEW u \in Users,
               AnswerAtOnce(r, u) \/ Recheck(r, u) \/ Check(r, u)
        PROVE  GateInv'
    BY <2>1, AnswerAtOnceKeepsGateInv, ChecksStartSound
  <2>2. ASSUME NEW r \in Requests, Serve(r) \/ AbandonCheck(r) PROVE GateInv'
    BY <2>2, AskKeepsGateInv, TakeReplyKeepsGateInv, FinishKeepsGateInv, AbandonKeepsGateInv
       DEF Serve
  <2>3. ASSUME NEW u \in Users, NEW c \in Channels, OnChatMember(u, c) \/ JoinOrLeave(u, c)
        PROVE  GateInv'
    BY <2>3, HearingKeepsGateInv, JoinOrLeaveKeepsGateInv
  <2>4. ASSUME NEW c \in Channels,
               \/ AddChannel(c) \/ InsertChannel(c) \/ PatchChannel(c)
               \/ DeleteChannel(c) \/ DeleteFromBot(c)
        PROVE  GateInv'
    BY <2>4, RemoveKeepsGateInv, SetChannelKeepsGateInv
       DEF AddChannel, InsertChannel, PatchChannel, DeleteChannel, DeleteFromBot
  <2>5. ASSUME NEW u \in Users, ChangeUser(u) PROVE GateInv'
    BY <2>5, ChangeUserKeepsGateInv
  <2>6. CASE Tick \/ CalmDown
    BY <2>6, TickKeepsGateInv, CalmDownKeepsGateInv
  <2>7. CASE UNCHANGED gateVars
    BY <2>7 DEF gateVars, GateInv, EntryTypeOK, outside, table
  <2> QED BY <2>1, <2>2, <2>3, <2>4, <2>5, <2>6, <2>7 DEF EntryNext
<1> QED BY <1>1, GateStarts, PTL DEF EntrySpec

\* A verdict in force says what is so, unless the bot has yet to hear of a
\* change, could not act on it, or the change crossed the check
\* (core/subscription.py, handlers/membership.py).
THEOREM VerdictsTrue == EntrySpec => []VerdictsAreTrue
<1> QED BY GateInvHolds, GateInvTells, PTL
=============================================================================
