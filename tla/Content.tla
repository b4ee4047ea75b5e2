------------------------------- MODULE Content -------------------------------
(***************************************************************************)
(* The articles of the labour law, their categories and the HR tips, as    *)
(* the admin panel edits them. A handler looks first (does the row exist,  *)
(* does its category exist, is the category empty) in statements of their  *)
(* own; then the write, its audit row and the commit are one transaction.  *)
(* No foreign key ties an article to its category: two admins' handlers    *)
(* may pass each other between looking and writing.                        *)
(*                                                                         *)
(* A row is its category, or Plain for a tip or a category.                *)
(***************************************************************************)
EXTENDS Integers, FiniteSets

CONSTANTS Categories, Articles, Tips,
          Editors,      \* handlers in flight
          Plain, Absent,
          MaxWrites     \* bound: writes of a behaviour

Items == Categories \cup Articles \cup Tips

ASSUME ContentAssumption ==
    /\ IsFiniteSet(Items)
    /\ Categories \cap Articles = {} /\ Categories \cap Tips = {} /\ Articles \cap Tips = {}
    /\ Plain \notin Items /\ Absent \notin Items /\ Plain # Absent
    /\ MaxWrites \in Nat

VARIABLES content,     \* content[i]: the row of i, or Absent
          made,        \* made[i]: creations in the audit since the last deletion
          writes,      \* how many handlers have written
          editor,      \* editor[e]: the handler
          excused      \* articles whose category was deleted past a handler

contentVars == <<content, made, writes, editor, excused>>

Ops == {"create", "update", "delete"}
RowsOf(i) == IF i \in Articles THEN Categories ELSE {Plain}

\* gone: the categories deleted since the handler began; filed: the articles
\* written since.
Editor == [at: {"idle", "looked", "ready"}, op: Ops, item: Items,
           row: Categories \cup {Plain},
           gone: SUBSET Categories, filed: SUBSET Articles]

ContentTypeOK ==
    /\ \A i \in Items : content[i] \in RowsOf(i) \cup {Absent}
    /\ made \in [Items -> Nat]
    /\ writes \in 0..MaxWrites
    /\ editor \in [Editors -> Editor]
    /\ excused \subseteq Articles

There(i) == content[i] # Absent

NoEditor == [at |-> "idle", op |-> "create", item |-> CHOOSE c \in Categories : TRUE,
             row |-> Plain, gone |-> {}, filed |-> {}]

\* m007 seeds a table in which every article has its category.
ContentInit ==
    /\ content \in {f \in [Items -> Categories \cup {Plain, Absent}] :
          \A i \in Items : /\ f[i] \in RowsOf(i) \cup {Absent}
                           /\ f[i] \in Categories => f[f[i]] = Plain}
    /\ made = [i \in Items |-> 0]
    /\ writes = 0
    /\ editor = [e \in Editors |-> NoEditor]
    /\ excused = {}

-----------------------------------------------------------------------------
(***************************************************************************)
(* Looking.                                                                *)
(***************************************************************************)
\* article_exists, tip_exists, category_exists: a create answers 409 to what
\* is there, the rest 404 to what is not.
Look(e, op, i, row) ==
    /\ editor[e].at = "idle"
    /\ There(i) = (op # "create")
    /\ editor' = [editor EXCEPT ![e] =
          [NoEditor EXCEPT !.at = "looked", !.op = op, !.item = i, !.row = row]]
    /\ UNCHANGED <<content, made, writes, excused>>

CreateArticle(e, a, c) == Look(e, "create", a, c)
UpdateArticle(e, a, c) == Look(e, "update", a, c)
DeleteArticle(e, a) == Look(e, "delete", a, Plain)
CreateTip(e, t) == Look(e, "create", t, Plain)
UpdateTip(e, t) == Look(e, "update", t, Plain)
DeleteTip(e, t) == Look(e, "delete", t, Plain)
CreateCategory(e, c) == Look(e, "create", c, Plain)
UpdateCategory(e, c) == Look(e, "update", c, Plain)
DeleteCategory(e, c) == Look(e, "delete", c, Plain)

\* Mutant: the articles of a category are not counted.
PassesUncounted(e) ==
    LET r == editor[e] IN r.item \in Articles /\ r.op # "delete" => There(r.row)

\* The second look: an article's category is there, a category to delete
\* holds no article. The other handlers have none.
Passes(e) ==
    LET r == editor[e] IN
    /\ r.item \in Articles /\ r.op # "delete" => There(r.row)
    /\ r.item \in Categories /\ r.op = "delete" => \A a \in Articles : content[a] # r.item

LookAgain(e) ==
    /\ editor[e].at = "looked"
    /\ editor' = [editor EXCEPT ![e] =
          IF Passes(e) THEN [@ EXCEPT !.at = "ready"] ELSE NoEditor]
    /\ UNCHANGED <<content, made, writes, excused>>

-----------------------------------------------------------------------------
(***************************************************************************)
(* Writing. The others learn what was written while they were under way.   *)
(***************************************************************************)
Done(e, gone, filed) ==
    editor' = [x \in Editors |->
        IF x = e THEN NoEditor
        ELSE IF editor[x].at = "idle" THEN editor[x]
        ELSE [editor[x] EXCEPT !.gone = @ \cup gone, !.filed = @ \cup filed]]

Ready(e, op) ==
    /\ editor[e].at = "ready" /\ editor[e].op = op
    /\ writes < MaxWrites
    /\ writes' = writes + 1

\* An article is filed in a category the handler has found before.
File(e) ==
    LET r == editor[e] IN
    IF r.item \in Articles
    THEN excused' = IF r.row \in r.gone THEN excused \cup {r.item} ELSE excused \ {r.item}
    ELSE UNCHANGED excused

\* Mutant: INSERT OR REPLACE.
CreateOver(e) ==
    LET r == editor[e] IN
    /\ Ready(e, "create")
    /\ content' = [content EXCEPT ![r.item] = r.row]
    /\ made' = [made EXCEPT ![r.item] = @ + 1]
    /\ File(e)
    /\ Done(e, {}, {r.item} \cap Articles)

\* INSERT: the primary key refuses a second row, and the transaction with it.
Create(e) ==
    LET r == editor[e] IN
    /\ Ready(e, "create")
    /\ IF There(r.item)
       THEN /\ Done(e, {}, {})
            /\ UNCHANGED <<content, made, excused>>
       ELSE /\ content' = [content EXCEPT ![r.item] = r.row]
            /\ made' = [made EXCEPT ![r.item] = @ + 1]
            /\ File(e)
            /\ Done(e, {}, {r.item} \cap Articles)

\* UPDATE .. WHERE id: a row deleted meanwhile is not touched, and the handler
\* does not notice.
Update(e) ==
    LET r == editor[e] IN
    /\ Ready(e, "update")
    /\ IF There(r.item)
       THEN /\ content' = [content EXCEPT ![r.item] = r.row]
            /\ File(e)
            /\ Done(e, {}, {r.item} \cap Articles)
       ELSE /\ Done(e, {}, {})
            /\ UNCHANGED <<content, excused>>
    /\ UNCHANGED made

\* DELETE .. WHERE id. An article filed since the handler counted stays.
Delete(e) ==
    LET r == editor[e]
        stranded == {a \in Articles : content[a] = r.item}
    IN
    /\ Ready(e, "delete")
    /\ content' = [content EXCEPT ![r.item] = Absent]
    /\ made' = [made EXCEPT ![r.item] = 0]
    /\ excused' = (excused \ {r.item}) \cup (stranded \cap r.filed)
    /\ Done(e, {r.item} \cap Categories, {})

\* A refusal, a failed statement or the end of the process: nothing is left.
Abandon(e) ==
    /\ editor[e].at # "idle"
    /\ editor' = [editor EXCEPT ![e] = NoEditor]
    /\ UNCHANGED <<content, made, writes, excused>>

EditorStep(e) ==
    \/ \E a \in Articles : \/ \E c \in Categories : CreateArticle(e, a, c) \/ UpdateArticle(e, a, c)
                         \/ DeleteArticle(e, a)
    \/ \E t \in Tips : CreateTip(e, t) \/ UpdateTip(e, t) \/ DeleteTip(e, t)
    \/ \E c \in Categories : CreateCategory(e, c) \/ UpdateCategory(e, c) \/ DeleteCategory(e, c)
    \/ LookAgain(e)
    \/ Create(e) \/ Update(e) \/ Delete(e)
    \/ Abandon(e)

ContentNext == \E e \in Editors : EditorStep(e)

ContentSpec == ContentInit /\ [][ContentNext]_contentVars

-----------------------------------------------------------------------------
\* However the handlers of two admins pass each other: no create replaces a
\* row (each has its deletion before the next one), and an article is left
\* without its category only by a handler that was under way when the other
\* one wrote.
ContentStandsTogether ==
    /\ \A i \in Items : made[i] <= 1 /\ (made[i] = 1 => There(i))
    /\ \A a \in Articles : There(a) /\ ~There(content[a]) => a \in excused
=============================================================================
