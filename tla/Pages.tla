-------------------------------- MODULE Pages --------------------------------
(***************************************************************************)
(* Every long list of the API is paged by a cursor: an answer carries the  *)
(* sort key and the id of its last row, and the next request asks for the  *)
(* rows that sort after it.  Between two requests of one walk the table    *)
(* changes: rows appear, leave, or get another key.                        *)
(*                                                                         *)
(* One walk is followed, through one of Lists.  A SELECT is one step.  The *)
(* CSV export walks the users in chunks the same way, within a number of   *)
(* rows that it has counted before.  Two rows of a table are told apart by *)
(* their ids; a row outside of the table or of the filter is Out.          *)
(***************************************************************************)
EXTENDS Integers, FiniteSets

CONSTANTS Rows,         \* ids
          Keys,         \* values of a sort column, but NULL
          Null, Out, NoCursor,
          Lists,        \* the endpoints that may be walked
          Limit,        \* rows of a page, or of a chunk of the export
          ExportMax,    \* EXPORT_MAX_ROWS
          MaxChanges    \* bound: changes of the table in a behaviour

ById == {"transactions", "payments", "ledger", "history", "errors", "audit", "broadcasts"}
AllLists == ById \cup {"users", "new", "old", "salary", "referrals", "saves", "export"}

ASSUME PagesAssumption ==
    /\ IsFiniteSet(Rows) /\ Rows \subseteq Nat
    /\ Keys \subseteq Nat /\ Keys # {}
    /\ Null \notin Nat /\ Out \notin Nat /\ Null # Out
    /\ NoCursor \notin [key: Keys \cup {Null, 0}, id: Rows]
    /\ Lists \subseteq AllLists
    /\ Limit \in Nat \ {0} /\ ExportMax \in Nat \ {0}
    /\ MaxChanges \in Nat

VARIABLES list,     \* the endpoint that is walked
          row,      \* row[i]: the sort key of row i
          walk,     \* the client's cursor; what is left of an export, whether
                    \* it was capped, and whether rows came or moved meanwhile
          served,   \* served[i]: how often the walk has shown row i
          steady,   \* the rows nothing has happened to since the walk began
          cache,    \* answers of the referral list: cursor -> answer
          changes

pageVars == <<list, row, walk, served, steady, cache, changes>>

-----------------------------------------------------------------------------
Cursors == [key: Keys \cup {Null, 0}, id: Rows] \cup {NoCursor}

Walk == [at: {"idle", "walking", "ended"}, cursor: Cursors,
         left: Nat, tail: BOOLEAN, cut: BOOLEAN, grown: BOOLEAN]

NoWalk == [at |-> "idle", cursor |-> NoCursor, left |-> 0, tail |-> FALSE,
           cut |-> FALSE, grown |-> FALSE]

\* The keys a row of the list may have. The lists by id have none; the user's
\* saves sort INTEGER ids (0) below TEXT ones (1).
KeysOf(l) ==
    CASE l \in ById -> {0}
      [] l \in {"users", "export"} -> Keys \cup {Null}
      [] l = "saves" -> {0, 1}
      [] OTHER -> Keys

PagesTypeOK ==
    /\ list \in Lists
    /\ row \in [Rows -> KeysOf(list) \cup {Out}]
    /\ walk \in Walk
    /\ served \in [Rows -> Nat]
    /\ steady \subseteq Rows
    /\ changes \in 0..MaxChanges

NoAnswers == [c \in {} |-> [rows |-> {}, next |-> NoCursor]]

PagesInit ==
    /\ list \in Lists
    /\ row \in [Rows -> KeysOf(list) \cup {Out}]
    /\ walk = NoWalk
    /\ served = [i \in Rows |-> 0]
    /\ steady = {}
    /\ cache = NoAnswers
    /\ changes = 0

-----------------------------------------------------------------------------
(***************************************************************************)
(* Order and pages.                                                        *)
(***************************************************************************)
Matching == {i \in Rows : row[i] # Out}
Valued == {i \in Matching : row[i] # Null}

\* ORDER BY key DESC, id DESC, where NULL keys come last; "old" is ascending.
Precedes(i, j) ==
    LET desc == IF row[i] = row[j] THEN i > j
                ELSE row[j] = Null \/ (row[i] # Null /\ row[i] > row[j])
    IN IF list = "old" THEN ~desc ELSE desc

First(S, n) == {i \in S : Cardinality({j \in S \ {i} : Precedes(j, i)}) < n}
LastOf(S) == CHOOSE i \in S : \A j \in S \ {i} : Precedes(j, i)
CursorAt(i) == [key |-> row[i], id |-> i]

\* The page is read with one row more than it shows ...
Peek(S) ==
    LET page == First(S, Limit) IN
    [rows |-> page,
     next |-> IF Cardinality(S) > Limit THEN CursorAt(LastOf(page)) ELSE NoCursor]

\* ... or a full page is taken to have a successor, which may be empty.
Full(S) ==
    LET page == First(S, Limit) IN
    [rows |-> page,
     next |-> IF Cardinality(page) = Limit THEN CursorAt(LastOf(page)) ELSE NoCursor]

\* Mutants: the id does not break ties; the page starts at its cursor.
KeysBelow(c) == {i \in Valued : row[i] < c.key}
NotAbove(c) == {i \in Valued : row[i] <= c.key /\ (row[i] < c.key \/ i <= c.id)}

\* _keyset_clause.
Keyset(c) == {i \in Valued : row[i] <= c.key /\ (row[i] < c.key \/ i < c.id)}

NullsBelow(c) == {i \in Matching : row[i] = Null /\ (c # NoCursor => i < c.id)}

-----------------------------------------------------------------------------
(***************************************************************************)
(* The endpoints: the answer to a request with cursor c.                   *)
(***************************************************************************)
\* The rows after a cursor with a value, then the NULL tail.
ListUsers(c) ==
    Peek(IF c = NoCursor THEN Matching
         ELSE IF c.key = Null THEN NullsBelow(c)
         ELSE Keyset(c) \cup NullsBelow(NoCursor))

\* repo.search: the comparison turns round for the ascending sort.
Search(c) ==
    Peek(IF c = NoCursor THEN Matching
         ELSE {i \in Matching :
                 IF list = "old" THEN row[i] > c.key \/ (row[i] = c.key /\ i > c.id)
                 ELSE row[i] < c.key \/ (row[i] = c.key /\ i < c.id)})

Referrals(c) ==
    Full(IF c = NoCursor THEN Matching
         ELSE {i \in Matching : row[i] < c.key \/ (row[i] = c.key /\ i < c.id)})

OlderThan(c) == {i \in Matching : c # NoCursor => i < c.id}

Transactions(c) == Full(OlderThan(c))
Payments(c) == Full(OlderThan(c))
Ledger(c) == Full(OlderThan(c))
History(c) == Full(OlderThan(c))
Errors(c) == Peek(OlderThan(c))
Audit(c) == Peek(OlderThan(c))
Broadcasts(c) == Peek(OlderThan(c))

\* A TEXT save_id is no cursor: int() fails, and the answer has no successor.
\* A cursor's integer sorts below every TEXT.
UserSaves(c) ==
    LET answer == Peek(IF c = NoCursor THEN Matching
                       ELSE {i \in Matching : row[i] = 0 /\ i < c.id})
    IN IF answer.next # NoCursor /\ answer.next.key = 1
       THEN [answer EXCEPT !.next = NoCursor] ELSE answer

Answer(c) ==
    CASE list = "users" -> ListUsers(c)
      [] list \in {"new", "old", "salary"} -> Search(c)
      [] list = "referrals" -> IF c \in DOMAIN cache THEN cache[c] ELSE Referrals(c)
      [] list = "transactions" -> Transactions(c)
      [] list = "payments" -> Payments(c)
      [] list = "ledger" -> Ledger(c)
      [] list = "history" -> History(c)
      [] list = "errors" -> Errors(c)
      [] list = "audit" -> Audit(c)
      [] list = "broadcasts" -> Broadcasts(c)
      [] list = "saves" -> UserSaves(c)

-----------------------------------------------------------------------------
(***************************************************************************)
(* The walk.                                                               *)
(***************************************************************************)
Show(rows) == served' = [i \in Rows |-> IF i \in rows THEN served[i] + 1 ELSE served[i]]

\* A row has stood still since before the oldest answer the walk may be given.
Begin ==
    /\ walk.at # "walking"
    /\ served' = [i \in Rows |-> 0]
    /\ steady' = IF cache = NoAnswers THEN Matching ELSE steady \cap Matching
    /\ UNCHANGED <<list, row, cache, changes>>

BeginWalk ==
    /\ list # "export"
    /\ Begin
    /\ walk' = [NoWalk EXCEPT !.at = "walking"]

NextPage ==
    LET c == walk.cursor
        answer == Answer(c)
    IN
    /\ walk.at = "walking" /\ list # "export"
    /\ Show(answer.rows)
    /\ walk' = [walk EXCEPT !.cursor = answer.next,
                            !.at = IF answer.next = NoCursor THEN "ended" ELSE "walking"]
    /\ cache' = IF list = "referrals"
                THEN [x \in DOMAIN cache \cup {c} |-> IF x = c THEN answer ELSE cache[x]]
                ELSE cache
    /\ UNCHANGED <<list, row, steady, changes>>

\* An answer is REFERRALS_CACHE_TTL_SECONDS old, or the memo was full.
Forget(c) ==
    /\ c \in DOMAIN cache
    /\ cache' = [x \in DOMAIN cache \ {c} |-> cache[x]]
    /\ UNCHANGED <<list, row, walk, served, steady, changes>>

\* _export_response counts the rows (and commits the audit row that says how
\* many) before the first chunk is read.
BeginExport ==
    LET matched == Cardinality(Matching) IN
    /\ list = "export"
    /\ Begin
    /\ walk' = [NoWalk EXCEPT
                  !.at = IF matched = 0 THEN "ended" ELSE "walking",
                  !.left = IF matched < ExportMax THEN matched ELSE ExportMax,
                  !.cut = matched > ExportMax]

\* _iter_export_rows: the valued rows, then the NULL tail, while any are left
\* of the count. A short chunk ends its part.
ExportChunk ==
    LET want == IF walk.left < Limit THEN walk.left ELSE Limit
        rest == IF walk.tail THEN NullsBelow(walk.cursor)
                ELSE IF walk.cursor = NoCursor THEN Valued ELSE Keyset(walk.cursor)
        chunk == First(rest, want)
        short == Cardinality(chunk) < want
        left == walk.left - Cardinality(chunk)
    IN
    /\ walk.at = "walking" /\ list = "export"
    /\ Show(chunk)
    /\ walk' = [walk EXCEPT
                  !.left = left,
                  !.at = IF left = 0 \/ (walk.tail /\ short) THEN "ended" ELSE "walking",
                  !.tail = walk.tail \/ short,
                  !.cursor = IF short THEN NoCursor ELSE CursorAt(LastOf(chunk))]
    /\ UNCHANGED <<list, row, steady, cache, changes>>

-----------------------------------------------------------------------------
(***************************************************************************)
(* The table.                                                              *)
(***************************************************************************)
Change(i, key) ==
    /\ changes < MaxChanges
    /\ changes' = changes + 1
    /\ row[i] # key
    /\ row' = [row EXCEPT ![i] = key]
    /\ steady' = steady \ {i}
    /\ walk' = [walk EXCEPT !.grown = @ \/ (list = "export" /\ key # Out)]
    /\ UNCHANGED <<list, served, cache>>

\* A log grows at its end; any other row may come into a filter anywhere.
Appear(i) ==
    /\ row[i] = Out
    /\ list \in ById \ {"payments"} => \A j \in Matching : j < i
    /\ \E key \in KeysOf(list) : Change(i, key)

\* Balances, salaries, invitations and dates of publication and last visit move.
Move(i) ==
    /\ row[i] # Out
    /\ list \notin ById \cup {"saves"}
    /\ \E key \in KeysOf(list) :
          /\ list = "referrals" => key > row[i]
          /\ Change(i, key)

\* The retention sweep takes the oldest lines of the two logs; a filter, an
\* expiry or a user may take any row of the other lists that lose some.
Leave(i) ==
    /\ row[i] # Out
    /\ list \notin {"transactions", "broadcasts", "referrals"}
    /\ list \in {"errors", "audit"} => \A j \in Matching : i <= j
    /\ Change(i, Out)

PagesNext ==
    \/ BeginWalk \/ NextPage \/ BeginExport \/ ExportChunk
    \/ \E c \in DOMAIN cache : Forget(c)
    \/ \E i \in Rows : Appear(i) \/ Move(i) \/ Leave(i)

PagesSpec == PagesInit /\ [][PagesNext]_pageVars

-----------------------------------------------------------------------------
(***************************************************************************)
(* Properties.                                                             *)
(***************************************************************************)

\* Whatever happens to the other rows between two pages, a row that stood
\* still is shown once: no page repeats it, and it is not skipped where a page
\* ends among equal keys, at the NULL tail, or with an answer that was cached.
\* An export skips none either, unless it was capped, or rows came or moved
\* after they had been counted; the list of a user's saves ends early at a page
\* whose last id is TEXT.
RowsAreServedOnce ==
    \A i \in steady :
        /\ served[i] <= 1
        /\ walk.at = "ended" =>
              (served[i] = 1 \/ list = "saves"
                            \/ (list = "export" /\ (walk.cut \/ walk.grown)))
=============================================================================
