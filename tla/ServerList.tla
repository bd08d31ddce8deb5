----------------------------- MODULE ServerList -----------------------------
(***************************************************************************)
(* What GET /servers lists when nodes are discovered by docker: the rows   *)
(* that match, one per group of names (a name without its trailing digits),*)
(* sorted and cut into pages.  The cache around it is in Servers.          *)
(*                                                                         *)
(* A name is a number whose digits are the first letter, the rest of the   *)
(* group and the trailing digit, so that names compare as the strings do.  *)
(* Rows are numbered in the order of created_at.                           *)
(***************************************************************************)
EXTENDS Integers, Sequences, FiniteSets, SequencesExt

CONSTANTS ServerNames,  \* names a row may have
          MaxRows       \* bound: rows of the table

ASSUME ServerListAssumption == ServerNames \subseteq 100..999 /\ MaxRows \in Nat

VARIABLE table

Sorts == {"created_at_desc", "created_at_asc", "name_asc", "name_desc", "region_asc"}

GroupOf(row) == row.name \div 10
FirstLetter(row) == row.name \div 100

ListInit == table = <<>>

RowAdded ==
    /\ Len(table) < MaxRows
    /\ \E n \in ServerNames, a \in BOOLEAN, h \in 0..1, g \in 0..1 :
          table' = Append(table, [name |-> n, active |-> a, health |-> h, region |-> g,
                                  created |-> Len(table) + 1])

ListSpec == ListInit /\ [][RowAdded]_table

-----------------------------------------------------------------------------
\* The rows the filters leave: all of them, or the active ones.
Matching(onlyActive) == {r \in Range(table) : onlyActive => r.active}

\* ORDER BY.
Before(sort, r, s) ==
    CASE sort = "created_at_desc" -> r.created > s.created
      [] sort = "created_at_asc"  -> r.created < s.created
      [] sort = "name_asc"  -> r.name < s.name \/ (r.name = s.name /\ r.created < s.created)
      [] sort = "name_desc" -> r.name > s.name \/ (r.name = s.name /\ r.created < s.created)
      [] sort = "region_asc" -> r.region < s.region \/ (r.region = s.region /\ r.created < s.created)

OrderedRows(onlyActive, sort) ==
    CHOOSE q \in SetToSeqs(Matching(onlyActive)) :
        \A i, j \in DOMAIN q : i < j => Before(sort, q[i], q[j])

\* (is_active, health_score) >= of the row that was kept so far.
AtLeast(r, s) == \/ r.active /\ ~s.active
                 \/ r.active = s.active /\ r.health >= s.health

\* A later row of the group replaces the one that was kept.
Keep(kept, r) ==
    LET same == {s \in kept : GroupOf(s) = GroupOf(r)}
    IN  IF \A s \in same : AtLeast(r, s) THEN (kept \ same) \cup {r} ELSE kept

\* The loop over the rows.
ByName(onlyActive, sort) ==
    FoldLeft(Keep, {}, OrderedRows(onlyActive, sort))

\* _row_sort_key together with reverse=True for the descending sorts.
RowSort(sort, r, s) ==
    CASE sort = "created_at_desc" -> -r.created > -s.created
      [] sort = "created_at_asc"  -> r.created < s.created
      [] sort = "name_asc"  -> r.name < s.name
      [] sort = "name_desc" -> \/ -FirstLetter(r) > -FirstLetter(s)
                               \/ FirstLetter(r) = FirstLetter(s) /\ r.name > s.name
      [] sort = "region_asc" -> r.region < s.region \/ (r.region = s.region /\ r.name < s.name)

SortedRows(onlyActive, sort) ==
    CHOOSE q \in SetToSeqs(ByName(onlyActive, sort)) :
        \A i, j \in DOMAIN q : i < j => RowSort(sort, q[i], q[j])

\* Mutant: page numbers are taken to start at 0.
EffectiveOffsetFromZero(page, limit) == page * limit

EffectiveOffset(page, limit) == (page - 1) * limit

ListPage(onlyActive, sort, page, limit) ==
    LET rows == SortedRows(onlyActive, sort)
        from == EffectiveOffset(page, limit)
    IN  SubSeq(rows, from + 1, IF from + limit < Len(rows) THEN from + limit ELSE Len(rows))

-----------------------------------------------------------------------------
(* Properties.                                                             *)

\* The places of a row in the pages: the page and the row of the page.
Places(onlyActive, sort, limit) ==
    UNION {{p} \X DOMAIN ListPage(onlyActive, sort, p, limit) : p \in 1..(MaxRows + 1)}

\* Turning the pages of any size in any order of sorting shows every group of
\* servers, and each in one place.
PagesShowEveryGroup ==
    \A onlyActive \in BOOLEAN, sort \in Sorts, limit \in 1..Len(table) :
        LET places == Places(onlyActive, sort, limit)
            shown == [x \in places |-> GroupOf(ListPage(onlyActive, sort, x[1], limit)[x[2]])]
            groups == {GroupOf(r) : r \in Matching(onlyActive)}
        IN  /\ \A x \in places : shown[x] \in groups
            /\ \A g \in groups : \E x \in places : \A y \in places : shown[y] = g <=> y = x

\* The row that stands for a group is an active one if there is one, and of those
\* the healthiest, however the rows were ordered.
BestIsShown ==
    \A sort \in Sorts, r \in Matching(FALSE) :
        \E s \in ByName(FALSE, sort) :
            /\ GroupOf(s) = GroupOf(r)
            /\ r.active => s.active
            /\ r.active = s.active => s.health >= r.health

\* The pages of the list leave no group out and show each by its best row.
ListIsComplete == PagesShowEveryGroup /\ BestIsShown
=============================================================================
