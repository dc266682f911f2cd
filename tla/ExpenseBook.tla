------------------------------- MODULE ExpenseBook -------------------------------
(***************************************************************************)
(* The expenses of the finance crate (finance/src/expenses) and the tools  *)
(* that call them (skill-master/src/tools/expenses.rs).                    *)
(*                                                                         *)
(* A date is the number of a day; year 1 begins with day YearStart[1].  A  *)
(* call is one statement, so that calls are steps; what a tool answers     *)
(* from the table is an operator.                                          *)
(***************************************************************************)
EXTENDS Integers, Sequences, FiniteSetsExt, Totals

CONSTANTS
    Predefined,    \* PREDEFINED_CATEGORIES
    Custom,        \* names users create
    Amounts,
    LastYear,      \* the years that are asked for are 1 to this one
    LeapYears,
    Dates,         \* days that entries are given
    Todays,        \* days on which tools are called
    MaxId,         \* bound: the ids
    None

VARIABLES
    today,
    categories,    \* names in expense_categories
    entries        \* expense_entries: date, amount and category of each id

vars == <<today, categories, entries>>

-----------------------------------------------------------------------------
(* The calendar.                                                           *)

MonthLength(y, m) ==
    <<31, IF y \in LeapYears THEN 29 ELSE 28, 31, 30, 31, 30, 31, 31, 30, 31, 30, 31>>[m]

Length(y) == IF y \in LeapYears THEN 366 ELSE 365

Years == 1 .. LastYear

\* The year before and the year after those that are asked for belong to it.
Around == 0 .. LastYear + 1

YearStart[y \in 0 .. LastYear + 2] ==
    IF y = 0 THEN 0 ELSE YearStart[y - 1] + Length(y - 1)

MonthStart ==
    [y \in Around |-> [m \in 1 .. 12 |->
        YearStart[y] + Total([k \in 1 .. 12 |-> MonthLength(y, k)], 1 .. m - 1)]]

YearOf(d) == CHOOSE y \in Around : YearStart[y] <= d /\ d < YearStart[y + 1]
MonthOf(d) == Max({m \in 1 .. 12 : MonthStart[YearOf(d)][m] <= d})

ExpenseAssumption ==
    /\ LastYear \in Nat /\ Amounts \subseteq Int
    /\ Dates \union Todays \subseteq YearStart[1] .. YearStart[LastYear + 1] - 1
    /\ MaxId \in Nat /\ None \notin Dates

-----------------------------------------------------------------------------
(* The tools that write.                                                   *)

Ids == DOMAIN entries

TypeOK ==
    /\ today \in Todays
    /\ Predefined \subseteq categories /\ categories \subseteq Predefined \union Custom
    /\ Ids \subseteq 1 .. MaxId
    /\ \A i \in Ids :
          entries[i] \in [date : Dates \union Todays, amount : Amounts, category : categories]

\* init_predefined, on an empty table
Init ==
    /\ today \in Todays
    /\ categories = Predefined
    /\ entries = <<>>

\* A name that is there violates UNIQUE.
CreateCategory(name) ==
    /\ name \notin categories
    /\ categories' = categories \union {name}
    /\ UNCHANGED <<today, entries>>

\* parse_created_at: now, when none is given
CreatedAt(date) == IF date = None THEN today ELSE date

\* INTEGER PRIMARY KEY: one more than the greatest id there is
NextId == IF Ids = {} THEN 1 ELSE Max(Ids) + 1

\* Mutant: the category is not checked.
Stored_Unchecked(i, e) ==
    entries' = [j \in Ids \union {i} |-> IF j = i THEN e ELSE entries[j]]

\* The row is written; a category that is not there violates the foreign key.
Stored(i, e) ==
    /\ e.category \in categories
    /\ entries' = [j \in Ids \union {i} |-> IF j = i THEN e ELSE entries[j]]

CreateEntry(date, amount, category) ==
    /\ NextId <= MaxId
    /\ Stored(NextId, [date |-> CreatedAt(date), amount |-> amount, category |-> category])
    /\ UNCHANGED <<today, categories>>

\* The whole row is replaced, its date too.
UpdateEntry(i, date, amount, category) ==
    /\ i \in Ids
    /\ Stored(i, [date |-> CreatedAt(date), amount |-> amount, category |-> category])
    /\ UNCHANGED <<today, categories>>

DeleteEntry(i) ==
    /\ i \in Ids
    /\ entries' = [j \in Ids \ {i} |-> entries[j]]
    /\ UNCHANGED <<today, categories>>

\* Days go by; init_predefined finds its names at every start.
DayPasses ==
    /\ \E d \in Todays : d > today /\ today' = d
    /\ UNCHANGED <<categories, entries>>

Next ==
    \/ DayPasses
    \/ \E name \in Custom : CreateCategory(name)
    \/ \E date \in Dates \union {None}, amount \in Amounts, category \in Predefined \union Custom :
          \/ CreateEntry(date, amount, category)
          \/ \E i \in Ids : UpdateEntry(i, date, amount, category)
    \/ \E i \in Ids : DeleteEntry(i)

Spec == Init /\ [][Next]_vars

-----------------------------------------------------------------------------
(* The tools that report.                                                  *)

ListByDateRange(start, end) == {i \in Ids : start <= entries[i].date /\ entries[i].date < end}

\* Mutant: the year ends with the first day of December.
ListByMonth_Eleven(y, m) ==
    ListByDateRange(MonthStart[y][m],
                    IF m = 12 THEN MonthStart[y][12] ELSE MonthStart[y][m + 1])

ListByMonth(y, m) ==
    ListByDateRange(MonthStart[y][m],
                    IF m = 12 THEN MonthStart[y + 1][1] ELSE MonthStart[y][m + 1])

ListByYear(y) == ListByDateRange(YearStart[y], YearStart[y + 1])

\* Mutant: the weeks are counted from 0.
ListByWeek_FromZero(y, w) ==
    LET start == YearStart[y] + 7 * w
    IN ListByDateRange(start, start + 7)

\* Weeks of seven days from the first of January; saturating_sub
ListByWeek(y, w) ==
    LET start == YearStart[y] + 7 * (IF w = 0 THEN 0 ELSE w - 1)
    IN ListByDateRange(start, start + 7)

Sum(ids) == Total([i \in Ids |-> entries[i].amount], ids)

\* The totals of a report's entries by some key of theirs.
SumsBy(key, ids) == [k \in {key[i] : i \in ids} |-> Sum({i \in ids : key[i] = k})]

\* Mutant: a category's last entry is its total.
ByCategory_Last(ids) ==
    [c \in {entries[i].category : i \in ids} |->
        entries[Max({i \in ids : entries[i].category = c})].amount]

ByCategory(ids) == SumsBy([i \in Ids |-> entries[i].category], ids)

MonthlyReport(y, m) ==
    LET list == ListByMonth(y, m) IN [total |-> Sum(list), by_category |-> ByCategory(list)]

YearReport(y) ==
    LET list == ListByYear(y)
    IN [total |-> Sum(list), by_category |-> ByCategory(list),
        by_month |-> SumsBy([i \in Ids |-> MonthOf(entries[i].date)], list)]

WeeklyReport(y, w) ==
    LET list == ListByWeek(y, w) IN [total |-> Sum(list), by_category |-> ByCategory(list)]

\* Mutant: the months of today are counted from 0, and 0 is taken for January.
DefaultMonthly_FromZero == ListByMonth(YearOf(today), Max({1, MonthOf(today) - 1}))

\* What a report without arguments is made from.
DefaultMonthly == ListByMonth(YearOf(today), MonthOf(today))
DefaultYearly == ListByYear(YearOf(today))

-----------------------------------------------------------------------------
(* Properties.                                                             *)

(* The year report shows of each month what the month's own report shows,  *)
(* and nothing else: the ranges of list_by_month and list_by_year and the  *)
(* month read off a date agree at every boundary.                          *)
MonthsMakeTheYear ==
    \A y \in Years :
        LET report == YearReport(y)
            months == [m \in 1 .. 12 |-> MonthlyReport(y, m).total]
        IN /\ report.total = Total(months, 1 .. 12)
           /\ \A m \in 1 .. 12 :
                months[m] = IF m \in DOMAIN report.by_month THEN report.by_month[m] ELSE 0

(* In every report the categories add up to the total, whatever was moved  *)
(* from one category to another.                                           *)
CategoriesMakeTheTotal ==
    \A y \in Years :
        LET reports == {YearReport(y)} \union {MonthlyReport(y, m) : m \in 1 .. 12}
                                       \union {WeeklyReport(y, w) : w \in 1 .. 53}
        IN \A r \in reports : r.total = Total(r.by_category, DOMAIN r.by_category)

(* Every expense of a year is in exactly one of its 53 weeks (list_by_week).*)
WeeksMakeTheYear ==
    \A y \in Years : \A i \in ListByYear(y) :
        LET its == {w \in 1 .. 53 : i \in ListByWeek(y, w)} IN \E w \in 1 .. 53 : its = {w}

(* What is entered today is in the monthly and the yearly report that is   *)
(* asked for today without arguments.                                      *)
TodayIsReported ==
    \A i \in Ids : entries[i].date = today => i \in DefaultMonthly /\ i \in DefaultYearly
=============================================================================
