----------------------------- MODULE Migrations -----------------------------
(***************************************************************************)
(* The nine Alembic revisions (api/alembic/versions): the columns that     *)
(* each adds and drops, the data that it carries from column to column,    *)
(* upgrade and downgrade.                                                  *)
(*                                                                         *)
(* A command runs its revisions one after the other in one transaction     *)
(* (env.py), on rows that a release of the application has written. That   *)
(* the application waits meanwhile is an assumption: ALTER TABLE locks the *)
(* table it is at.                                                         *)
(*                                                                         *)
(* A text is the sequence of its words, that is of what stands between     *)
(* single spaces: two spaces in a row have the empty word between them,    *)
(* and '' is <<Empty>>. Of a row, the columns that revisions carry or      *)
(* bring are kept; rate_amount goes with rate_type, bik and inn are empty. *)
(***************************************************************************)
EXTENDS Integers, SequencesExt

CONSTANTS
    Employee,       \* each with at most one row in schedule
    Word, Empty, WordLen,
    Contacts, FullNames, LegacyNames,   \* what releases write
    Pays, PayOf,    \* rate types with a currency; the one in each profile
    Null, NoRow,
    Releases,       \* bound: the revisions at which the application runs
    MaxWrites       \* bound: rows written

ASSUME MigrationsAssumption ==
    /\ Empty \in Word /\ WordLen \in [Word -> Nat] /\ WordLen[Empty] = 0
    /\ Contacts \subseteq Seq(Word)
    /\ FullNames \subseteq Seq(Word) /\ Null \notin Seq(Word)
    /\ LegacyNames \subseteq [last_name : Seq(Word), first_name : Seq(Word),
                              patronymic : Seq(Word) \cup {Null}]
    /\ PayOf \in [Employee -> Pays] /\ \A p \in Pays : Null \notin {p[1], p[2]}
    /\ Releases \subseteq 1..9 /\ MaxWrites \in Nat

VARIABLES
    db,         \* what is committed
    work,       \* what the transaction of the command sees
    cmd, target,    \* alembic upgrade and downgrade
    told,       \* ghost: the rows as a release last wrote them
    low,        \* ghost: the lowest revision since
    writes

vars == <<db, work, cmd, target, told, low, writes>>

----------------------------------------------------------------------------
(***************************************************************************)
(* Columns: table, name, nullable.                                         *)
(***************************************************************************)
Cols(t, S, nullable) == {<<t, c, nullable>> : c \in S}

ApiSession == Cols("api_session", {"id", "user_id", "created_at", "expires_at"}, FALSE)
ScheduleTable == Cols("schedule", {"id", "employee_id", "date", "start_time", "end_time"}, FALSE)

Initial ==
    Cols("company", {"id", "name", "legal_form", "legal_address", "contact_phone",
                     "business_area", "email", "created_at"}, FALSE)
      \cup Cols("company", {"logo"}, TRUE)
      \cup Cols("qr_session", {"id", "token", "company_id", "created_at", "expires_at",
                               "is_active"}, FALSE)
      \cup Cols("user", {"id", "email", "password_hash", "role", "company_id",
                         "is_active", "created_at"}, FALSE)
      \cup ApiSession
      \cup Cols("employee_profile", {"id", "user_id", "first_name", "last_name", "position",
                                     "rate_type", "rate_amount", "currency", "created_at"}, FALSE)
      \cup Cols("employee_profile", {"patronymic", "updated_at"}, TRUE)
      \cup Cols("adjustment", {"id", "employee_id", "type", "amount", "comment", "date",
                               "created_at"}, FALSE)
      \cup Cols("time_entry", {"id", "employee_id", "date", "check_in", "created_at"}, FALSE)
      \cup Cols("time_entry", {"check_out"}, TRUE)

\* What api/models.py declares.
Models ==
    Cols("company", {"id", "name", "legal_form", "legal_address", "contact_name",
                     "business_area", "email", "created_at"}, FALSE)
      \cup Cols("company", {"logo", "inn", "bik"}, TRUE)
      \cup Cols("user", {"id", "email", "password_hash", "role", "company_id",
                         "is_active", "created_at"}, FALSE)
      \cup Cols("employee_profile", {"id", "user_id", "full_name", "position", "rate_type",
                                     "rate_amount", "currency", "created_at"}, FALSE)
      \cup Cols("employee_profile", {"phone", "avatar_key", "updated_at"}, TRUE)
      \cup Cols("schedule", {"id", "employee_id", "date", "start_time", "end_time",
                             "rate_type", "rate_amount", "currency"}, FALSE)
      \cup Cols("adjustment", {"id", "employee_id", "type", "amount", "comment", "date",
                               "created_at"}, FALSE)
      \cup Cols("qr_session", {"id", "token", "company_id", "created_at", "expires_at",
                               "is_active"}, FALSE)
      \cup Cols("time_entry", {"id", "employee_id", "date", "check_in", "created_at"}, FALSE)
      \cup Cols("time_entry", {"check_out"}, TRUE)

\* Foreign keys: the first table refers to the second.
Refers == {<<"qr_session", "company">>, <<"user", "company">>, <<"api_session", "user">>,
           <<"employee_profile", "user">>, <<"adjustment", "employee_profile">>,
           <<"time_entry", "employee_profile">>, <<"schedule", "employee_profile">>}

\* Lengths of the columns that texts are carried to.
Size == [contact_phone |-> 20, contact_name |-> 255, full_name |-> 320,
         first_name |-> 100, last_name |-> 100, patronymic |-> 100]

LastRevision == 9

\* Variant: the currency of a scheduled day stays nullable.
CurrencyOfDay_Nullable == Cols("schedule", {"currency"}, TRUE)

CurrencyOfDay == Cols("schedule", {"currency"}, FALSE)
RateOfDay == Cols("schedule", {"rate_type", "rate_amount"}, FALSE)
CompanyNumbers == Cols("company", {"inn", "bik"}, TRUE)
Phone == Cols("employee_profile", {"phone"}, TRUE)
AvatarKey == Cols("employee_profile", {"avatar_key"}, TRUE)
FullName == Cols("employee_profile", {"full_name"}, FALSE)
NameParts == Cols("employee_profile", {"first_name", "last_name"}, FALSE)
               \cup Cols("employee_profile", {"patronymic"}, TRUE)
ContactPhone == Cols("company", {"contact_phone"}, FALSE)
ContactName == Cols("company", {"contact_name"}, FALSE)

\* The columns that each revision's upgrade() drops and adds, and its downgrade().
UpDrops == <<{}, ContactPhone, {}, NameParts, {}, {}, {}, {}, ApiSession>>
UpAdds == <<Initial, ContactName, Phone, FullName, ScheduleTable, RateOfDay, AvatarKey,
            CompanyNumbers \cup CurrencyOfDay, {}>>

DownDrops == <<Initial, ContactName, Phone, FullName, ScheduleTable, RateOfDay, AvatarKey,
               CurrencyOfDay \cup CompanyNumbers, {}>>
DownAdds == <<{}, ContactPhone, {}, NameParts, {}, {}, {}, {}, ApiSession>>

DropOrder(k) ==
    IF k = 1 THEN <<"time_entry", "adjustment", "employee_profile", "api_session", "user",
                    "qr_session", "company">>
    ELSE IF k = 5 THEN <<"schedule">> ELSE <<>>

----------------------------------------------------------------------------
(***************************************************************************)
(* Texts, as PostgreSQL's functions treat them.                            *)
(***************************************************************************)
IsWord(w) == w # Empty

Letters(s) == UNION {{<<i, k>> : k \in 1..WordLen[s[i]]} : i \in 1..Len(s)}

\* Its letters and the spaces between its words.
TextLen(s) == Cardinality(Letters(s)) + Len(s) - 1

Trimmed(s) ==
    IF SelectInSeq(s, IsWord) = 0 THEN <<Empty>>
    ELSE SubSeq(s, SelectInSeq(s, IsWord), SelectLastInSeq(s, IsWord))

SplitPart(s, k) == IF k <= Len(s) THEN <<s[k]>> ELSE <<Empty>>

Coalesce(s, default) == IF s = Null THEN default ELSE s

\* Variant: the first name first.
Joined_FirstFirst(r) ==
    Trimmed(r.first_name \o r.last_name \o Coalesce(r.patronymic, <<Empty>>))

\* concat(last_name, ' ', first_name, ' ', patronymic), trimmed.
Joined(r) ==
    Trimmed(r.last_name \o r.first_name \o Coalesce(r.patronymic, <<Empty>>))

Split(r) ==
    LET s == Trimmed(r.full_name)
    IN [last_name |-> SplitPart(s, 1),
        first_name |-> SplitPart(s, 2),
        patronymic |-> IF Len(s) > 2 THEN Trimmed(SubSeq(s, 3, Len(s))) ELSE Null]

----------------------------------------------------------------------------
(***************************************************************************)
(* Rows: functions on the columns that are kept.                           *)
(***************************************************************************)
Kept(t) ==
    CASE t = "company" -> {"contact_phone", "contact_name"}
      [] t = "employee_profile" -> {"first_name", "last_name", "patronymic", "full_name",
                                    "phone", "rate_type", "currency", "avatar_key"}
      [] t = "schedule" -> {"rate_type", "currency"}

\* No row is a row that is not there.
ASSUME RowsAssumption ==
    \A t \in {"company", "employee_profile", "schedule"} : \A S \in SUBSET Kept(t) :
        NoRow \notin [S -> Seq(Word) \cup {p[1] : p \in Pays} \cup {p[2] : p \in Pays}
                              \cup {Null, "phone", "key"}]

ColumnsOf(t, schema) == {c[2] : c \in {x \in schema : x[1] = t}}
Tables(schema) == {c[1] : c \in schema}

\* The row after columns have come and gone: a new one is NULL unless it is filled.
Moved(row, t, schema, filled) ==
    [c \in Kept(t) \cap ColumnsOf(t, schema) |->
        IF c \in DOMAIN filled THEN filled[c]
        ELSE IF c \in DOMAIN row THEN row[c] ELSE Null]

Fits(row, t, schema) ==
    \A c \in DOMAIN row :
        IF row[c] = Null THEN <<t, c, TRUE>> \in schema
        ELSE c \in DOMAIN Size => TextLen(row[c]) <= Size[c]

RowsFit(w) ==
    /\ w.company # NoRow => Fits(w.company, "company", w.schema)
    /\ \A e \in Employee :
          /\ w.profile[e] # NoRow => Fits(w.profile[e], "employee_profile", w.schema)
          /\ w.day[e] # NoRow => Fits(w.day[e], "schedule", w.schema)

\* What upgrade() of revision k fills in.
UpProfile(k, r) == IF k = 4 THEN [full_name |-> Joined(r)] ELSE <<>>
UpCompany(k, r) == IF k = 2 THEN [contact_name |-> r.contact_phone] ELSE <<>>

\* Variant: the new columns are made NOT NULL without a rate in them.
UpDay_NoBackfill(k, p) ==
    IF k = 8 THEN [currency |-> Coalesce(p.currency, "RUB")] ELSE <<>>

UpDay(k, p) ==
    IF k = 6 THEN [rate_type |-> p.rate_type]
    ELSE IF k = 8 THEN [currency |-> Coalesce(p.currency, "RUB")] ELSE <<>>

DownProfile(k, r) == IF k = 4 THEN Split(r) ELSE <<>>
DownCompany(k, r) == IF k = 2 THEN [contact_phone |-> r.contact_name] ELSE <<>>

\* The database with another schema, its rows moved: up or down by revision k.
Rebuilt(w, up, k, schema) ==
    [rev |-> IF up THEN k ELSE k - 1, schema |-> schema,
     company |-> IF w.company = NoRow \/ "company" \notin Tables(schema) THEN NoRow
                 ELSE Moved(w.company, "company", schema,
                            IF up THEN UpCompany(k, w.company) ELSE DownCompany(k, w.company)),
     profile |-> [e \in Employee |->
         IF w.profile[e] = NoRow \/ "employee_profile" \notin Tables(schema) THEN NoRow
         ELSE Moved(w.profile[e], "employee_profile", schema,
                    IF up THEN UpProfile(k, w.profile[e]) ELSE DownProfile(k, w.profile[e]))],
     day |-> [e \in Employee |->
         IF w.day[e] = NoRow \/ "schedule" \notin Tables(schema) THEN NoRow
         ELSE Moved(w.day[e], "schedule", schema,
                    IF up THEN UpDay(k, w.profile[e]) ELSE <<>>)]]

Upgraded(w) ==
    LET k == w.rev + 1 IN Rebuilt(w, TRUE, k, (w.schema \ UpDrops[k]) \cup UpAdds[k])

Downgraded(w) ==
    Rebuilt(w, FALSE, w.rev, (w.schema \ DownDrops[w.rev]) \cup DownAdds[w.rev])

\* Columns that are dropped are there, columns that are added are not.
Changeable(schema, drops, adds) ==
    /\ drops \subseteq schema
    /\ \A c \in adds : \A x \in schema \ drops : <<c[1], c[2]>> # <<x[1], x[2]>>

\* No table is dropped while another refers to it.
Droppable(schema, order) ==
    \A i \in 1..Len(order) :
        \A t \in Tables(schema) \ {order[j] : j \in 1..i} : <<t, order[i]>> \notin Refers

UpgradeRuns(w) ==
    /\ Changeable(w.schema, UpDrops[w.rev + 1], UpAdds[w.rev + 1])
    /\ RowsFit(Upgraded(w))

DowngradeRuns(w) ==
    /\ Changeable(w.schema, DownDrops[w.rev], DownAdds[w.rev])
    /\ Droppable(w.schema, DropOrder(w.rev))
    /\ RowsFit(Downgraded(w))

----------------------------------------------------------------------------
NoRows == [e \in Employee |-> NoRow]

Init ==
    /\ db = [rev |-> 0, schema |-> {}, company |-> NoRow, profile |-> NoRows, day |-> NoRows]
    /\ work = db
    /\ cmd = "idle" /\ target = 0
    /\ told = [e \in Employee |-> [profile |-> NoRow, day |-> NoRow]]
    /\ low = [e \in Employee |-> 0]
    /\ writes = 0

\* What a command asks for: one revision more or less, all of them or none.
Targets(rev) == {rev - 1, rev + 1, 0, LastRevision} \cap 0..LastRevision

\* alembic upgrade <revision>, alembic downgrade <revision>.
Command(c, r) ==
    /\ cmd = "idle"
    /\ IF c = "up" THEN r > db.rev ELSE r < db.rev
    /\ cmd' = c /\ target' = r
    /\ UNCHANGED <<db, work, told, low, writes>>

UpgradeStep ==
    /\ cmd = "up" /\ work.rev < target
    /\ UpgradeRuns(work)
    /\ work' = Upgraded(work)
    /\ UNCHANGED <<db, cmd, target, told, low, writes>>

\* Variant: the texts go back whatever their length.
DowngradeStep_AnyLength ==
    /\ cmd = "down" /\ work.rev > target
    /\ work' = Downgraded(work)
    /\ UNCHANGED <<db, cmd, target, told, low, writes>>

DowngradeStep ==
    /\ cmd = "down" /\ work.rev > target
    /\ DowngradeRuns(work)
    /\ work' = Downgraded(work)
    /\ UNCHANGED <<db, cmd, target, told, low, writes>>

CommandCommits ==
    /\ cmd # "idle" /\ work.rev = target
    /\ db' = work
    /\ low' = [e \in Employee |-> IF target < low[e] THEN target ELSE low[e]]
    /\ cmd' = "idle" /\ target' = 0
    /\ UNCHANGED <<work, told, writes>>

StepFails ==
    \/ cmd = "up" /\ work.rev < target /\ ~UpgradeRuns(work)
    \/ cmd = "down" /\ work.rev > target /\ ~DowngradeRuns(work)

\* A statement fails, or the command is killed: all its revisions are rolled back.
CommandEnds ==
    /\ cmd # "idle"
    /\ work' = db
    /\ cmd' = "idle" /\ target' = 0
    /\ UNCHANGED <<db, told, low, writes>>

(***************************************************************************)
(* A release of the application writes rows.                               *)
(***************************************************************************)
WriteCompany(s) ==
    /\ cmd = "idle" /\ db.rev \in Releases /\ writes < MaxWrites
    /\ LET row == [c \in Kept("company") \cap ColumnsOf("company", db.schema) |-> s]
       IN /\ Fits(row, "company", db.schema)
          /\ db' = [db EXCEPT !.company = row]
    /\ work' = db' /\ writes' = writes + 1
    /\ UNCHANGED <<cmd, target, told, low>>

\* snap is the pay of the scheduled day, from before the profile's was changed.
WriteEmployee(e, name, snap) ==
    LET given == [phone |-> "phone", avatar_key |-> "key",
                  rate_type |-> PayOf[e][1], currency |-> PayOf[e][2]]
        row == [c \in Kept("employee_profile") \cap ColumnsOf("employee_profile", db.schema)
                    |-> IF c \in DOMAIN name THEN name[c] ELSE given[c]]
        day == IF "schedule" \notin Tables(db.schema) THEN NoRow
               ELSE [c \in Kept("schedule") \cap ColumnsOf("schedule", db.schema)
                        |-> [rate_type |-> snap[1], currency |-> snap[2]][c]]
    IN /\ cmd = "idle" /\ db.rev \in Releases /\ writes < MaxWrites
       /\ Fits(row, "employee_profile", db.schema)
       /\ db' = [db EXCEPT !.profile = [@ EXCEPT ![e] = row], !.day = [@ EXCEPT ![e] = day]]
       /\ work' = db' /\ writes' = writes + 1
       /\ told' = [told EXCEPT ![e] = [profile |-> row, day |-> day]]
       /\ low' = [low EXCEPT ![e] = db.rev]
       /\ UNCHANGED <<cmd, target>>

Names == IF db.rev < 4 THEN LegacyNames ELSE {[full_name |-> s] : s \in FullNames}

Next ==
    \/ \E c \in {"up", "down"}, r \in Targets(db.rev) : Command(c, r)
    \/ UpgradeStep \/ DowngradeStep \/ CommandCommits \/ CommandEnds
    \/ \E s \in Contacts : WriteCompany(s)
    \/ \E e \in Employee, name \in Names :
          \E snap \in Pays \ {PayOf[e]} : WriteEmployee(e, name, snap)

Spec == Init /\ [][Next]_vars

----------------------------------------------------------------------------
\* A row has the columns of its table, each nullable or filled, none too long.
WellFormed(w) ==
    /\ w.rev \in 0..LastRevision
    /\ RowsFit(w)
    /\ w.company # NoRow =>
          DOMAIN w.company = Kept("company") \cap ColumnsOf("company", w.schema)
    /\ \A e \in Employee : w.profile[e] # NoRow =>
          DOMAIN w.profile[e] = Kept("employee_profile") \cap ColumnsOf("employee_profile", w.schema)
    /\ \A e \in Employee : w.day[e] # NoRow =>
          DOMAIN w.day[e] = Kept("schedule") \cap ColumnsOf("schedule", w.schema)

\* What is committed and what a command sees are well-formed between its revisions.
TypeOK ==
    /\ WellFormed(db) /\ WellFormed(work)
    /\ cmd \in {"idle", "up", "down"} /\ target \in 0..LastRevision
    /\ cmd = "idle" => work = db
    /\ \A e \in Employee : low[e] \in 0..db.rev
    /\ writes \in 0..MaxWrites

SchemaAt[r \in 0..LastRevision] ==
    IF r = 0 THEN {} ELSE (SchemaAt[r - 1] \ UpDrops[r]) \cup UpAdds[r]

\* Whatever upgrades and downgrades have been run, finished or not, the tables are
\* those of the revision that the database says it is at, and at the head those that
\* models.py declares, NOT NULL where it says so.
SchemaIsTheRevisions ==
    /\ db.schema = SchemaAt[db.rev]
    /\ db.rev = LastRevision => db.schema = Models

\* The words of a text, numbered in their order.
Words(s) == {i \in 1..Len(s) : IsWord(s[i])}
Numbered(s) == {<<Cardinality(Words(s) \cap (1..i)), s[i]>> : i \in Words(s)}

WordsOf(r) == Numbered(IF "full_name" \in DOMAIN r THEN r.full_name ELSE Joined(r))

\* No word of a name is lost, doubled or moved by the way through first_name,
\* last_name and patronymic, and every other value is what the application wrote,
\* unless a downgrade went below the revision that brought its column: then it is
\* NULL, or for a scheduled day the rate that the profile has now.
RoundTripsKeep ==
    \A e \in Employee :
        LET was == told[e].profile
            is == db.profile[e]
            d == told[e].day
            Same(c, since) == c \in DOMAIN is => is[c] = IF low[e] >= since THEN was[c] ELSE Null
        IN /\ is # NoRow <=> was # NoRow /\ low[e] >= 1
           /\ is # NoRow =>
                /\ WordsOf(is) = WordsOf(was)
                /\ Same("rate_type", 1) /\ Same("currency", 1)
                /\ Same("phone", 3) /\ Same("avatar_key", 7)
           /\ db.day[e] # NoRow <=> d # NoRow /\ low[e] >= 5
           /\ db.day[e] # NoRow =>
                /\ db.rev >= 6 => db.day[e].rate_type =
                      IF low[e] >= 6 THEN d.rate_type ELSE is.rate_type
                /\ db.rev >= 8 => db.day[e].currency =
                      IF low[e] >= 8 THEN d.currency ELSE is.currency

\* Every upgrade runs to its end on every database, and a downgrade only fails where
\* a text is too long for the columns it goes back to.
FailsOnlyOnLength ==
    StepFails =>
        /\ cmd = "down"
        /\ \/ work.rev = 2 /\ TextLen(work.company.contact_name) > 20
           \/ /\ work.rev = 4
              /\ \E e \in Employee : work.profile[e] # NoRow /\
                    \E i \in 1..3 :
                        LET s == Trimmed(work.profile[e].full_name)
                        IN i <= Len(s) /\ TextLen(SubSeq(s, i, IF i = 3 THEN Len(s) ELSE i)) > 100
============================================================================
